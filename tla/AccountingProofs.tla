-------------------------- MODULE AccountingProofs --------------------------
(***************************************************************************)
(* Fifo, Snapshots and RateLimiter, for every value of their constants.    *)
(*                                                                         *)
(* Fifo.  The inductive invariant relates three orders: the lots of a      *)
(* depot are sorted by instant, the exhausted ones are those before the    *)
(* cursor, and every row still to come is behind every lot and behind the  *)
(* disposal under way.  A second one, SumInv, relates the sums: what came  *)
(* in is open or matched, what went out is matched, oversold or under way, *)
(* and what is missing is the worst shortfall so far.  A third, AgesInv,   *)
(* relates the sums by instant: what came in up to an instant and is gone  *)
(* is what came in first.                                                  *)
(***************************************************************************)
EXTENDS Fifo, Snapshots, RateLimiter, SumProofs, SequenceTheorems

\* One depot: its lots L and its cursor c.
DepotOK(L, c) ==
    /\ L \in Seq(Lot)
    /\ c \in 1 .. Len(L) + 1
    /\ \A i \in 1 .. Len(L) : L[i].left = 0 <=> i < c
    /\ \A i, j \in 1 .. Len(L) : i < j => L[i].at <= L[j].at

\* Every lot of L was acquired at t or before.
NotAfter(L, t) == \A i \in 1 .. Len(L) : L[i].at <= t

\* A match: its lot is not behind the cursor, and not younger than the disposal.
MatchOK(m) == m.lot <= cursor[m.by.depot] /\ m.at <= m.by.at

IInv ==
    /\ TypeOK
    /\ ledger \in Books
    /\ \A d \in Depots : DepotOK(lots[d], cursor[d])
    /\ \A d \in Depots : \A r \in todo : NotAfter(lots[d], r.at)
    /\ row # NoRow => /\ row.out
                      /\ \A d \in Depots : NotAfter(lots[d], row.at)
                      /\ \A r \in todo : Before(row, r)
    /\ \A n \in 1 .. Len(matches) : MatchOK(matches[n])

-----------------------------------------------------------------------------
(* Rows *)

\* The rows of a ledger are rows.
LEMMA ExpandType ==
    ASSUME NEW B \in SUBSET Entry
    PROVE  Expand(B) \subseteq Row
  <1>1. ASSUME NEW e \in B
        PROVE  EntryRow(e) \in Row
    BY DEF EntryRow, Row, Entry
  <1>2. ASSUME NEW e \in B, e.fee > 0
        PROVE  FeeRow(e) \in Row
    BY <1>2 DEF FeeRow, Row, Entry
  <1> QED BY <1>1, <1>2 DEF Expand

\* What comes first is not later.
LEMMA BeforeAt ==
    ASSUME NEW a \in Row, NEW b \in Row, Before(a, b)
    PROVE  a.at <= b.at
  BY DEF Before, Row

-----------------------------------------------------------------------------
(* One depot *)

\* Acquire: a lot that is not older than the others goes to the end.
LEMMA DepotAfterAcquire ==
    ASSUME NEW L, NEW c, DepotOK(L, c),
           NEW x \in Lot, x.left # 0, NotAfter(L, x.at)
    PROVE  DepotOK(Append(L, x), c)
  <1> DEFINE M == Append(L, x)
             n == Len(L)
  <1>1. L \in Seq(Lot) /\ n \in Nat /\ c \in 1 .. n + 1
    BY LenProperties DEF DepotOK
  <1>2. /\ M \in Seq(Lot) /\ Len(M) = n + 1
        /\ \A i \in 1 .. n : M[i] = L[i]
        /\ M[n + 1] = x
    BY <1>1, AppendProperties
  <1>3. /\ \A i \in 1 .. n : L[i].left = 0 <=> i < c
        /\ \A i, j \in 1 .. n : i < j => L[i].at <= L[j].at
        /\ \A i \in 1 .. n : L[i].at <= x.at
    BY DEF DepotOK, NotAfter
  <1> HIDE DEF M, n
  <1>4. c \in 1 .. n + 1 + 1
    BY <1>1
  <1>5. ASSUME NEW i \in 1 .. n + 1
        PROVE  M[i].left = 0 <=> i < c
    <2>1. CASE i \in 1 .. n
      BY <2>1, <1>2, <1>3
    <2>2. CASE i = n + 1
      BY <2>2, <1>1, <1>2
    <2> QED BY <2>1, <2>2, <1>1
  <1>6. ASSUME NEW i \in 1 .. n + 1, NEW j \in 1 .. n + 1, i < j
        PROVE  M[i].at <= M[j].at
    <2>1. i \in 1 .. n /\ M[i] = L[i]
      BY <1>1, <1>2, <1>6
    <2>2. CASE j \in 1 .. n
      BY <2>1, <2>2, <1>2, <1>3, <1>6
    <2>3. CASE j = n + 1
      BY <2>1, <2>3, <1>2, <1>3
    <2> QED BY <2>2, <2>3, <1>1
  <1> QED BY <1>2, <1>4, <1>5, <1>6 DEF DepotOK, M

\* A lot with less left.
LEMMA LotType ==
    ASSUME NEW x \in Lot, NEW used \in Nat, used <= x.left
    PROVE  LET y == [x EXCEPT !.left = x.left - used]
           IN /\ x.left \in Nat /\ y \in Lot
              /\ y.left = x.left - used /\ y.at = x.at
  <1>1. x.left \in Nat /\ x.left - used \in Nat
    BY DEF Lot
  <1> QED BY <1>1 DEF Lot

\* The lots with "used" taken from lot i, and the cursor that follows.
Taken(L, i, used) == [L EXCEPT ![i].left = @ - used]
Moved(L, i, used) == IF L[i].left = used THEN i + 1 ELSE i

\* What Taken changes and what it keeps.
LEMMA TakenProperties ==
    ASSUME NEW L \in Seq(Lot), NEW i \in 1 .. Len(L),
           NEW used \in Nat, used <= L[i].left
    PROVE  /\ Taken(L, i, used) \in Seq(Lot)
           /\ Len(Taken(L, i, used)) = Len(L)
           /\ Taken(L, i, used)[i].left = L[i].left - used
           /\ \A j \in 1 .. Len(L) : Taken(L, i, used)[j].at = L[j].at
           /\ \A j \in 1 .. Len(L) \ {i} : Taken(L, i, used)[j] = L[j]
  <1> DEFINE y == [L[i] EXCEPT !.left = L[i].left - used]
             M == [L EXCEPT ![i] = y]
  <1>1. L[i] \in Lot
    BY ElementOfSeq
  <1>2. y \in Lot /\ y.left = L[i].left - used /\ y.at = L[i].at
    BY <1>1, LotType
  <1>3. Taken(L, i, used) = M
    BY DEF Taken
  <1> HIDE DEF y
  <1>4. M \in Seq(Lot) /\ Len(M) = Len(L)
    BY <1>2, ExceptSeq
  <1>5. M[i] = y /\ \A j \in 1 .. Len(L) \ {i} : M[j] = L[j]
    BY ExceptSeq, <1>2
  <1> QED BY <1>2, <1>3, <1>4, <1>5

\* Consume: the lot at the cursor is the first with anything left, and the
\* cursor moves when nothing is.
LEMMA DepotAfterConsume ==
    ASSUME NEW L, NEW c, DepotOK(L, c), NEW i \in 1 .. Len(L), i = c,
           NEW used \in Nat, used <= L[i].left
    PROVE  DepotOK(Taken(L, i, used), Moved(L, i, used))
  <1> DEFINE M == Taken(L, i, used)
             n == Len(L)
             e == Moved(L, i, used)
  <1>1. L \in Seq(Lot) /\ n \in Nat
    BY LenProperties DEF DepotOK
  <1>2. /\ M \in Seq(Lot) /\ Len(M) = n
        /\ M[i].left = L[i].left - used
        /\ \A j \in 1 .. n : M[j].at = L[j].at
        /\ \A j \in 1 .. n \ {i} : M[j] = L[j]
    BY <1>1, TakenProperties
  <1>3. L[i].left \in Nat
    <2>1. L[i] \in Lot
      BY <1>1, ElementOfSeq
    <2> QED BY <2>1 DEF Lot
  <1>4. /\ \A j \in 1 .. n : L[j].left = 0 <=> j < i
        /\ \A j, k \in 1 .. n : j < k => L[j].at <= L[k].at
    BY DEF DepotOK
  <1>5. /\ e \in {i, i + 1}
        /\ e = i + 1 <=> L[i].left - used = 0
    BY <1>3 DEF Moved
  <1> HIDE DEF M, n, e
  <1>6. i \in 1 .. n /\ e \in 1 .. n + 1
    BY <1>1, <1>5 DEF n
  <1>7. ASSUME NEW j \in 1 .. n
        PROVE  M[j].left = 0 <=> j < e
    <2>1. CASE j = i
      BY <2>1, <1>2, <1>5, <1>6
    <2>2. CASE j # i
      <3>1. M[j].left = 0 <=> j < i
        BY <2>2, <1>2, <1>4
      <3>2. j < e <=> j < i
        BY <2>2, <1>5, <1>6
      <3> QED BY <3>1, <3>2
    <2> QED BY <2>1, <2>2
  <1>8. \A j, k \in 1 .. n : j < k => M[j].at <= M[k].at
    BY <1>2, <1>4
  <1> QED BY <1>2, <1>6, <1>7, <1>8 DEF DepotOK, M, e

\* Settle with something left to pay: nothing is left to pay it with.
LEMMA DepotExhausted ==
    ASSUME NEW L, NEW c, DepotOK(L, c),
           \A i \in c .. Len(L) : L[i].left = 0
    PROVE  /\ c = Len(L) + 1
           /\ \A i \in 1 .. Len(L) : L[i].left = 0
  <1>1. Len(L) \in Nat /\ c \in 1 .. Len(L) + 1
    BY LenProperties DEF DepotOK
  <1>2. CASE c \in 1 .. Len(L)
    <2>1. L[c].left = 0
      BY <1>1, <1>2
    <2>2. c < c
      BY <1>2, <2>1 DEF DepotOK
    <2> QED BY <1>1, <2>2
  <1>3. CASE c = Len(L) + 1
    <2>1. \A i \in 1 .. Len(L) : i < c
      BY <1>1, <1>3
    <2> QED BY <1>3, <2>1 DEF DepotOK
  <1> QED BY <1>1, <1>2, <1>3

-----------------------------------------------------------------------------
(* The invariant *)

\* The inductive invariant holds in every state.
LEMMA Inductive == Spec => []IInv
  <1>1. Init => IInv
    <2> SUFFICES ASSUME Init PROVE IInv
      OBVIOUS
    <2>1. ledger \in Books /\ ledger \subseteq Entry
      BY BookAssumption DEF Init
    <2>2. todo \subseteq Row
      BY <2>1, ExpandType DEF Init
    <2>3. TypeOK
      BY <2>1, <2>2 DEF Init, TypeOK
    <2>4. ASSUME NEW d \in Depots
          PROVE  DepotOK(lots[d], cursor[d]) /\ \A r \in todo : NotAfter(lots[d], r.at)
      BY DEF Init, DepotOK, NotAfter
    <2> QED BY <2>1, <2>3, <2>4 DEF Init, IInv
  <1>2. IInv /\ [Next]_vars => IInv'
    <2> SUFFICES ASSUME IInv, [Next]_vars PROVE IInv'
      OBVIOUS
    <2>1. /\ ledger \in Books /\ ledger \subseteq Entry /\ todo \subseteq Row
          /\ row \in Row \cup {NoRow} /\ rest \in Nat
          /\ lots \in [Depots -> Seq(Lot)]
          /\ cursor \in [Depots -> Nat \ {0}]
          /\ matches \in Seq(Match)
          /\ oversold \in [Depots -> Nat]
      BY DEF IInv, TypeOK
    <2>2. /\ \A d \in Depots : DepotOK(lots[d], cursor[d])
          /\ \A d \in Depots : \A r \in todo : NotAfter(lots[d], r.at)
      BY DEF IInv
    <2>3. row # NoRow => /\ row.out
                         /\ \A d \in Depots : NotAfter(lots[d], row.at)
                         /\ \A r \in todo : Before(row, r)
      BY DEF IInv
    <2>4. \A n \in 1 .. Len(matches) : MatchOK(matches[n])
      BY DEF IInv
    <2>5. ASSUME NEW r \in todo, Acquire(r)
          PROVE  IInv'
      <3> DEFINE x == [at |-> r.at, original |-> r.amount, left |-> r.amount]
                 L == Append(lots[r.depot], x)
      <3>1. /\ row = NoRow /\ First(r)
            /\ todo' = todo \ {r}
            /\ lots' = [lots EXCEPT ![r.depot] = L]
            /\ ledger' = ledger /\ row' = row /\ rest' = rest /\ cursor' = cursor
            /\ matches' = matches /\ oversold' = oversold
        BY <2>5 DEF Acquire
      <3>2. r \in Row /\ r.depot \in Depots /\ r.at \in Nat
            /\ r.amount \in Nat \ {0}
        BY <2>1, <2>5 DEF Row
      <3>3. x \in Lot /\ x.left # 0 /\ x.at = r.at
        BY <3>2 DEF Lot
      <3> HIDE DEF x
      <3>4. DepotOK(L, cursor[r.depot])
        BY <2>2, <2>5, <3>2, <3>3, DepotAfterAcquire
      <3>5. L \in Seq(Lot)
        BY <3>4 DEF DepotOK
      <3>6. \A s \in todo' : NotAfter(L, s.at)
        <4> SUFFICES ASSUME NEW s \in todo \ {r}
                     PROVE  NotAfter(L, s.at)
          BY <3>1
        <4>1. s \in Row /\ r.at <= s.at
          BY <2>1, <3>1, <3>2, BeforeAt DEF First
        <4>2. NotAfter(lots[r.depot], s.at)
          BY <2>2, <3>2
        <4>3. lots[r.depot] \in Seq(Lot)
          BY <2>1, <3>2
        <4>4. /\ Len(L) = Len(lots[r.depot]) + 1
              /\ \A i \in 1 .. Len(lots[r.depot]) : L[i] = lots[r.depot][i]
              /\ L[Len(lots[r.depot]) + 1] = x
          BY <4>3, <3>3, AppendProperties
        <4>5. Len(lots[r.depot]) \in Nat
          BY <4>3, LenProperties
        <4> HIDE DEF L
        <4>6. ASSUME NEW i \in 1 .. Len(L)
              PROVE  L[i].at <= s.at
          <5>1. CASE i \in 1 .. Len(lots[r.depot])
            BY <5>1, <4>2, <4>4 DEF NotAfter
          <5>2. CASE i = Len(lots[r.depot]) + 1
            BY <5>2, <4>1, <4>4, <3>3
          <5> QED BY <5>1, <5>2, <4>4, <4>5
        <4> QED BY <4>6 DEF NotAfter
      <3> HIDE DEF L
      <3>7. lots' \in [Depots -> Seq(Lot)]
        BY <2>1, <3>1, <3>5
      <3>8. TypeOK'
        BY <2>1, <3>1, <3>7 DEF TypeOK
      <3>9. ASSUME NEW d \in Depots
            PROVE  /\ DepotOK(lots'[d], cursor'[d])
                   /\ \A s \in todo' : NotAfter(lots'[d], s.at)
        <4>1. CASE d = r.depot
          <5>1. lots'[d] = L
            BY <2>1, <3>1, <4>1
          <5> QED BY <5>1, <4>1, <3>1, <3>4, <3>6
        <4>2. CASE d # r.depot
          <5>1. lots'[d] = lots[d]
            BY <2>1, <3>1, <4>2
          <5> QED BY <5>1, <2>2, <3>1
        <4> QED BY <4>1, <4>2
      <3>10. \A n \in 1 .. Len(matches') : MatchOK(matches[n])'
        BY <2>4, <3>1 DEF MatchOK
      <3> QED BY <2>1, <3>1, <3>8, <3>9, <3>10 DEF IInv, MatchOK, DepotOK, NotAfter
    <2>6. ASSUME NEW r \in todo, Dispose(r)
          PROVE  IInv'
      <3>1. /\ row = NoRow /\ First(r) /\ r.out
            /\ todo' = todo \ {r} /\ row' = r /\ rest' = r.amount
            /\ ledger' = ledger /\ lots' = lots /\ cursor' = cursor
            /\ matches' = matches /\ oversold' = oversold
        BY <2>6 DEF Dispose
      <3>2. r \in Row /\ r.amount \in Nat
        BY <2>1, <2>6 DEF Row
      <3>3. TypeOK'
        BY <2>1, <3>1, <3>2 DEF TypeOK
      <3>4. /\ \A d \in Depots : NotAfter(lots[d], r.at)
            /\ \A s \in todo \ {r} : Before(r, s)
        BY <2>2, <2>6, <3>1 DEF First
      <3> QED BY <2>1, <2>2, <2>4, <3>1, <3>3, <3>4
              DEF IInv, MatchOK, DepotOK, NotAfter, Before
    <2>7. CASE Consume
      <3>1. /\ row # NoRow /\ rest > 0
            /\ ledger' = ledger /\ todo' = todo /\ row' = row /\ oversold' = oversold
        BY <2>7 DEF Consume
      <3> DEFINE d == row.depot
      <3>2. PICK i \in 1 .. Len(lots[d]) : NextLot(i) /\ ConsumeLot(i)
        BY <2>7 DEF Consume
      <3> DEFINE used == Least(lots[d][i].left, rest)
                 m == [by |-> row, lot |-> i, at |-> lots[d][i].at, amount |-> used]
                 L == Taken(lots[d], i, used)
                 c == Moved(lots[d], i, used)
      <3>3. row \in Row /\ d \in Depots
        BY <2>1, <3>1 DEF Row
      <3>4. lots[d] \in Seq(Lot) /\ cursor[d] \in Nat /\ DepotOK(lots[d], cursor[d])
            /\ Len(lots[d]) \in Nat
        BY <2>1, <2>2, <3>3, LenProperties
      <3>5. lots[d][i] \in Lot
        BY <3>4, ElementOfSeq
      <3>6. lots[d][i].left \in Nat /\ lots[d][i].at \in Nat
        BY <3>5 DEF Lot
      <3>7. lots[d][i].left > 0
        BY <3>2 DEF NextLot
      <3>8. used \in Nat \ {0} /\ used <= lots[d][i].left /\ used <= rest
        BY <2>1, <3>1, <3>6, <3>7 DEF Least
      <3>9. i = cursor[d]
        <4>1. /\ cursor[d] <= i
              /\ \A j \in cursor[d] .. i - 1 : lots[d][j].left = 0
          BY <3>2 DEF NextLot
        <4>2. CASE cursor[d] < i
          <5>1. cursor[d] \in cursor[d] .. i - 1 /\ cursor[d] \in 1 .. Len(lots[d])
            BY <4>2, <2>1, <3>3, <3>4
          <5>2. lots[d][cursor[d]].left = 0
            BY <4>1, <5>1
          <5>3. cursor[d] < cursor[d]
            BY <3>4, <5>1, <5>2 DEF DepotOK
          <5> QED BY <5>3, <3>4
        <4> QED BY <4>1, <4>2, <3>4
      <3>10. /\ lots' = [lots EXCEPT ![d] = L]
             /\ rest' = rest - used
             /\ cursor' = [cursor EXCEPT ![d] = c]
             /\ matches' = Append(matches, m)
        BY <3>2 DEF ConsumeLot, Taken, Moved
      <3>11. m \in Match /\ m.lot = i /\ m.by = row /\ m.at = lots[d][i].at
        BY <3>3, <3>4, <3>6, <3>8 DEF Match
      <3> HIDE DEF used, m
      <3>12. DepotOK(L, c)
        BY <3>4, <3>8, <3>9, DepotAfterConsume
      <3>13. /\ L \in Seq(Lot) /\ Len(L) = Len(lots[d])
             /\ \A j \in 1 .. Len(lots[d]) : L[j].at = lots[d][j].at
        BY <3>4, <3>8, TakenProperties
      <3>14. c \in Nat \ {0} /\ i <= c
        <4>1. i \in Nat \ {0}
          BY <3>4
        <4> QED BY <4>1 DEF Moved
      <3>15. \A t : NotAfter(lots[d], t) => NotAfter(L, t)
        BY <3>13 DEF NotAfter
      <3> HIDE DEF L, c
      <3>16. rest' \in Nat
        BY <2>1, <3>8, <3>10
      <3>17. matches' \in Seq(Match) /\ Len(matches') = Len(matches) + 1
             /\ (\A n \in 1 .. Len(matches) : matches'[n] = matches[n])
             /\ matches'[Len(matches) + 1] = m
        BY <2>1, <3>10, <3>11, AppendProperties
      <3>18. TypeOK'
        <4>1. lots' \in [Depots -> Seq(Lot)]
          BY <2>1, <3>10, <3>13
        <4>2. cursor' \in [Depots -> Nat \ {0}]
          BY <2>1, <3>10, <3>14
        <4> QED BY <2>1, <3>1, <3>16, <3>17, <4>1, <4>2 DEF TypeOK
      <3>19. ASSUME NEW e \in Depots
             PROVE  /\ DepotOK(lots'[e], cursor'[e])
                    /\ \A t : NotAfter(lots[e], t) => NotAfter(lots'[e], t)
                    /\ cursor[e] <= cursor'[e]
        <4>1. CASE e = d
          <5>1. lots'[e] = L /\ cursor'[e] = c
            BY <2>1, <3>10, <4>1, <3>3
          <5> QED BY <5>1, <4>1, <3>9, <3>12, <3>14, <3>15
        <4>2. CASE e # d
          <5>1. lots'[e] = lots[e] /\ cursor'[e] = cursor[e] /\ cursor[e] \in Nat
            BY <2>1, <3>10, <4>2
          <5> QED BY <5>1, <2>2
        <4> QED BY <4>1, <4>2
      <3>20. ASSUME NEW n \in 1 .. Len(matches')
             PROVE  /\ matches'[n].lot <= cursor'[matches'[n].by.depot]
                    /\ matches'[n].at <= matches'[n].by.at
        <4>1. Len(matches) \in Nat
          BY <2>1, LenProperties
        <4>2. CASE n \in 1 .. Len(matches)
          <5>1. matches'[n] = matches[n] /\ matches[n] \in Match
            BY <4>2, <3>17, <2>1, ElementOfSeq
          <5>2. matches[n].lot \in Nat /\ matches[n].by.depot \in Depots
            BY <5>1 DEF Match, Row
          <5>3. /\ matches[n].lot <= cursor[matches[n].by.depot]
                /\ matches[n].at <= matches[n].by.at
            BY <4>2, <2>4 DEF MatchOK
          <5>4. /\ cursor[matches[n].by.depot] <= cursor'[matches[n].by.depot]
                /\ cursor[matches[n].by.depot] \in Nat
                /\ cursor'[matches[n].by.depot] \in Nat
            BY <5>2, <3>19, <2>1, <3>18 DEF TypeOK
          <5> QED BY <5>1, <5>2, <5>3, <5>4
        <4>3. CASE n = Len(matches) + 1
          <5>1. matches'[n] = m
            BY <4>3, <3>17
          <5>2. lots[d][i].at <= row.at
            BY <2>3, <3>1, <3>3 DEF NotAfter
          <5>3. i <= cursor'[d]
            BY <2>1, <3>3, <3>10, <3>14
          <5> QED BY <5>1, <5>2, <5>3, <3>11
        <4> QED BY <4>1, <4>2, <4>3, <3>17
      <3>21. \A e \in Depots : \A r \in todo' : NotAfter(lots'[e], r.at)
        BY <2>2, <3>1, <3>19
      <3>22. row' # NoRow => /\ row'.out
                             /\ \A e \in Depots : NotAfter(lots'[e], row'.at)
                             /\ \A r \in todo' : Before(row', r)
        BY <2>3, <3>1, <3>19
      <3> QED BY <2>1, <3>1, <3>18, <3>19, <3>20, <3>21, <3>22
              DEF IInv, DepotOK, NotAfter, Before, MatchOK
    <2>8. CASE Settle
      <3> DEFINE d == row.depot
      <3>1. /\ row # NoRow /\ (rest = 0 \/ LotsExhausted)
            /\ row' = NoRow /\ rest' = 0
            /\ oversold' = [oversold EXCEPT ![d] = @ + rest]
            /\ cursor' = IF rest = 0 THEN cursor
                         ELSE [cursor EXCEPT ![d] = Len(lots[d]) + 1]
            /\ ledger' = ledger /\ todo' = todo /\ lots' = lots /\ matches' = matches
        BY <2>8 DEF Settle
      <3>2. d \in Depots
        BY <2>1, <3>1 DEF Row
      <3>3. cursor' = cursor
        <4>1. CASE rest = 0
          BY <3>1, <4>1
        <4>2. CASE rest # 0
          <5>1. cursor[d] = Len(lots[d]) + 1
            BY <4>2, <3>1, <3>2, <2>2, DepotExhausted DEF LotsExhausted
          <5> QED BY <5>1, <4>2, <3>1, <3>2, <2>1
        <4> QED BY <4>1, <4>2
      <3>4. oversold' \in [Depots -> Nat]
        BY <2>1, <3>1, <3>2
      <3>5. TypeOK'
        BY <2>1, <3>1, <3>3, <3>4 DEF TypeOK
      <3> QED BY <2>1, <2>2, <2>4, <3>1, <3>3, <3>5
              DEF IInv, MatchOK, DepotOK, NotAfter
    <2>9. CASE UNCHANGED vars
      BY <2>9 DEF vars, IInv, TypeOK, MatchOK, DepotOK, NotAfter, Before
    <2> QED BY <2>5, <2>6, <2>7, <2>8, <2>9 DEF Next
  <1> QED BY <1>1, <1>2, PTL DEF Spec

-----------------------------------------------------------------------------
(* The properties *)

\* Every variable keeps its type, for every set of ledgers.
THEOREM TypeCorrect == Spec => []TypeOK
  <1>1. IInv => TypeOK
    BY DEF IInv
  <1> QED BY <1>1, Inductive, PTL

\* The cursor never rescans a lot and leaves none behind.
THEOREM CursorIsExact == Spec => []CursorExact
  <1>1. IInv => CursorExact
    BY DEF IInv, DepotOK, CursorExact
  <1> QED BY <1>1, Inductive, PTL

\* Lots are consumed in the order in which they were acquired.
THEOREM FirstIsFirst == Spec => []FirstInFirstOut
  <1>1. IInv => FirstInFirstOut
    <2> SUFFICES ASSUME IInv PROVE FirstInFirstOut
      OBVIOUS
    <2>1. \A d \in Depots : \A i, j \in 1 .. Len(lots[d]) :
             i < j => lots[d][i].at <= lots[d][j].at
      BY DEF IInv, DepotOK
    <2>2. ASSUME NEW n \in 1 .. Len(matches), NEW i \in 1 .. matches[n].lot - 1
          PROVE  lots[matches[n].by.depot][i].left = 0
      <3> DEFINE d == matches[n].by.depot
      <3>1. matches[n] \in Match
        BY <2>2, ElementOfSeq DEF IInv, TypeOK
      <3>2. d \in Depots /\ matches[n].lot \in Nat
        BY <3>1 DEF Match, Row
      <3>3. DepotOK(lots[d], cursor[d]) /\ matches[n].lot <= cursor[d]
        BY <3>2, <2>2 DEF IInv, MatchOK
      <3>4. Len(lots[d]) \in Nat /\ cursor[d] \in 1 .. Len(lots[d]) + 1
        BY <3>3, LenProperties DEF DepotOK
      <3>5. i \in 1 .. Len(lots[d]) /\ i < cursor[d]
        BY <3>2, <3>3, <3>4
      <3> QED BY <3>3, <3>5 DEF DepotOK
    <2> QED BY <2>1, <2>2 DEF FirstInFirstOut
  <1> QED BY <1>1, Inductive, PTL

\* No disposal is matched with a lot acquired after it.
THEOREM LotsAreNeverFuture == Spec => []NoFutureLot
  <1>1. IInv => NoFutureLot
    BY DEF IInv, MatchOK, NoFutureLot
  <1> QED BY <1>1, Inductive, PTL

\* What is reported as oversold was not there, all earlier entries counted.
THEOREM OversoldIsNeverWrong == Spec => OversoldIsReal
  <1> DEFINE Real ==
        \A d \in Depots : oversold'[d] # oversold[d] =>
          /\ row # NoRow /\ row.depot = d
          /\ \A i \in 1 .. Len(lots[d]) : lots[d][i].left = 0
          /\ \A e \in ledger :
                e.into /\ e.depot = d /\ e.at <= row.at => EntryRow(e) \notin todo
  <1>1. IInv /\ [Next]_vars => [Real]_vars
    <2> SUFFICES ASSUME IInv, Next, NEW d \in Depots, oversold'[d] # oversold[d]
                 PROVE  /\ row # NoRow /\ row.depot = d
                        /\ \A i \in 1 .. Len(lots[d]) : lots[d][i].left = 0
                        /\ \A e \in ledger :
                              e.into /\ e.depot = d /\ e.at <= row.at
                                 => EntryRow(e) \notin todo
      OBVIOUS
    <2>1. Settle
      BY DEF Next, Acquire, Dispose, Consume
    <2>2. /\ row # NoRow /\ rest \in Nat /\ row \in Row
          /\ oversold \in [Depots -> Nat]
          /\ ledger \subseteq Entry
      BY <2>1 DEF Settle, IInv, TypeOK
    <2>3. /\ oversold' = [oversold EXCEPT ![row.depot] = @ + rest]
          /\ rest = 0 \/ LotsExhausted
      BY <2>1 DEF Settle
    <2>4. row.depot = d
      BY <2>2, <2>3
    <2>5. rest # 0
      BY <2>2, <2>3, <2>4
    <2>6. \A i \in 1 .. Len(lots[d]) : lots[d][i].left = 0
      BY <2>3, <2>4, <2>5, DepotExhausted DEF IInv, LotsExhausted
    <2>7. ASSUME NEW e \in ledger, e.into, e.at <= row.at, EntryRow(e) \in todo
          PROVE  FALSE
      <3>1. row.out /\ Before(row, EntryRow(e))
        BY <2>2, <2>7 DEF IInv
      <3>2. EntryRow(e).at = e.at /\ EntryRow(e).out = FALSE
        <4>1. e.into = TRUE
          BY <2>2, <2>7 DEF Entry
        <4> QED BY <4>1 DEF EntryRow
      <3>3. row.at \in Nat /\ e.at \in Nat
        BY <2>2 DEF Row, Entry
      <3>4. row.out = TRUE
        BY <2>2, <3>1 DEF Row
      <3>5. row.at < EntryRow(e).at
        BY <3>1, <3>2, <3>4 DEF Before
      <3> QED BY <2>7, <3>2, <3>3, <3>5
    <2> QED BY <2>2, <2>4, <2>6, <2>7
  <1>2. Spec => [][Real]_vars
    BY <1>1, Inductive, PTL DEF Spec
  <1> QED BY <1>2 DEF OversoldIsReal

-----------------------------------------------------------------------------
(* Amounts of the rows *)

\* A ledger has finitely many rows.
LEMMA RowsAreFinite ==
  ASSUME NEW B \in SUBSET Entry, IsFiniteSet(B)
  PROVE  IsFiniteSet(Expand(B)) /\ Expand(B) \in SUBSET Row
<1> DEFINE E == {EntryRow(e) : e \in B}
           C == {b \in B : b.fee > 0}
           F == {FeeRow(e) : e \in C}
           em == [e \in B |-> EntryRow(e)]
           fm == [e \in C |-> FeeRow(e)]
<1>1. em \in Surjection(B, E) /\ fm \in Surjection(C, F)
  <2>1. em \in [B -> E] /\ \A z \in E : \E e \in B : em[e] = z
    OBVIOUS
  <2>2. fm \in [C -> F] /\ \A z \in F : \E e \in C : fm[e] = z
    OBVIOUS
  <2> QED
    BY <2>1, <2>2 DEF Surjection
<1>2. IsFiniteSet(C)
  BY FS_Subset
<1> HIDE DEF em, fm, E, F, C
<1>3. IsFiniteSet(E) /\ IsFiniteSet(F)
  BY <1>1, <1>2, FS_Surjection
<1>4. IsFiniteSet(E \cup F)
  BY <1>3, FS_Union
<1>5. Expand(B) = E \cup F
  BY DEF Expand, E, F, C
<1> QED
  BY <1>4, <1>5, ExpandType

\* The order of the rows is strict.
LEMMA BeforeOneWay ==
  ASSUME NEW a \in Row, NEW b \in Row, Before(a, b)
  PROVE  ~ Before(b, a) /\ a # b
<1>1. a.at \in Nat /\ b.at \in Nat /\ a.src \in Nat /\ b.src \in Nat
  BY IdAssumption DEF Row
<1> QED
  BY <1>1 DEF Before

\* The rows of depot d that are no longer to do, and what they bring and take.
InRows(B, d, t) == {s \in RowsOf(B, d) \ t : ~ s.out}
OutRows(B, d, t) == {s \in RowsOf(B, d) \ t : s.out}
CameIn(B, d, t) == Total(Amounts(InRows(B, d, t)))
WentOut(B, d, t) == Total(Amounts(OutRows(B, d, t)))

\* What rows bring and take is a natural.
LEMMA RowSumsAreNat ==
  ASSUME NEW B \in SUBSET Entry, IsFiniteSet(B), NEW d, NEW t
  PROVE  /\ IsFiniteSet(InRows(B, d, t)) /\ Amounts(InRows(B, d, t)) \in [InRows(B, d, t) -> Nat]
         /\ IsFiniteSet(OutRows(B, d, t)) /\ Amounts(OutRows(B, d, t)) \in [OutRows(B, d, t) -> Nat]
         /\ CameIn(B, d, t) \in Nat /\ WentOut(B, d, t) \in Nat
<1>1. InRows(B, d, t) \in SUBSET Expand(B) /\ OutRows(B, d, t) \in SUBSET Expand(B)
  BY DEF InRows, OutRows, RowsOf
<1>2. ASSUME NEW S \in SUBSET Expand(B)
      PROVE  IsFiniteSet(S) /\ Amounts(S) \in [S -> Nat]
  <2>1. IsFiniteSet(S)
    BY RowsAreFinite, FS_Subset
  <2>2. \A s \in S : s.amount \in Nat
    BY RowsAreFinite DEF Row
  <2> QED
    BY <2>1, <2>2 DEF Amounts
<1> QED
  BY <1>1, <1>2, TotalIsNat DEF CameIn, WentOut

\* The first row to do is done.
LEMMA RowIsCounted ==
  ASSUME NEW B \in SUBSET Entry, IsFiniteSet(B), NEW t \in SUBSET Expand(B), NEW r \in t,
         NEW d
  PROVE  LET u == t \ {r}
         IN  /\ r.depot = d /\ ~ r.out => /\ CameIn(B, d, u) = CameIn(B, d, t) + r.amount
                                          /\ WentOut(B, d, u) = WentOut(B, d, t)
             /\ r.depot = d /\ r.out => /\ WentOut(B, d, u) = WentOut(B, d, t) + r.amount
                                        /\ CameIn(B, d, u) = CameIn(B, d, t)
             /\ r.depot # d => /\ CameIn(B, d, u) = CameIn(B, d, t)
                               /\ WentOut(B, d, u) = WentOut(B, d, t)
<1> DEFINE u == t \ {r}
<1>1. r \in Expand(B) /\ r \in Row
  BY RowsAreFinite
<1>2. CASE r.depot = d /\ ~ r.out
  <2>1. InRows(B, d, u) = InRows(B, d, t) \cup {r} /\ r \notin InRows(B, d, t)
    BY <1>1, <1>2 DEF InRows, RowsOf
  <2>2. OutRows(B, d, u) = OutRows(B, d, t)
    BY <1>1, <1>2 DEF OutRows, RowsOf
  <2> DEFINE S == InRows(B, d, t)
             f == Amounts(S \cup {r})
             g == Amounts(S)
  <2>3. IsFiniteSet(S) /\ g \in [S -> Nat] /\ f \in [S \cup {r} -> Nat]
    BY <2>1, RowSumsAreNat
  <2>4. f[r] = r.amount /\ \A y \in S : g[y] = f[y]
    BY DEF Amounts
  <2> HIDE DEF S, f, g
  <2>5. Total(f) = Total(g) + f[r]
    BY <2>1, <2>3, <2>4, TotalPlus DEF S
  <2> QED
    BY <1>2, <2>1, <2>2, <2>4, <2>5 DEF CameIn, WentOut, S, f, g
<1>3. CASE r.depot = d /\ r.out
  <2>1. OutRows(B, d, u) = OutRows(B, d, t) \cup {r} /\ r \notin OutRows(B, d, t)
    BY <1>1, <1>3 DEF OutRows, RowsOf
  <2>2. InRows(B, d, u) = InRows(B, d, t)
    BY <1>1, <1>3 DEF InRows, RowsOf
  <2> DEFINE S == OutRows(B, d, t)
             f == Amounts(S \cup {r})
             g == Amounts(S)
  <2>3. IsFiniteSet(S) /\ g \in [S -> Nat] /\ f \in [S \cup {r} -> Nat]
    BY <2>1, RowSumsAreNat
  <2>4. f[r] = r.amount /\ \A y \in S : g[y] = f[y]
    BY DEF Amounts
  <2> HIDE DEF S, f, g
  <2>5. Total(f) = Total(g) + f[r]
    BY <2>1, <2>3, <2>4, TotalPlus DEF S
  <2> QED
    BY <1>3, <2>1, <2>2, <2>4, <2>5 DEF CameIn, WentOut, S, f, g
<1>4. CASE r.depot # d
  <2>1. InRows(B, d, u) = InRows(B, d, t) /\ OutRows(B, d, u) = OutRows(B, d, t)
    BY <1>4 DEF InRows, OutRows, RowsOf
  <2> QED
    BY <1>4, <2>1 DEF CameIn, WentOut
<1> QED
  BY <1>2, <1>3, <1>4

\* What the first row to do leaves short is what all rows done by then do.
LEMMA ShortIsCounted ==
  ASSUME NEW B \in SUBSET Entry, IsFiniteSet(B), NEW t \in SUBSET Expand(B), NEW r \in t,
         NEW d,
         r.depot = d,
         \A s \in Expand(B) \ t : Before(s, r), \A s \in t \ {r} : Before(r, s)
  PROVE  ShortBy(B, d, r) = WentOut(B, d, t \ {r}) - CameIn(B, d, t \ {r})
<1> DEFINE until == {s \in RowsOf(B, d) : s = r \/ Before(s, r)}
<1>1. Expand(B) \in SUBSET Row
  BY RowsAreFinite
<1>2. \A s \in t \ {r} : ~ Before(s, r)
  BY <1>1, BeforeOneWay
<1>3. until = RowsOf(B, d) \ (t \ {r})
  BY <1>2 DEF RowsOf
<1>4. /\ {s \in until : s.out} = OutRows(B, d, t \ {r})
      /\ {s \in until : ~ s.out} = InRows(B, d, t \ {r})
  BY <1>3 DEF OutRows, InRows
<1> HIDE DEF until
<1>5. ShortBy(B, d, r) = Total(Amounts({s \in until : s.out})) - Total(Amounts({s \in until : ~ s.out}))
  BY DEF ShortBy, until
<1> QED
  BY <1>4, <1>5 DEF CameIn, WentOut

\* A shortfall is a whole number.
LEMMA ShortIsInt ==
  ASSUME NEW B \in SUBSET Entry, IsFiniteSet(B), NEW d, NEW q \in RowsOf(B, d)
  PROVE  ShortBy(B, d, q) \in Int
<1> DEFINE until == {z \in RowsOf(B, d) : z = q \/ Before(z, q)}
           A == {z \in until : z.out}
           C == {z \in until : ~ z.out}
<1>1. ShortBy(B, d, q) = Total(Amounts(A)) - Total(Amounts(C))
  BY DEF ShortBy
<1>2. Expand(B) \in SUBSET Row /\ IsFiniteSet(Expand(B))
  BY RowsAreFinite
<1>3. A \in SUBSET Expand(B) /\ C \in SUBSET Expand(B)
  BY DEF RowsOf
<1> HIDE DEF A, C, until
<1>4. ASSUME NEW S \in SUBSET Expand(B) PROVE Total(Amounts(S)) \in Nat
  <2>1. IsFiniteSet(S)
    BY <1>2, FS_Subset
  <2>2. \A z \in S : z.amount \in Nat
    BY <1>2 DEF Row
  <2>3. Amounts(S) \in [S -> Nat]
    BY <2>2 DEF Amounts
  <2> QED
    BY <2>1, <2>3, TotalIsNat
<1>5. Total(Amounts(A)) \in Nat /\ Total(Amounts(C)) \in Nat
  BY <1>3, <1>4
<1> QED
  BY <1>1, <1>5

-----------------------------------------------------------------------------
(* Amounts of the lots and the matches *)

\* What is left of each lot.
Lefts(L) == [i \in 1 .. Len(L) |-> L[i].left]

\* What is left is a natural, lot by lot and in all.
LEMMA LeftsAreNat ==
  ASSUME NEW L \in Seq(Lot)
  PROVE  /\ Lefts(L) \in [1 .. Len(L) -> Nat] /\ Len(L) \in Nat /\ IsFiniteSet(1 .. Len(L))
         /\ Total(Lefts(L)) \in Nat
<1>1. Len(L) \in Nat
  BY LenProperties
<1>2. ASSUME NEW i \in 1 .. Len(L) PROVE L[i].left \in Nat
  <2>1. L[i] \in Lot
    BY ElementOfSeq
  <2> QED
    BY <2>1 DEF Lot
<1>3. IsFiniteSet(1 .. Len(L))
  BY <1>1, FS_Interval
<1>4. Lefts(L) \in [1 .. Len(L) -> Nat]
  BY <1>2 DEF Lefts
<1> QED
  BY <1>1, <1>3, <1>4, TotalIsNat

\* A lot more.
LEMMA LotAppended ==
  ASSUME NEW L \in Seq(Lot), NEW x \in Lot
  PROVE  Total(Lefts(Append(L, x))) = Total(Lefts(L)) + x.left
<1> DEFINE n == Len(L)
           M == Append(L, x)
           S == 1 .. n
           f == Lefts(M)
           g == Lefts(L)
<1>1. /\ M \in Seq(Lot) /\ Len(M) = n + 1 /\ n \in Nat
      /\ \A i \in 1 .. n : M[i] = L[i]
      /\ M[n + 1] = x
  BY AppendProperties, LenProperties
<1> HIDE DEF M
<1>2. 1 .. n + 1 = S \cup {n + 1} /\ n + 1 \notin S
  BY <1>1
<1>3. IsFiniteSet(S) /\ g \in [S -> Nat]
  BY LeftsAreNat
<1>4. f \in [S \cup {n + 1} -> Nat]
  BY <1>1, <1>2, LeftsAreNat
<1>5. f[n + 1] = x.left /\ \A i \in S : g[i] = f[i]
  BY <1>1, <1>2 DEF Lefts
<1> HIDE DEF S, f, g
<1> DEFINE p == n + 1
<1>6. p \notin S /\ f \in [S \cup {p} -> Nat] /\ \A i \in S : g[i] = f[i]
  BY <1>2, <1>4, <1>5
<1> HIDE DEF p, n
<1>7. Total(f) = Total(g) + f[p]
  BY <1>3, <1>6, TotalPlus
<1>8. Total(f) = Total(g) + f[n + 1]
  BY <1>7 DEF p
<1> QED
  BY <1>5, <1>8 DEF f, g, M

\* Something taken from a lot.
LEMMA LotTaken ==
  ASSUME NEW L \in Seq(Lot), NEW i \in 1 .. Len(L), NEW used \in Nat, used <= L[i].left
  PROVE  /\ Total(Lefts(Taken(L, i, used))) = Total(Lefts(L)) - used
         /\ used <= Total(Lefts(L))
<1> DEFINE M == Taken(L, i, used)
           S == 1 .. Len(L)
           f == Lefts(L)
           g == Lefts(M)
<1>1. /\ M \in Seq(Lot) /\ Len(M) = Len(L)
      /\ M[i].left = L[i].left - used
      /\ \A j \in 1 .. Len(L) \ {i} : M[j] = L[j]
  BY TakenProperties
<1> HIDE DEF M
<1>2. IsFiniteSet(S) /\ f \in [S -> Nat] /\ g \in [S -> Nat] /\ i \in S
  BY <1>1, LeftsAreNat
<1>3. f[i] = L[i].left /\ g[i] = L[i].left - used /\ \A j \in S \ {i} : g[j] = f[j]
  BY <1>1 DEF Lefts
<1> HIDE DEF S, f, g
<1>4. /\ Total(g) = Total(f) + g[i] - f[i]
      /\ Total(f) \in Nat /\ Total(g) \in Nat /\ f[i] \in Nat /\ g[i] \in Nat
      /\ f[i] <= Total(f)
  BY <1>2, <1>3, TotalChanged
<1>5. Total(g) = Total(f) - used /\ used <= Total(f)
  BY <1>3, <1>4
<1> QED
  BY <1>5 DEF f, g, M

\* The matches of a depot, and one more.
Of(ms, d) == {n \in 1 .. Len(ms) : ms[n].by.depot = d}
MatchAmounts(ms, d) == [n \in Of(ms, d) |-> ms[n].amount]

\* What is matched is a natural, match by match and in all.
LEMMA MatchesAreNat ==
  ASSUME NEW ms \in Seq(Match), NEW d
  PROVE  /\ MatchAmounts(ms, d) \in [Of(ms, d) -> Nat] /\ IsFiniteSet(Of(ms, d))
         /\ Total(MatchAmounts(ms, d)) \in Nat
<1>1. IsFiniteSet(1 .. Len(ms)) /\ Of(ms, d) \in SUBSET (1 .. Len(ms))
  BY LenProperties, FS_Interval DEF Of
<1>2. IsFiniteSet(Of(ms, d))
  BY <1>1, FS_Subset
<1>3. ASSUME NEW n \in 1 .. Len(ms) PROVE ms[n].amount \in Nat
  <2>1. ms[n] \in Match
    BY ElementOfSeq
  <2> QED
    BY <2>1 DEF Match
<1>4. MatchAmounts(ms, d) \in [Of(ms, d) -> Nat]
  BY <1>1, <1>3 DEF MatchAmounts
<1> QED
  BY <1>2, <1>4, TotalIsNat

\* A match adds its amount to its depot, and nothing to the others.
LEMMA MatchAppended ==
  ASSUME NEW ms \in Seq(Match), NEW m \in Match, NEW d
  PROVE  /\ m.by.depot = d =>
               Total(MatchAmounts(Append(ms, m), d)) = Total(MatchAmounts(ms, d)) + m.amount
         /\ m.by.depot # d =>
               Total(MatchAmounts(Append(ms, m), d)) = Total(MatchAmounts(ms, d))
<1> DEFINE n == Len(ms)
           M == Append(ms, m)
           S == Of(ms, d)
           f == MatchAmounts(M, d)
           g == MatchAmounts(ms, d)
<1>1. /\ M \in Seq(Match) /\ Len(M) = n + 1 /\ n \in Nat
      /\ \A i \in 1 .. n : M[i] = ms[i]
      /\ M[n + 1] = m
  BY AppendProperties, LenProperties
<1> HIDE DEF M
<1>2. 1 .. n + 1 = (1 .. n) \cup {n + 1} /\ n + 1 \notin 1 .. n
  BY <1>1
<1>3. CASE m.by.depot = d
  <2>1. Of(M, d) = S \cup {n + 1} /\ n + 1 \notin S
    BY <1>1, <1>2, <1>3 DEF Of
  <2>2. IsFiniteSet(S) /\ g \in [S -> Nat] /\ f \in [S \cup {n + 1} -> Nat]
    BY <1>1, <2>1, MatchesAreNat
  <2>3. f[n + 1] = m.amount /\ \A i \in S : g[i] = f[i]
    BY <1>1, <1>2, <2>1 DEF MatchAmounts, Of
  <2> HIDE DEF S, f, g
  <2> DEFINE p == n + 1
  <2>4. p \notin S /\ f \in [S \cup {p} -> Nat] /\ \A i \in S : g[i] = f[i]
    BY <2>1, <2>2, <2>3
  <2> HIDE DEF p, n
  <2>5. Total(f) = Total(g) + f[p]
    BY <2>2, <2>4, TotalPlus
  <2>6. Total(f) = Total(g) + f[n + 1]
    BY <2>5 DEF p
  <2> QED
    BY <1>3, <2>3, <2>6 DEF f, g, M
<1>4. CASE m.by.depot # d
  <2>1. Of(M, d) = S
    BY <1>1, <1>2, <1>4 DEF Of
  <2>2. f = g
    BY <1>1, <2>1 DEF MatchAmounts, Of
  <2> QED
    BY <1>4, <2>2 DEF M
<1> QED
  BY <1>3, <1>4

-----------------------------------------------------------------------------
\* What the steps do to the amounts of a depot.
LEMMA AmountsAreNat ==
  ASSUME IInv, NEW d \in Depots
  PROVE  /\ Open(d) = Total(Lefts(lots[d])) /\ Matched(d) = Total(MatchAmounts(matches, d))
         /\ Open(d) \in Nat /\ Matched(d) \in Nat /\ Pending(d) \in Nat /\ oversold[d] \in Nat
         /\ lots[d] \in Seq(Lot) /\ matches \in Seq(Match)
<1>1. lots[d] \in Seq(Lot) /\ matches \in Seq(Match) /\ rest \in Nat /\ oversold[d] \in Nat
  BY DEF IInv, TypeOK
<1>2. Open(d) = Total(Lefts(lots[d])) /\ Matched(d) = Total(MatchAmounts(matches, d))
  BY DEF Open, Lefts, Matched, MatchesOf, MatchAmounts, Of
<1>3. Pending(d) \in Nat
  BY <1>1 DEF Pending
<1> QED
  BY <1>1, <1>2, <1>3, LeftsAreNat, MatchesAreNat

\* An incoming row adds its amount to what is open in its depot.
LEMMA AcquireAmounts ==
  ASSUME IInv, NEW r \in todo, Acquire(r), NEW d \in Depots
  PROVE  /\ Open(d)' = IF d = r.depot THEN Open(d) + r.amount ELSE Open(d)
         /\ Matched(d)' = Matched(d) /\ Pending(d)' = 0 /\ Pending(d) = 0 /\ oversold'[d] = oversold[d]
<1> DEFINE x == [at |-> r.at, original |-> r.amount, left |-> r.amount]
<1>1. /\ row = NoRow
      /\ lots' = [lots EXCEPT ![r.depot] = Append(@, x)]
      /\ row' = row /\ matches' = matches /\ oversold' = oversold
  BY DEF Acquire
<1>2. /\ r \in Row /\ lots \in [Depots -> Seq(Lot)]
      /\ x \in Lot /\ x.left = r.amount
  BY DEF IInv, TypeOK, Row, Lot
<1>3. Open(d)' = Total(Lefts(lots'[d])) /\ Open(d) = Total(Lefts(lots[d]))
  BY DEF Open, Lefts
<1>4. Matched(d)' = Matched(d) /\ Pending(d)' = 0 /\ Pending(d) = 0
  BY <1>1 DEF Matched, MatchesOf, Pending
<1> HIDE DEF x
<1>5. CASE d = r.depot
  <2>1. lots'[d] = Append(lots[d], x)
    BY <1>1, <1>2, <1>5
  <2>2. Total(Lefts(lots'[d])) = Total(Lefts(lots[d])) + r.amount
    BY <1>2, <2>1, LotAppended
  <2> QED
    BY <1>1, <1>3, <1>4, <1>5, <2>2
<1>6. CASE d # r.depot
  <2>1. lots'[d] = lots[d]
    BY <1>1, <1>2, <1>6
  <2> QED
    BY <1>1, <1>3, <1>4, <1>6, <2>1
<1> QED
  BY <1>5, <1>6

\* An outgoing row puts its amount under way.
LEMMA DisposeAmounts ==
  ASSUME IInv, NEW r \in todo, Dispose(r), NEW d \in Depots
  PROVE  /\ Open(d)' = Open(d) /\ Matched(d)' = Matched(d) /\ oversold'[d] = oversold[d]
         /\ Pending(d) = 0
         /\ Pending(d)' = IF d = r.depot THEN r.amount ELSE 0
<1>1. /\ row = NoRow /\ row' = r /\ rest' = r.amount
      /\ lots' = lots /\ matches' = matches /\ oversold' = oversold
  BY DEF Dispose
<1>2. r # NoRow
  BY NoRowAssumption DEF IInv, TypeOK
<1>3. Open(d)' = Open(d) /\ Matched(d)' = Matched(d)
  BY <1>1 DEF Open, Matched, MatchesOf
<1>4. Pending(d) = 0 /\ Pending(d)' = IF d = r.depot THEN r.amount ELSE 0
  BY <1>1, <1>2 DEF Pending
<1> QED
  BY <1>1, <1>3, <1>4

\* An iteration over the lots makes matched what was open and under way.
LEMMA ConsumeAmounts ==
  ASSUME IInv, Consume
  PROVE  \E used \in Nat \ {0} : \A d \in Depots :
            /\ d = row.depot => /\ Open(d)' = Open(d) - used /\ used <= Open(d)
                                /\ Pending(d)' = Pending(d) - used /\ used <= Pending(d)
                                /\ Matched(d)' = Matched(d) + used
            /\ d # row.depot => /\ Open(d)' = Open(d) /\ Pending(d)' = Pending(d)
                                /\ Matched(d)' = Matched(d)
            /\ oversold'[d] = oversold[d]
<1>1. row # NoRow /\ rest > 0 /\ row' = row /\ oversold' = oversold
  BY DEF Consume
<1> DEFINE c == row.depot
<1>2. PICK i \in 1 .. Len(lots[c]) : NextLot(i) /\ ConsumeLot(i)
  BY DEF Consume
<1> DEFINE used == Least(lots[c][i].left, rest)
           m == [by |-> row, lot |-> i, at |-> lots[c][i].at, amount |-> used]
<1>3. /\ row \in Row /\ c \in Depots /\ rest \in Nat
      /\ lots \in [Depots -> Seq(Lot)] /\ matches \in Seq(Match)
  BY <1>1 DEF IInv, TypeOK, Row
<1>4. lots[c] \in Seq(Lot) /\ Len(lots[c]) \in Nat /\ lots[c][i] \in Lot
  BY <1>3, LenProperties, ElementOfSeq
<1>5. lots[c][i].left \in Nat /\ lots[c][i].left > 0 /\ lots[c][i].at \in Nat
  BY <1>2, <1>4 DEF Lot, NextLot
<1>6. used \in Nat \ {0} /\ used <= lots[c][i].left /\ used <= rest
  BY <1>1, <1>3, <1>5 DEF Least
<1>7. /\ lots' = [lots EXCEPT ![c] = Taken(lots[c], i, used)]
      /\ rest' = rest - used
      /\ matches' = Append(matches, m)
  BY <1>2 DEF ConsumeLot, Taken
<1>8. m \in Match /\ m.by = row /\ m.amount = used
  BY <1>3, <1>4, <1>5, <1>6 DEF Match
<1> HIDE DEF used, m
<1>9. ASSUME NEW d \in Depots
      PROVE  /\ d = c => /\ Open(d)' = Open(d) - used /\ used <= Open(d)
                         /\ Pending(d)' = Pending(d) - used /\ used <= Pending(d)
                         /\ Matched(d)' = Matched(d) + used
             /\ d # c => /\ Open(d)' = Open(d) /\ Pending(d)' = Pending(d)
                         /\ Matched(d)' = Matched(d)
  <2>1. /\ Open(d)' = Total(Lefts(lots'[d])) /\ Open(d) = Total(Lefts(lots[d]))
        /\ Matched(d)' = Total(MatchAmounts(matches', d)) /\ Matched(d) = Total(MatchAmounts(matches, d))
    BY DEF Open, Lefts, Matched, MatchesOf, MatchAmounts, Of
  <2>2. CASE d = c
    <3>1. lots'[d] = Taken(lots[d], i, used)
      BY <1>3, <1>7, <2>2
    <3>2. Total(Lefts(lots'[d])) = Total(Lefts(lots[d])) - used /\ used <= Total(Lefts(lots[d]))
      BY <1>4, <1>6, <2>2, <3>1, LotTaken
    <3>3. Total(MatchAmounts(matches', d)) = Total(MatchAmounts(matches, d)) + used
      BY <1>3, <1>7, <1>8, <2>2, MatchAppended
    <3>4. Pending(d)' = rest - used /\ Pending(d) = rest
      BY <1>1, <1>7, <2>2 DEF Pending
    <3> HIDE DEF c
    <3> QED
      BY <1>6, <2>1, <2>2, <3>2, <3>3, <3>4
  <2>3. CASE d # c
    <3>1. lots'[d] = lots[d]
      BY <1>3, <1>7, <2>3
    <3>2. Total(MatchAmounts(matches', d)) = Total(MatchAmounts(matches, d))
      BY <1>3, <1>7, <1>8, <2>3, MatchAppended
    <3>3. Pending(d)' = 0 /\ Pending(d) = 0
      BY <1>1, <2>3 DEF Pending
    <3> HIDE DEF c
    <3> QED
      BY <2>1, <2>3, <3>1, <3>2, <3>3
  <2> QED
    BY <2>2, <2>3
<1> QED
  BY <1>1, <1>6, <1>9

\* The end of the loop makes oversold what is still under way.
LEMMA SettleAmounts ==
  ASSUME IInv, Settle, NEW d \in Depots
  PROVE  /\ Open(d)' = Open(d) /\ Matched(d)' = Matched(d) /\ Pending(d)' = 0
         /\ oversold'[d] = oversold[d] + Pending(d)
         /\ Pending(d) = 0 \/ Open(d) = 0
<1> DEFINE c == row.depot
<1>1. /\ row # NoRow /\ (rest = 0 \/ LotsExhausted)
      /\ row' = NoRow /\ lots' = lots /\ matches' = matches
      /\ oversold' = [oversold EXCEPT ![c] = @ + rest]
  BY DEF Settle
<1>2. /\ c \in Depots /\ rest \in Nat /\ oversold \in [Depots -> Nat]
      /\ lots[d] \in Seq(Lot) /\ DepotOK(lots[d], cursor[d])
  BY <1>1 DEF IInv, TypeOK, Row
<1>3. Open(d)' = Open(d) /\ Matched(d)' = Matched(d) /\ Pending(d)' = 0
  BY <1>1 DEF Open, Matched, MatchesOf, Pending
<1>4. Pending(d) = IF d = c THEN rest ELSE 0
  BY <1>1 DEF Pending
<1>5. oversold'[d] = oversold[d] + Pending(d)
  <2> HIDE DEF c
  <2>1. oversold[d] \in Nat
    BY <1>2
  <2>2. oversold'[d] = IF d = c THEN oversold[d] + rest ELSE oversold[d]
    BY <1>1, <1>2
  <2> QED
    BY <1>2, <1>4, <2>1, <2>2
<1>6. Pending(d) = 0 \/ Open(d) = 0
  <2>1. SUFFICES ASSUME Pending(d) # 0 PROVE Open(d) = 0
    OBVIOUS
  <2>2. d = c /\ LotsExhausted
    BY <1>1, <1>4, <2>1
  <2>3. \A i \in 1 .. Len(lots[d]) : lots[d][i].left = 0
    BY <1>2, <2>2, DepotExhausted DEF LotsExhausted
  <2>4. \A i \in 1 .. Len(lots[d]) : Lefts(lots[d])[i] = 0
    BY <2>3 DEF Lefts
  <2>5. Total(Lefts(lots[d])) = 0
    BY <1>2, <2>4, LeftsAreNat, TotalOfZeros
  <2> QED
    BY <2>5 DEF Open, Lefts
<1> QED
  BY <1>3, <1>5, <1>6

\* Before the first row nothing is held, under way or missing.
LEMMA FirstAmounts ==
  ASSUME Init, NEW d \in Depots
  PROVE  Open(d) = 0 /\ Pending(d) = 0 /\ oversold[d] = 0
<1>1. lots[d] = <<>> /\ Len(lots[d]) = 0 /\ oversold[d] = 0 /\ row = NoRow
  BY DEF Init
<1>2. lots[d] \in Seq(Lot)
  BY <1>1
<1>3. \A i \in 1 .. Len(lots[d]) : Lefts(lots[d])[i] = 0
  BY <1>1
<1>4. Total(Lefts(lots[d])) = 0
  BY <1>2, <1>3, LeftsAreNat, TotalOfZeros
<1> QED
  BY <1>1, <1>4 DEF Open, Lefts, Pending

-----------------------------------------------------------------------------
(* What is held, and what is missing *)

\* At most one of the two absorbs the disposal under way.
LEMMA HeldAndMissing ==
  ASSUME IInv, NEW d \in Depots
  PROVE  /\ Held(d) \in Nat /\ Missing(d) \in Nat /\ oversold[d] \in Nat
         /\ Held(d) - Missing(d) = Open(d) - Pending(d) - oversold[d]
<1>1. Open(d) \in Nat /\ Pending(d) \in Nat /\ oversold[d] \in Nat
  BY AmountsAreNat
<1> QED
  BY <1>1 DEF Held, Missing

\* An incoming row is held, and pays for nothing that is missing.
LEMMA AcquireHolds ==
  ASSUME IInv, NEW r \in todo, Acquire(r), NEW d \in Depots
  PROVE  /\ r.amount \in Nat \ {0}
         /\ Held(d)' = IF d = r.depot THEN Held(d) + r.amount ELSE Held(d)
         /\ Missing(d)' = Missing(d)
<1>1. /\ Open(d)' = IF d = r.depot THEN Open(d) + r.amount ELSE Open(d)
      /\ Pending(d)' = 0 /\ Pending(d) = 0 /\ oversold'[d] = oversold[d]
  BY AcquireAmounts
<1>2. Open(d) \in Nat /\ r.amount \in Nat \ {0} /\ oversold[d] \in Nat
  BY AmountsAreNat DEF IInv, TypeOK, Row
<1>3. /\ Held(d)' = (IF Open(d)' > Pending(d)' THEN Open(d)' - Pending(d)' ELSE 0)
      /\ Missing(d)' = oversold'[d] + (IF Pending(d)' > Open(d)' THEN Pending(d)' - Open(d)' ELSE 0)
  BY DEF Held, Missing
<1>4. /\ Held(d) = (IF Open(d) > Pending(d) THEN Open(d) - Pending(d) ELSE 0)
      /\ Missing(d) = oversold[d] + (IF Pending(d) > Open(d) THEN Pending(d) - Open(d) ELSE 0)
  BY DEF Held, Missing
<1> QED
  BY <1>1, <1>2, <1>3, <1>4

\* How a disposal is split.
Paid(d, r) == IF d # r.depot THEN 0 ELSE IF Held(d) < r.amount THEN Held(d) ELSE r.amount
Unpaid(d, r) == IF d # r.depot THEN 0 ELSE r.amount - Paid(d, r)

\* An outgoing row is paid from what is held, and the rest is missing.
LEMMA DisposeHolds ==
  ASSUME IInv, NEW r \in todo, Dispose(r), NEW d \in Depots
  PROVE  /\ r.amount \in Nat \ {0} /\ Paid(d, r) \in 0 .. r.amount /\ Unpaid(d, r) \in 0 .. r.amount
         /\ Held(d)' = Held(d) - Paid(d, r)
         /\ Missing(d)' = Missing(d) + Unpaid(d, r)
<1>1. /\ Open(d)' = Open(d) /\ oversold'[d] = oversold[d]
      /\ Pending(d) = 0
      /\ Pending(d)' = IF d = r.depot THEN r.amount ELSE 0
  BY DisposeAmounts
<1>2. Open(d) \in Nat /\ r.amount \in Nat \ {0} /\ oversold[d] \in Nat
  BY AmountsAreNat DEF IInv, TypeOK, Row
<1>3. /\ Held(d)' = (IF Open(d)' > Pending(d)' THEN Open(d)' - Pending(d)' ELSE 0)
      /\ Missing(d)' = oversold'[d] + (IF Pending(d)' > Open(d)' THEN Pending(d)' - Open(d)' ELSE 0)
  BY DEF Held, Missing
<1>4. Held(d) = Open(d) /\ Missing(d) = oversold[d]
  BY <1>1, <1>2 DEF Held, Missing
<1>5. CASE d = r.depot
  BY <1>1, <1>2, <1>3, <1>4, <1>5 DEF Paid, Unpaid
<1>6. CASE d # r.depot
  BY <1>1, <1>2, <1>3, <1>4, <1>6 DEF Paid, Unpaid
<1> QED
  BY <1>5, <1>6

\* The loop over the lots decides nothing about quantities.
LEMMA LoopHolds ==
  ASSUME IInv, Consume \/ Settle, NEW d \in Depots
  PROVE  Held(d)' = Held(d) /\ Missing(d)' = Missing(d)
<1>1. Open(d) \in Nat /\ Pending(d) \in Nat /\ oversold[d] \in Nat
  BY AmountsAreNat
<1>2. /\ Held(d)' = (IF Open(d)' > Pending(d)' THEN Open(d)' - Pending(d)' ELSE 0)
      /\ Missing(d)' = oversold'[d] + (IF Pending(d)' > Open(d)' THEN Pending(d)' - Open(d)' ELSE 0)
  BY DEF Held, Missing
<1>3. /\ Held(d) = (IF Open(d) > Pending(d) THEN Open(d) - Pending(d) ELSE 0)
      /\ Missing(d) = oversold[d] + (IF Pending(d) > Open(d) THEN Pending(d) - Open(d) ELSE 0)
  BY DEF Held, Missing
<1>4. CASE Consume
  <2>1. PICK used \in Nat \ {0} : \A e \in Depots :
            /\ e = row.depot => /\ Open(e)' = Open(e) - used /\ used <= Open(e)
                                /\ Pending(e)' = Pending(e) - used /\ used <= Pending(e)
                                /\ Matched(e)' = Matched(e) + used
            /\ e # row.depot => /\ Open(e)' = Open(e) /\ Pending(e)' = Pending(e)
                                /\ Matched(e)' = Matched(e)
            /\ oversold'[e] = oversold[e]
    BY <1>4, ConsumeAmounts
  <2>2. \/ /\ Open(d)' = Open(d) - used /\ used <= Open(d)
           /\ Pending(d)' = Pending(d) - used /\ used <= Pending(d)
        \/ Open(d)' = Open(d) /\ Pending(d)' = Pending(d)
    BY <2>1
  <2>3. oversold'[d] = oversold[d]
    BY <2>1
  <2> QED
    BY <1>1, <1>2, <1>3, <2>2, <2>3
<1>5. CASE Settle
  <2>1. /\ Open(d)' = Open(d) /\ Pending(d)' = 0
        /\ oversold'[d] = oversold[d] + Pending(d)
        /\ Pending(d) = 0 \/ Open(d) = 0
    BY <1>5, SettleAmounts
  <2> QED
    BY <1>1, <1>2, <1>3, <2>1
<1> QED
  BY <1>4, <1>5

-----------------------------------------------------------------------------
\* Rows are done in their order; what came in is open or matched, what went out is
\* matched, oversold or under way; and what is missing is the worst shortfall so far.
InOrder ==
    /\ todo \subseteq Expand(ledger)
    /\ \A s \in Expand(ledger) \ todo : \A r \in todo : Before(s, r)
Balanced(d) ==
    /\ CameIn(ledger, d, todo) = Open(d) + Matched(d)
    /\ WentOut(ledger, d, todo) = Matched(d) + oversold[d] + Pending(d)
Shorts(B, d, t) == {0} \cup {ShortBy(B, d, r) : r \in RowsOf(B, d) \ t}
Worst(d) ==
    /\ Missing(d) \in Shorts(ledger, d, todo)
    /\ \A s \in Shorts(ledger, d, todo) : s <= Missing(d)
SumInv == InOrder /\ \A d \in Depots : Balanced(d) /\ Worst(d)

\* The ledger is a finite set of entries.
LEMMA LedgerIsFinite ==
  ASSUME IInv
  PROVE  ledger \in SUBSET Entry /\ IsFiniteSet(ledger)
BY BookAssumption DEF IInv, TypeOK

\* A row done adds its shortfall to those of its depot.
LEMMA ShortsGrow ==
  ASSUME NEW B, NEW t \in SUBSET Expand(B), NEW r \in t,
         NEW d
  PROVE  Shorts(B, d, t \ {r}) =
             Shorts(B, d, t) \cup (IF r.depot = d THEN {ShortBy(B, d, r)} ELSE {})
<1>1. RowsOf(B, d) \ (t \ {r}) = (RowsOf(B, d) \ t) \cup (IF r.depot = d THEN {r} ELSE {})
  BY DEF RowsOf
<1> QED
  BY <1>1 DEF Shorts

\* The sums hold before the first row.
LEMMA SumsAtFirst ==
  ASSUME Init
  PROVE  SumInv
<1>1. todo = Expand(ledger) /\ row = NoRow /\ ledger \in SUBSET Entry /\ IsFiniteSet(ledger)
  BY BookAssumption DEF Init
<1>2. InOrder
  BY <1>1 DEF InOrder
<1>3. ASSUME NEW d \in Depots PROVE Balanced(d) /\ Worst(d)
  <2>1. lots[d] = <<>> /\ Len(lots[d]) = 0 /\ matches = <<>> /\ Len(matches) = 0 /\ oversold[d] = 0
    BY DEF Init
  <2>2. Pending(d) = 0 /\ Open(d) = 0
    BY FirstAmounts
  <2>3. Matched(d) = 0
    <3>1. matches \in Seq(Match)
      BY <2>1
    <3>2. \A n \in Of(matches, d) : MatchAmounts(matches, d)[n] = 0
      BY <2>1 DEF Of
    <3>3. Total(MatchAmounts(matches, d)) = 0
      BY <3>1, <3>2, MatchesAreNat, TotalOfZeros
    <3> QED
      BY <3>3 DEF Matched, MatchesOf, MatchAmounts, Of
  <2>4. RowsOf(ledger, d) \ todo = {}
    BY <1>1 DEF RowsOf
  <2>5. InRows(ledger, d, todo) = {} /\ OutRows(ledger, d, todo) = {}
    BY <2>4 DEF InRows, OutRows
  <2>6. CameIn(ledger, d, todo) = 0 /\ WentOut(ledger, d, todo) = 0
    <3>1. CameIn(ledger, d, todo) = 0
      <4>1. Amounts(InRows(ledger, d, todo)) \in [InRows(ledger, d, todo) -> Nat]
            /\ IsFiniteSet(InRows(ledger, d, todo))
        BY <1>1, RowSumsAreNat
      <4> QED
        BY <2>5, <4>1, TotalIsNat DEF CameIn
    <3>2. WentOut(ledger, d, todo) = 0
      <4>1. Amounts(OutRows(ledger, d, todo)) \in [OutRows(ledger, d, todo) -> Nat]
            /\ IsFiniteSet(OutRows(ledger, d, todo))
        BY <1>1, RowSumsAreNat
      <4> QED
        BY <2>5, <4>1, TotalIsNat DEF WentOut
    <3> QED
      BY <3>1, <3>2
  <2>7. Shorts(ledger, d, todo) = {0}
    BY <2>4 DEF Shorts
  <2>8. Missing(d) = 0
    BY <2>1, <2>2 DEF Missing
  <2> QED
    BY <2>1, <2>2, <2>3, <2>6, <2>7, <2>8 DEF Balanced, Worst
<1> QED
  BY <1>2, <1>3 DEF SumInv

\* A row is taken: what is counted, and the order.
LEMMA RowTaken ==
  ASSUME IInv, InOrder, NEW r \in todo, First(r), todo' = todo \ {r}, ledger' = ledger
  PROVE  /\ InOrder'
         /\ \A d \in Depots :
               /\ d = r.depot /\ ~ r.out => /\ CameIn(ledger, d, todo)' = CameIn(ledger, d, todo) + r.amount
                                            /\ WentOut(ledger, d, todo)' = WentOut(ledger, d, todo)
               /\ d = r.depot /\ r.out => /\ WentOut(ledger, d, todo)' = WentOut(ledger, d, todo) + r.amount
                                          /\ CameIn(ledger, d, todo)' = CameIn(ledger, d, todo)
               /\ d # r.depot => /\ CameIn(ledger, d, todo)' = CameIn(ledger, d, todo)
                                 /\ WentOut(ledger, d, todo)' = WentOut(ledger, d, todo)
                                 /\ Shorts(ledger, d, todo)' = Shorts(ledger, d, todo)
               /\ d = r.depot => Shorts(ledger, d, todo)' = Shorts(ledger, d, todo) \cup
                      {WentOut(ledger, d, todo)' - CameIn(ledger, d, todo)'}
<1>1. /\ ledger \in SUBSET Entry /\ IsFiniteSet(ledger) /\ todo \in SUBSET Expand(ledger)
      /\ \A s \in Expand(ledger) \ todo : \A q \in todo : Before(s, q)
      /\ \A s \in todo \ {r} : Before(r, s)
  BY LedgerIsFinite DEF InOrder, First
<1>2. InOrder'
  BY <1>1 DEF InOrder
<1> DEFINE u == todo \ {r}
<1>3. ASSUME NEW d
      PROVE  /\ CameIn(ledger, d, todo)' = CameIn(ledger, d, u)
             /\ WentOut(ledger, d, todo)' = WentOut(ledger, d, u)
             /\ Shorts(ledger, d, todo)' = Shorts(ledger, d, u)
  BY DEF CameIn, WentOut, Shorts, InRows, OutRows, RowsOf, Amounts
<1>4. ASSUME NEW d
      PROVE  /\ r.depot = d /\ ~ r.out => /\ CameIn(ledger, d, u) = CameIn(ledger, d, todo) + r.amount
                                          /\ WentOut(ledger, d, u) = WentOut(ledger, d, todo)
             /\ r.depot = d /\ r.out => /\ WentOut(ledger, d, u) = WentOut(ledger, d, todo) + r.amount
                                        /\ CameIn(ledger, d, u) = CameIn(ledger, d, todo)
             /\ r.depot # d => /\ CameIn(ledger, d, u) = CameIn(ledger, d, todo)
                               /\ WentOut(ledger, d, u) = WentOut(ledger, d, todo)
  BY <1>1, RowIsCounted
<1>5. ASSUME NEW d, r.depot = d
      PROVE  ShortBy(ledger, d, r) = WentOut(ledger, d, u) - CameIn(ledger, d, u)
  BY <1>1, <1>5, ShortIsCounted
<1>6. ASSUME NEW d
      PROVE  Shorts(ledger, d, u) =
                 Shorts(ledger, d, todo) \cup (IF r.depot = d THEN {ShortBy(ledger, d, r)} ELSE {})
  BY <1>1, ShortsGrow
<1> HIDE DEF u
<1> QED
  BY <1>2, <1>3, <1>4, <1>5, <1>6

\* Every step keeps the sums.
LEMMA SumsStay ==
  ASSUME IInv, SumInv, [Next]_vars
  PROVE  SumInv'
<1>1. InOrder /\ \A d \in Depots : Balanced(d) /\ Worst(d)
  BY DEF SumInv
<1>2. ASSUME NEW d \in Depots
      PROVE  /\ Open(d) \in Nat /\ Matched(d) \in Nat /\ Pending(d) \in Nat /\ oversold[d] \in Nat
             /\ Held(d) \in Nat /\ Missing(d) \in Nat
             /\ Held(d) - Missing(d) = Open(d) - Pending(d) - oversold[d]
             /\ CameIn(ledger, d, todo) = Open(d) + Matched(d)
             /\ WentOut(ledger, d, todo) = Matched(d) + oversold[d] + Pending(d)
             /\ Missing(d) \in Shorts(ledger, d, todo)
             /\ \A s \in Shorts(ledger, d, todo) : s <= Missing(d)
  BY <1>1, AmountsAreNat, HeldAndMissing DEF Balanced, Worst
<1>3. ASSUME NEW r \in todo, Acquire(r) PROVE SumInv'
  <2>1. First(r) /\ ~ r.out /\ todo' = todo \ {r} /\ ledger' = ledger
    BY <1>3 DEF Acquire
  <2>2. InOrder'
    BY <1>1, <2>1, RowTaken
  <2>3. ASSUME NEW d \in Depots PROVE Balanced(d)' /\ Worst(d)'
    <3>1. /\ Open(d)' = IF d = r.depot THEN Open(d) + r.amount ELSE Open(d)
          /\ Matched(d)' = Matched(d) /\ Pending(d)' = 0 /\ Pending(d) = 0 /\ oversold'[d] = oversold[d]
      BY <1>3, AcquireAmounts
    <3>2. Missing(d)' = Missing(d) /\ r.amount \in Nat \ {0}
      BY <1>3, AcquireHolds
    <3>3. CASE d = r.depot
      <4>1. /\ CameIn(ledger, d, todo)' = CameIn(ledger, d, todo) + r.amount
            /\ WentOut(ledger, d, todo)' = WentOut(ledger, d, todo)
            /\ Shorts(ledger, d, todo)' = Shorts(ledger, d, todo) \cup
                   {WentOut(ledger, d, todo)' - CameIn(ledger, d, todo)'}
        BY <1>1, <2>1, <3>3, RowTaken
      <4>2. Balanced(d)'
        <5>1. CameIn(ledger, d, todo)' = Open(d)' + Matched(d)'
          BY <1>2, <3>1, <3>2, <3>3, <4>1
        <5>2. WentOut(ledger, d, todo)' = Matched(d)' + oversold'[d] + Pending(d)'
          BY <1>2, <3>1, <3>2, <3>3, <4>1
        <5> QED
          BY <5>1, <5>2 DEF Balanced
      <4>3. WentOut(ledger, d, todo)' - CameIn(ledger, d, todo)' <= Missing(d)
        BY <1>2, <3>1, <3>2, <4>1
      <4>4. Missing(d)' \in Shorts(ledger, d, todo)'
        BY <1>2, <3>2, <4>1
      <4>5. \A s \in Shorts(ledger, d, todo)' : s <= Missing(d)'
        BY <1>2, <3>2, <4>1, <4>3
      <4> QED
        BY <4>2, <4>4, <4>5 DEF Worst
    <3>4. CASE d # r.depot
      <4>1. /\ CameIn(ledger, d, todo)' = CameIn(ledger, d, todo)
            /\ WentOut(ledger, d, todo)' = WentOut(ledger, d, todo)
            /\ Shorts(ledger, d, todo)' = Shorts(ledger, d, todo)
        BY <1>1, <2>1, <3>4, RowTaken
      <4> QED
        BY <1>2, <3>1, <3>2, <3>4, <4>1 DEF Balanced, Worst
    <3> QED
      BY <3>3, <3>4
  <2> QED
    BY <2>2, <2>3 DEF SumInv
<1>4. ASSUME NEW r \in todo, Dispose(r) PROVE SumInv'
  <2>1. First(r) /\ r.out /\ todo' = todo \ {r} /\ ledger' = ledger
    BY <1>4 DEF Dispose
  <2>2. InOrder'
    BY <1>1, <2>1, RowTaken
  <2>3. ASSUME NEW d \in Depots PROVE Balanced(d)' /\ Worst(d)'
    <3>1. /\ Open(d)' = Open(d) /\ Matched(d)' = Matched(d) /\ oversold'[d] = oversold[d]
          /\ Pending(d) = 0
          /\ Pending(d)' = IF d = r.depot THEN r.amount ELSE 0
      BY <1>4, DisposeAmounts
    <3>2. /\ r.amount \in Nat \ {0} /\ Missing(d)' = Missing(d) + Unpaid(d, r)
      BY <1>4, DisposeHolds
    <3>3. CASE d = r.depot
      <4>1. /\ CameIn(ledger, d, todo)' = CameIn(ledger, d, todo)
            /\ WentOut(ledger, d, todo)' = WentOut(ledger, d, todo) + r.amount
            /\ Shorts(ledger, d, todo)' = Shorts(ledger, d, todo) \cup
                   {WentOut(ledger, d, todo)' - CameIn(ledger, d, todo)'}
        BY <1>1, <2>1, <3>3, RowTaken
      <4>2. Balanced(d)'
        <5>1. CameIn(ledger, d, todo)' = Open(d)' + Matched(d)'
          BY <1>2, <3>1, <3>2, <3>3, <4>1
        <5>2. WentOut(ledger, d, todo)' = Matched(d)' + oversold'[d] + Pending(d)'
          BY <1>2, <3>1, <3>2, <3>3, <4>1
        <5> QED
          BY <5>1, <5>2 DEF Balanced
      <4> DEFINE short == WentOut(ledger, d, todo)' - CameIn(ledger, d, todo)'
      <4>3. short = Missing(d) - Held(d) + r.amount
        BY <1>2, <3>1, <3>2, <4>1
      <4>4. Unpaid(d, r) = IF Held(d) < r.amount THEN r.amount - Held(d) ELSE 0
        BY <1>2, <3>2, <3>3 DEF Unpaid, Paid
      <4>5. \/ Missing(d)' = Missing(d) /\ short <= Missing(d)'
            \/ Missing(d)' = short /\ Missing(d) <= Missing(d)'
        BY <1>2, <3>2, <4>3, <4>4
      <4>6. short \in Int /\ \A s \in Shorts(ledger, d, todo) : s <= Missing(d)
        BY <1>2, <3>2, <4>3
      <4>7. Missing(d) \in Shorts(ledger, d, todo)
        BY <1>2
      <4>8. Shorts(ledger, d, todo)' = Shorts(ledger, d, todo) \cup {short}
        BY <4>1
      <4> HIDE DEF short
      <4>9. Missing(d)' \in Shorts(ledger, d, todo)'
        BY <4>5, <4>7, <4>8
      <4>10. \A s \in Shorts(ledger, d, todo)' : s <= Missing(d)'
        <5>1. ASSUME NEW s \in Shorts(ledger, d, todo) PROVE s \in Int
          <6>1. \A q \in RowsOf(ledger, d) : ShortBy(ledger, d, q) \in Int
            BY LedgerIsFinite, ShortIsInt
          <6> QED
            BY <6>1 DEF Shorts
        <5>2. Missing(d) \in Int /\ Missing(d)' \in Int
          BY <1>2, <4>5, <4>6
        <5> QED
          BY <4>5, <4>6, <4>8, <5>1, <5>2
      <4> QED
        BY <4>2, <4>9, <4>10 DEF Worst
    <3>4. CASE d # r.depot
      <4>1. /\ CameIn(ledger, d, todo)' = CameIn(ledger, d, todo)
            /\ WentOut(ledger, d, todo)' = WentOut(ledger, d, todo)
            /\ Shorts(ledger, d, todo)' = Shorts(ledger, d, todo)
        BY <1>1, <2>1, <3>4, RowTaken
      <4>2. Missing(d)' = Missing(d)
        BY <1>2, <3>2, <3>4 DEF Unpaid
      <4> QED
        BY <1>2, <3>1, <3>4, <4>1, <4>2 DEF Balanced, Worst
    <3> QED
      BY <3>3, <3>4
  <2> QED
    BY <2>2, <2>3 DEF SumInv
<1>5. ASSUME todo' = todo, ledger' = ledger
      PROVE  /\ InOrder'
             /\ \A d : /\ CameIn(ledger, d, todo)' = CameIn(ledger, d, todo)
                       /\ WentOut(ledger, d, todo)' = WentOut(ledger, d, todo)
                       /\ Shorts(ledger, d, todo)' = Shorts(ledger, d, todo)
  BY <1>1, <1>5 DEF InOrder, CameIn, WentOut, Shorts, InRows, OutRows, RowsOf, Amounts
<1>6. ASSUME Consume PROVE SumInv'
  <2>1. todo' = todo /\ ledger' = ledger
    BY <1>6 DEF Consume
  <2>2. PICK used \in Nat \ {0} : \A e \in Depots :
            /\ e = row.depot => /\ Open(e)' = Open(e) - used /\ used <= Open(e)
                                /\ Pending(e)' = Pending(e) - used /\ used <= Pending(e)
                                /\ Matched(e)' = Matched(e) + used
            /\ e # row.depot => /\ Open(e)' = Open(e) /\ Pending(e)' = Pending(e)
                                /\ Matched(e)' = Matched(e)
            /\ oversold'[e] = oversold[e]
    BY <1>6, ConsumeAmounts
  <2>3. ASSUME NEW d \in Depots PROVE Balanced(d)' /\ Worst(d)'
    <3>1. \/ /\ Open(d)' = Open(d) - used /\ used <= Open(d)
             /\ Pending(d)' = Pending(d) - used /\ used <= Pending(d)
             /\ Matched(d)' = Matched(d) + used
          \/ Open(d)' = Open(d) /\ Pending(d)' = Pending(d) /\ Matched(d)' = Matched(d)
      BY <2>2
    <3>2. oversold'[d] = oversold[d] /\ Missing(d)' = Missing(d)
      BY <1>6, <2>2, LoopHolds
    <3>3. CameIn(ledger, d, todo)' = Open(d)' + Matched(d)'
      BY <1>2, <1>5, <2>1, <3>1
    <3>4. WentOut(ledger, d, todo)' = Matched(d)' + oversold'[d] + Pending(d)'
      BY <1>2, <1>5, <2>1, <3>1, <3>2
    <3>5. Worst(d)'
      BY <1>2, <1>5, <2>1, <3>2 DEF Worst
    <3> QED
      BY <3>3, <3>4, <3>5 DEF Balanced
  <2> QED
    BY <1>5, <2>1, <2>3 DEF SumInv
<1>7. ASSUME Settle PROVE SumInv'
  <2>1. todo' = todo /\ ledger' = ledger
    BY <1>7 DEF Settle
  <2>2. ASSUME NEW d \in Depots PROVE Balanced(d)' /\ Worst(d)'
    <3>1. /\ Open(d)' = Open(d) /\ Matched(d)' = Matched(d) /\ Pending(d)' = 0
          /\ oversold'[d] = oversold[d] + Pending(d)
      BY <1>7, SettleAmounts
    <3>2. Missing(d)' = Missing(d)
      BY <1>7, LoopHolds
    <3>3. CameIn(ledger, d, todo)' = Open(d)' + Matched(d)'
      BY <1>2, <1>5, <2>1, <3>1
    <3>4. WentOut(ledger, d, todo)' = Matched(d)' + oversold'[d] + Pending(d)'
      BY <1>2, <1>5, <2>1, <3>1
    <3>5. Worst(d)'
      BY <1>2, <1>5, <2>1, <3>2 DEF Worst
    <3> QED
      BY <3>3, <3>4, <3>5 DEF Balanced
  <2> QED
    BY <1>5, <2>1, <2>2 DEF SumInv
<1>8. ASSUME UNCHANGED vars PROVE SumInv'
  <2>1. /\ todo' = todo /\ ledger' = ledger /\ lots' = lots /\ matches' = matches
        /\ row' = row /\ rest' = rest /\ oversold' = oversold
    BY <1>8 DEF vars
  <2>2. \A d : Open(d)' = Open(d) /\ Matched(d)' = Matched(d) /\ Pending(d)' = Pending(d)
    BY <2>1 DEF Open, Matched, MatchesOf, Pending
  <2>3. \A d : Missing(d)' = Missing(d)
    BY <2>1, <2>2 DEF Missing
  <2> QED
    BY <1>1, <1>5, <2>1, <2>2, <2>3 DEF SumInv, Balanced, Worst
<1> QED
  BY <1>3, <1>4, <1>6, <1>7, <1>8 DEF Next

-----------------------------------------------------------------------------
(* The end of the run *)

\* The fees of entries.
Fees(S) == [e \in S |-> e.fee]

\* The entries of a depot, by what they become.
LEMMA EntriesAreFinite ==
  ASSUME IInv, NEW S \in SUBSET ledger
  PROVE  /\ IsFiniteSet(S) /\ S \in SUBSET Entry
         /\ \A a, b \in S : a.id = b.id => a = b
         /\ Amounts(S) \in [S -> Nat] /\ Fees(S) \in [S -> Nat]
<1>1. IsFiniteSet(S) /\ S \in SUBSET Entry
  BY LedgerIsFinite, FS_Subset
<1>2. \A a, b \in S : a.id = b.id => a = b
  BY BookAssumption DEF IInv
<1>3. \A e \in S : e.amount \in Nat /\ e.fee \in Nat
  BY <1>1 DEF Entry
<1> QED
  BY <1>1, <1>2, <1>3 DEF Amounts, Fees

\* Rows of entries add up to the amounts of the entries.
LEMMA EntryRowsAddUp ==
  ASSUME IInv, NEW S \in SUBSET ledger
  PROVE  LET R == {EntryRow(e) : e \in S}
         IN  /\ IsFiniteSet(R) /\ Amounts(R) \in [R -> Nat]
             /\ Total(Amounts(R)) = Total(Amounts(S))
<1> DEFINE R == {EntryRow(e) : e \in S}
           m == [e \in S |-> EntryRow(e)]
<1>1. IsFiniteSet(S) /\ S \in SUBSET Entry /\ \A a, b \in S : a.id = b.id => a = b
  BY EntriesAreFinite
<1>2. m \in [S -> R] /\ \A z \in R : \E e \in S : m[e] = z
  OBVIOUS
<1>3. \A e \in S : m[e].src = e.id /\ m[e].amount = e.amount /\ m[e].amount \in Nat
  BY <1>1 DEF EntryRow, Entry
<1>4. \A x, y \in S : m[x] = m[y] => x = y
  BY <1>1, <1>3
<1>5. IsFiniteSet(R)
  <2>1. m \in Surjection(S, R)
    BY <1>2 DEF Surjection
  <2> QED
    BY <1>1, <2>1, FS_Surjection
<1> HIDE DEF R, m
<1>6. Amounts(R) \in [R -> Nat]
  BY <1>2, <1>3 DEF Amounts
<1>7. Total(Amounts(R)) = Total([e \in S |-> Amounts(R)[m[e]]])
  BY <1>1, <1>2, <1>4, <1>6, TotalRenamed
<1>8. [e \in S |-> Amounts(R)[m[e]]] = Amounts(S)
  BY <1>2, <1>3 DEF Amounts
<1> QED
  BY <1>5, <1>6, <1>7, <1>8 DEF R

\* Rows of fees add up to the fees of the entries.
LEMMA FeeRowsAddUp ==
  ASSUME IInv, NEW S \in SUBSET ledger
  PROVE  LET R == {FeeRow(e) : e \in S}
         IN  /\ IsFiniteSet(R) /\ Amounts(R) \in [R -> Nat]
             /\ Total(Amounts(R)) = Total(Fees(S))
<1> DEFINE R == {FeeRow(e) : e \in S}
           m == [e \in S |-> FeeRow(e)]
<1>1. IsFiniteSet(S) /\ S \in SUBSET Entry /\ \A a, b \in S : a.id = b.id => a = b
  BY EntriesAreFinite
<1>2. m \in [S -> R] /\ \A z \in R : \E e \in S : m[e] = z
  OBVIOUS
<1>3. \A e \in S : m[e].src = e.id /\ m[e].amount = e.fee /\ m[e].amount \in Nat
  BY <1>1 DEF FeeRow, Entry
<1>4. \A x, y \in S : m[x] = m[y] => x = y
  BY <1>1, <1>3
<1>5. IsFiniteSet(R)
  <2>1. m \in Surjection(S, R)
    BY <1>2 DEF Surjection
  <2> QED
    BY <1>1, <2>1, FS_Surjection
<1> HIDE DEF R, m
<1>6. Amounts(R) \in [R -> Nat]
  BY <1>2, <1>3 DEF Amounts
<1>7. Total(Amounts(R)) = Total([e \in S |-> Amounts(R)[m[e]]])
  BY <1>1, <1>2, <1>4, <1>6, TotalRenamed
<1>8. [e \in S |-> Amounts(R)[m[e]]] = Fees(S)
  BY <1>2, <1>3 DEF Amounts, Fees
<1> QED
  BY <1>5, <1>6, <1>7, <1>8 DEF R

\* Fees of nothing add nothing.
LEMMA FeesOfSome ==
  ASSUME IInv, NEW S \in SUBSET ledger
  PROVE  Total(Fees(S)) = Total(Fees({e \in S : e.fee > 0}))
<1> DEFINE A == {e \in S : e.fee > 0}
           Z == {e \in S : ~ (e.fee > 0)}
<1>1. S \in SUBSET Entry /\ IsFiniteSet(S) /\ IsFiniteSet(A) /\ IsFiniteSet(Z)
      /\ Fees(S) \in [S -> Nat] /\ Fees(A) \in [A -> Nat] /\ Fees(Z) \in [Z -> Nat]
  BY EntriesAreFinite
<1>2. S = A \cup Z /\ A \cap Z = {}
  OBVIOUS
<1>3. \A e \in Z : Fees(Z)[e] = 0
  BY <1>1 DEF Fees, Entry
<1>4. Only(Fees(S), A) = Fees(A) /\ Only(Fees(S), Z) = Fees(Z)
  BY DEF Only, Fees
<1> HIDE DEF A, Z
<1>5. Total(Fees(S)) = Total(Only(Fees(S), A)) + Total(Only(Fees(S), Z))
  <2>1. Fees(S) \in [A \cup Z -> Nat]
    BY <1>1, <1>2
  <2>2. IsFiniteSet(A) /\ IsFiniteSet(Z) /\ A \cap Z = {}
    BY <1>1, <1>2
  <2>3. Total(Fees(S)) = Total(Only(Fees(S), A)) + Total(Only(Fees(S), Z))
    BY <2>1, <2>2, TotalOfUnion, ZenonT(60)
  <2> QED
    BY <2>3
<1>6. Total(Fees(Z)) = 0
  BY <1>1, <1>3, TotalOfZeros
<1>7. Total(Fees(A)) \in Nat
  BY <1>1, TotalIsNat
<1> QED
  BY <1>4, <1>5, <1>6, <1>7 DEF A

\* With nothing to do, the rows counted are those of all entries and their fees.
LEMMA AllCounted ==
  ASSUME IInv, NEW d \in Depots
  PROVE  /\ CameIn(ledger, d, {}) = Total(Amounts(Entries(d, TRUE)))
         /\ WentOut(ledger, d, {}) = Total(Amounts(Entries(d, FALSE)))
                                     + Total(Fees({e \in ledger : e.depot = d}))
<1>1. ledger \in SUBSET Entry
  BY LedgerIsFinite
<1> DEFINE P == Entries(d, TRUE)
           Q == Entries(d, FALSE)
           F == {e \in {e \in ledger : e.depot = d} : e.fee > 0}
           ER == {EntryRow(e) : e \in Q}
           FR == {FeeRow(e) : e \in F}
<1>2. P \in SUBSET ledger /\ Q \in SUBSET ledger /\ F \in SUBSET ledger
      /\ {e \in ledger : e.depot = d} \in SUBSET ledger
  BY DEF Entries
<1>3. \A e \in ledger : /\ EntryRow(e).depot = e.depot /\ EntryRow(e).out = ~ e.into
                        /\ FeeRow(e).depot = e.depot /\ FeeRow(e).out = TRUE
                        /\ EntryRow(e).fee = FALSE /\ FeeRow(e).fee = TRUE
                        /\ e.into \in BOOLEAN
  BY <1>1 DEF EntryRow, FeeRow, Entry
<1>4. InRows(ledger, d, {}) = {EntryRow(e) : e \in P}
  BY <1>3 DEF InRows, RowsOf, Expand, Entries
<1>5. OutRows(ledger, d, {}) = ER \cup FR
  <2>1. OutRows(ledger, d, {}) = {z \in Expand(ledger) : z.depot = d /\ z.out}
    BY DEF OutRows, RowsOf
  <2>2. ASSUME NEW z \in Expand(ledger), z.depot = d, z.out PROVE z \in ER \cup FR
    <3>1. CASE z \in {EntryRow(e) : e \in ledger}
      <4>1. PICK e \in ledger : z = EntryRow(e)
        BY <3>1
      <4>2. e.depot = d /\ e.into = FALSE
        BY <1>3, <2>2, <4>1
      <4> QED
        BY <4>1, <4>2 DEF Entries
    <3>2. CASE z \in {FeeRow(e) : e \in {b \in ledger : b.fee > 0}}
      <4>1. PICK e \in ledger : e.fee > 0 /\ z = FeeRow(e)
        BY <3>2
      <4>2. e.depot = d
        BY <1>3, <2>2, <4>1
      <4> QED
        BY <4>1, <4>2
    <3> QED
      BY <3>1, <3>2 DEF Expand
  <2>3. ASSUME NEW z \in ER PROVE z \in Expand(ledger) /\ z.depot = d /\ z.out
    <3>1. PICK e \in ledger : e.depot = d /\ e.into = FALSE /\ z = EntryRow(e)
      BY DEF Entries
    <3> QED
      BY <1>3, <3>1 DEF Expand
  <2>4. ASSUME NEW z \in FR PROVE z \in Expand(ledger) /\ z.depot = d /\ z.out
    <3>1. PICK e \in ledger : e.depot = d /\ e.fee > 0 /\ z = FeeRow(e)
      OBVIOUS
    <3> QED
      BY <1>3, <3>1 DEF Expand
  <2> HIDE DEF ER, FR
  <2> QED
    BY <2>1, <2>2, <2>3, <2>4
<1>6. ER \cap FR = {}
  BY <1>2, <1>3
<1>7. CameIn(ledger, d, {}) = Total(Amounts(P))
  BY <1>2, <1>4, EntryRowsAddUp DEF CameIn
<1>8. IsFiniteSet(ER) /\ Amounts(ER) \in [ER -> Nat] /\ Total(Amounts(ER)) = Total(Amounts(Q))
  BY <1>2, EntryRowsAddUp
<1>9. IsFiniteSet(FR) /\ Amounts(FR) \in [FR -> Nat] /\ Total(Amounts(FR)) = Total(Fees(F))
  BY <1>2, FeeRowsAddUp
<1>10. Total(Fees({e \in ledger : e.depot = d})) = Total(Fees(F))
  BY <1>2, FeesOfSome
<1> HIDE DEF ER, FR, P, Q, F
<1>11. WentOut(ledger, d, {}) = Total(Amounts(ER)) + Total(Amounts(FR))
  <2>1. Amounts(ER \cup FR) \in [ER \cup FR -> Nat]
    BY <1>8, <1>9 DEF Amounts
  <2>2. Only(Amounts(ER \cup FR), ER) = Amounts(ER) /\ Only(Amounts(ER \cup FR), FR) = Amounts(FR)
    BY DEF Only, Amounts
  <2>3. Total(Amounts(ER \cup FR)) = Total(Only(Amounts(ER \cup FR), ER))
                                     + Total(Only(Amounts(ER \cup FR), FR))
    <3>1. IsFiniteSet(ER) /\ IsFiniteSet(FR) /\ ER \cap FR = {}
      BY <1>6, <1>8, <1>9
    <3> QED
      BY <2>1, <3>1, TotalOfUnion, ZenonT(60)
  <2> QED
    BY <1>5, <2>2, <2>3 DEF WentOut
<1> QED
  BY <1>7, <1>8, <1>9, <1>10, <1>11 DEF P, Q

\* With every row done, the balance of each depot is the promised one.
LEMMA EverythingConserved ==
  ASSUME IInv, SumInv
  PROVE  Conserved
<1> SUFFICES ASSUME Done, NEW d \in Depots
             PROVE  /\ Total([e \in Entries(d, TRUE) |-> e.amount]) = Open(d) + Matched(d)
                    /\ Total([e \in Entries(d, FALSE) |-> e.amount])
                         + Total([e \in {e \in ledger : e.depot = d} |-> e.fee])
                       = Matched(d) + oversold[d]
  BY DEF Conserved
<1>1. todo = {} /\ Pending(d) = 0
  BY DEF Done, Pending
<1>2. Open(d) \in Nat /\ Matched(d) \in Nat /\ oversold[d] \in Nat
  BY AmountsAreNat
<1>3. Balanced(d)
  BY DEF SumInv
<1>4. /\ CameIn(ledger, d, {}) = Open(d) + Matched(d)
      /\ WentOut(ledger, d, {}) = Matched(d) + oversold[d]
  BY <1>1, <1>2, <1>3 DEF Balanced
<1> QED
  BY <1>4, AllCounted DEF Amounts, Fees

\* With every row done, what is missing is the worst shortfall of all.
LEMMA DeficitMatched ==
  ASSUME IInv, SumInv
  PROVE  MatchesDeficit
<1> SUFFICES ASSUME Done, NEW d \in Depots
             PROVE  oversold[d] = Deficit(ledger, d)
  BY DEF MatchesDeficit
<1>1. todo = {} /\ Pending(d) = 0
  BY DEF Done, Pending
<1>2. Open(d) \in Nat /\ oversold[d] \in Nat
  BY AmountsAreNat
<1>3. Missing(d) = oversold[d]
  BY <1>1, <1>2 DEF Missing
<1>4. /\ oversold[d] \in Shorts(ledger, d, {})
      /\ \A s \in Shorts(ledger, d, {}) : s <= oversold[d]
  BY <1>1, <1>3 DEF SumInv, Worst
<1>5. Shorts(ledger, d, {}) = {0} \cup {ShortBy(ledger, d, r) : r \in RowsOf(ledger, d)}
  BY DEF Shorts
<1>6. Shorts(ledger, d, {}) \in SUBSET Int
  BY <1>5, LedgerIsFinite, ShortIsInt
<1>7. Max(Shorts(ledger, d, {})) = oversold[d]
  BY <1>4, <1>6, MaxIs
<1> QED
  BY <1>5, <1>7 DEF Deficit

\* Both invariants hold in every state.
LEMMA SumsInductive == Spec => [](IInv /\ SumInv)
<1>1. Init => SumInv
  BY SumsAtFirst
<1>2. IInv /\ SumInv /\ [Next]_vars => SumInv'
  BY SumsStay
<1> QED
  BY <1>1, <1>2, Inductive, PTL DEF Spec

-----------------------------------------------------------------------------
(* The ages of what is left *)

\* What a sequence of lots must be for its sums: whole amounts and instants.
Lotted(L) ==
    /\ Len(L) \in Nat
    /\ \A i \in 1 .. Len(L) : L[i].left \in Nat /\ L[i].at \in Nat

LeftsUpTo(L, t) == [i \in 1 .. Len(L) |-> IF L[i].at <= t THEN L[i].left ELSE 0]

\* What is left by an instant is a natural, lot by lot and in all.
LEMMA LeftsByAge ==
  ASSUME NEW L, Lotted(L), NEW t \in Int
  PROVE  /\ LeftsUpTo(L, t) \in [1 .. Len(L) -> Nat] /\ Lefts(L) \in [1 .. Len(L) -> Nat]
         /\ IsFiniteSet(1 .. Len(L)) /\ Len(L) \in Nat
         /\ LeftUpTo(L, t) = Total(LeftsUpTo(L, t))
         /\ LeftUpTo(L, t) \in Nat /\ Total(Lefts(L)) \in Nat
<1>1. Len(L) \in Nat /\ IsFiniteSet(1 .. Len(L))
  BY FS_Interval DEF Lotted
<1>2. LeftsUpTo(L, t) \in [1 .. Len(L) -> Nat]
  BY DEF Lotted, LeftsUpTo
<1>3. Lefts(L) \in [1 .. Len(L) -> Nat]
  BY DEF Lotted, Lefts
<1>4. LeftUpTo(L, t) = Total(LeftsUpTo(L, t))
  BY DEF LeftUpTo, LeftsUpTo
<1> QED
  BY <1>1, <1>2, <1>3, <1>4, TotalIsNat

\* A lot more, which is not older than the others.
LEMMA AgesAppended ==
  ASSUME NEW L, Lotted(L), NEW M, Lotted(M), Len(M) = Len(L) + 1,
         \A i \in 1 .. Len(L) : M[i].at = L[i].at /\ M[i].left = L[i].left,
         NEW t \in Int
  PROVE  LET x == M[Len(L) + 1]
         IN  /\ x.at <= t => LeftUpTo(M, t) = LeftUpTo(L, t) + x.left
             /\ ~ (x.at <= t) => LeftUpTo(M, t) = LeftUpTo(L, t)
             /\ Total(Lefts(M)) = Total(Lefts(L)) + x.left
<1> DEFINE n == Len(L)
           x == M[n + 1]
<1>1. /\ n \in Nat /\ Len(M) = n + 1
      /\ LeftsUpTo(L, t) \in [1 .. n -> Nat] /\ Lefts(L) \in [1 .. n -> Nat]
      /\ LeftsUpTo(M, t) \in [1 .. n + 1 -> Nat] /\ Lefts(M) \in [1 .. n + 1 -> Nat]
      /\ LeftUpTo(L, t) = Total(LeftsUpTo(L, t)) /\ LeftUpTo(M, t) = Total(LeftsUpTo(M, t))
  BY LeftsByAge
<1>2. n + 1 \in 1 .. n + 1 /\ \A i \in 1 .. n : i \in 1 .. n + 1
  BY <1>1
<1>3. /\ LeftsUpTo(M, t)[n + 1] = IF x.at <= t THEN x.left ELSE 0
      /\ Lefts(M)[n + 1] = x.left
      /\ \A i \in 1 .. n : LeftsUpTo(M, t)[i] = LeftsUpTo(L, t)[i] /\ Lefts(M)[i] = Lefts(L)[i]
  BY <1>1, <1>2 DEF LeftsUpTo, Lefts
<1> HIDE DEF n, x
<1>4. /\ Total(LeftsUpTo(M, t)) = Total(LeftsUpTo(L, t)) + LeftsUpTo(M, t)[n + 1]
      /\ Total(LeftsUpTo(L, t)) \in Nat
      /\ Total(Lefts(M)) = Total(Lefts(L)) + Lefts(M)[n + 1]
  BY <1>1, <1>3, TotalAppended
<1> QED
  BY <1>1, <1>3, <1>4 DEF n, x

\* Something taken from a lot.
LEMMA AgesTaken ==
  ASSUME NEW L, Lotted(L), NEW M, Lotted(M), Len(M) = Len(L),
         NEW i \in 1 .. Len(L), NEW used \in Nat, used <= L[i].left,
         M[i].left = L[i].left - used, \A j \in 1 .. Len(L) : M[j].at = L[j].at,
         \A j \in 1 .. Len(L) \ {i} : M[j].left = L[j].left,
         NEW t \in Int
  PROVE  /\ L[i].at <= t => LeftUpTo(M, t) = LeftUpTo(L, t) - used
         /\ ~ (L[i].at <= t) => LeftUpTo(M, t) = LeftUpTo(L, t)
         /\ Total(Lefts(M)) = Total(Lefts(L)) - used
         /\ L[i].at <= t => L[i].left <= LeftUpTo(L, t)
         /\ used <= Total(Lefts(L))
<1> DEFINE S == 1 .. Len(L)
           f == LeftsUpTo(L, t)
           g == LeftsUpTo(M, t)
           h == Lefts(L)
           k == Lefts(M)
<1>1. /\ IsFiniteSet(S) /\ f \in [S -> Nat] /\ g \in [S -> Nat] /\ h \in [S -> Nat] /\ k \in [S -> Nat]
      /\ LeftUpTo(L, t) = Total(f) /\ LeftUpTo(M, t) = Total(g)
  BY LeftsByAge
<1>2. /\ f[i] = (IF L[i].at <= t THEN L[i].left ELSE 0)
      /\ g[i] = (IF L[i].at <= t THEN L[i].left - used ELSE 0)
      /\ h[i] = L[i].left /\ k[i] = L[i].left - used
  BY DEF LeftsUpTo, Lefts
<1>3. L[i].left \in Nat
  BY DEF Lotted
<1>4. /\ IsFiniteSet(S) /\ i \in S /\ f \in [S -> Nat] /\ g \in [S -> Nat]
      /\ \A j \in S \ {i} : g[j] = f[j]
  BY <1>1 DEF LeftsUpTo
<1>5. /\ IsFiniteSet(S) /\ i \in S /\ h \in [S -> Nat] /\ k \in [S -> Nat]
      /\ \A j \in S \ {i} : k[j] = h[j]
  BY <1>1 DEF Lefts
<1> HIDE DEF S, f, g, h, k
<1>6. /\ Total(g) = Total(f) + g[i] - f[i]
      /\ Total(f) \in Nat /\ Total(g) \in Nat /\ f[i] \in Nat /\ g[i] \in Nat
      /\ f[i] <= Total(f)
  BY <1>4, TotalChanged
<1>7. /\ Total(k) = Total(h) + k[i] - h[i]
      /\ Total(h) \in Nat /\ Total(k) \in Nat /\ h[i] \in Nat /\ k[i] \in Nat
      /\ h[i] <= Total(h)
  BY <1>5, TotalChanged
<1>8. Total(k) = Total(h) - used /\ used <= Total(h)
  BY <1>2, <1>3, <1>7
<1>9. CASE L[i].at <= t
  BY <1>1, <1>2, <1>3, <1>6, <1>8, <1>9 DEF h, k
<1>10. CASE ~ (L[i].at <= t)
  BY <1>1, <1>2, <1>3, <1>6, <1>8, <1>10 DEF h, k
<1> QED
  BY <1>9, <1>10

\* By an instant before the lot at which the loop stands nothing is left, and by
\* an instant at or behind every lot all of it is.
LEMMA AgesAtEnds ==
  ASSUME NEW L, Lotted(L), NEW t \in Int
  PROVE  /\ (\A j \in 1 .. Len(L) : L[j].at <= t => L[j].left = 0) => LeftUpTo(L, t) = 0
         /\ (\A j \in 1 .. Len(L) : L[j].at <= t) => LeftUpTo(L, t) = Total(Lefts(L))
<1>1. /\ LeftsUpTo(L, t) \in [1 .. Len(L) -> Nat] /\ IsFiniteSet(1 .. Len(L))
      /\ LeftUpTo(L, t) = Total(LeftsUpTo(L, t))
  BY LeftsByAge
<1>2. ASSUME \A j \in 1 .. Len(L) : L[j].at <= t => L[j].left = 0
      PROVE  LeftUpTo(L, t) = 0
  <2>1. \A j \in 1 .. Len(L) : LeftsUpTo(L, t)[j] = 0
    BY <1>2 DEF LeftsUpTo
  <2> QED
    BY <1>1, <2>1, TotalOfZeros
<1>3. ASSUME \A j \in 1 .. Len(L) : L[j].at <= t
      PROVE  LeftsUpTo(L, t) = Lefts(L)
  BY <1>3 DEF LeftsUpTo, Lefts
<1> QED
  BY <1>1, <1>2, <1>3

-----------------------------------------------------------------------------
\* What the rows of depot d that are no longer to do brought up to t.
RowsBy(B, d, u, t) == {s \in InRows(B, d, u) : s.at <= t}
CameBy(B, d, u, t) == Total(Amounts(RowsBy(B, d, u, t)))

\* First in, first out, in sums: what the rows done brought and is no longer there
\* is what was brought first.
OldestGone(L, B, d, u) ==
    /\ Total(Lefts(L)) <= CameIn(B, d, u)
    /\ \A t \in Int :
          LET gone == CameIn(B, d, u) - Total(Lefts(L))
          IN LeftUpTo(L, t) = IF CameBy(B, d, u, t) > gone THEN CameBy(B, d, u, t) - gone ELSE 0

\* What came by an instant is a natural, and all when the instant is late enough.
LEMMA CameByIsNat ==
  ASSUME NEW B \in SUBSET Entry, IsFiniteSet(B), NEW d, NEW u, NEW t \in Int
  PROVE  /\ CameBy(B, d, u, t) \in Nat
         /\ (\A s \in InRows(B, d, u) : s.at <= t) => CameBy(B, d, u, t) = CameIn(B, d, u)
         /\ IsFiniteSet(RowsBy(B, d, u, t))
         /\ Amounts(RowsBy(B, d, u, t)) \in [RowsBy(B, d, u, t) -> Nat]
<1>1. IsFiniteSet(InRows(B, d, u)) /\ Amounts(InRows(B, d, u)) \in [InRows(B, d, u) -> Nat]
  BY RowSumsAreNat
<1>2. RowsBy(B, d, u, t) \in SUBSET InRows(B, d, u)
  BY DEF RowsBy
<1>3. IsFiniteSet(RowsBy(B, d, u, t))
  BY <1>1, <1>2, FS_Subset
<1>4. \A s \in RowsBy(B, d, u, t) : s.amount \in Nat
  BY <1>1, <1>2 DEF Amounts
<1>5. Amounts(RowsBy(B, d, u, t)) \in [RowsBy(B, d, u, t) -> Nat]
  BY <1>4 DEF Amounts
<1>6. (\A s \in InRows(B, d, u) : s.at <= t) => RowsBy(B, d, u, t) = InRows(B, d, u)
  BY DEF RowsBy
<1> QED
  BY <1>3, <1>5, <1>6, TotalIsNat DEF CameBy, CameIn

\* An incoming row more.
LEMMA CameByGrows ==
  ASSUME NEW B \in SUBSET Entry, IsFiniteSet(B), NEW u \in SUBSET Expand(B), NEW r \in u,
         NEW d, r.depot = d, ~ r.out, NEW t \in Int
  PROVE  /\ r.at <= t => CameBy(B, d, u \ {r}, t) = CameBy(B, d, u, t) + r.amount
         /\ ~ (r.at <= t) => CameBy(B, d, u \ {r}, t) = CameBy(B, d, u, t)
<1> DEFINE S == RowsBy(B, d, u, t)
<1>1. r \in Expand(B) /\ r \notin InRows(B, d, u)
      /\ InRows(B, d, u \ {r}) = InRows(B, d, u) \cup {r}
  BY DEF InRows, RowsOf
<1>2. CASE r.at <= t
  <2> DEFINE f == Amounts(S \cup {r})
             g == Amounts(S)
  <2>1. RowsBy(B, d, u \ {r}, t) = S \cup {r} /\ r \notin S
    BY <1>1, <1>2 DEF RowsBy
  <2>2. IsFiniteSet(S) /\ g \in [S -> Nat] /\ f \in [S \cup {r} -> Nat]
    BY <2>1, CameByIsNat
  <2>3. f[r] = r.amount /\ \A y \in S : g[y] = f[y]
    BY DEF Amounts
  <2>4. r \notin S
    BY <2>1
  <2> HIDE DEF S, f, g
  <2>5. Total(f) = Total(g) + f[r]
    BY <2>2, <2>3, <2>4, TotalPlus
  <2> QED
    BY <1>2, <2>1, <2>3, <2>5 DEF CameBy, S, f, g
<1>3. CASE ~ (r.at <= t)
  <2>1. RowsBy(B, d, u \ {r}, t) = S
    BY <1>1, <1>3 DEF RowsBy
  <2>2. CameBy(B, d, u, t) \in Nat
    BY CameByIsNat
  <2> QED
    BY <1>3, <2>1, <2>2 DEF CameBy
<1> QED
  BY <1>2, <1>3

\* A lot for an incoming row that is not older than those before it.
LEMMA OldestGoneAfterIn ==
  ASSUME NEW B \in SUBSET Entry, IsFiniteSet(B), NEW u \in SUBSET Expand(B), NEW r \in u,
         NEW d, r.depot = d, ~ r.out,
         \A s \in InRows(B, d, u) : s.at <= r.at,
         NEW L, Lotted(L), \A i \in 1 .. Len(L) : L[i].at <= r.at,
         NEW M, Lotted(M), Len(M) = Len(L) + 1,
         \A i \in 1 .. Len(L) : M[i].at = L[i].at /\ M[i].left = L[i].left,
         M[Len(L) + 1].at = r.at, M[Len(L) + 1].left = r.amount,
         OldestGone(L, B, d, u)
  PROVE  OldestGone(M, B, d, u \ {r})
<1> DEFINE v == u \ {r}
           a == r.amount
           old == Total(Lefts(L))
           came == CameIn(B, d, u)
<1>1. r \in Row /\ r.at \in Nat /\ a \in Nat
  BY RowsAreFinite DEF Row
<1>2. CameIn(B, d, v) = came + a
  BY RowIsCounted
<1>3. came \in Nat /\ old \in Nat
  <2>1. 0 \in Int
    OBVIOUS
  <2> QED
    BY <2>1, RowSumsAreNat, LeftsByAge
<1>4. Total(Lefts(M)) = old + a
  <2>1. 0 \in Int
    OBVIOUS
  <2> QED
    BY <2>1, AgesAppended
<1>5. old <= came /\ \A t \in Int : LeftUpTo(L, t) =
          IF CameBy(B, d, u, t) > came - old THEN CameBy(B, d, u, t) - (came - old) ELSE 0
  BY DEF OldestGone
<1>6. ASSUME NEW t \in Int
      PROVE  LeftUpTo(M, t) =
                 IF CameBy(B, d, v, t) > came - old THEN CameBy(B, d, v, t) - (came - old) ELSE 0
  <2>1. /\ r.at <= t => LeftUpTo(M, t) = LeftUpTo(L, t) + a
        /\ ~ (r.at <= t) => LeftUpTo(M, t) = LeftUpTo(L, t)
    BY AgesAppended
  <2>2. /\ r.at <= t => CameBy(B, d, v, t) = CameBy(B, d, u, t) + a
        /\ ~ (r.at <= t) => CameBy(B, d, v, t) = CameBy(B, d, u, t)
    BY CameByGrows
  <2>3. LeftUpTo(L, t) \in Nat /\ CameBy(B, d, u, t) \in Nat
    BY LeftsByAge, CameByIsNat
  <2>4. CASE r.at <= t
    <3>1. \A i \in 1 .. Len(L) : L[i].at <= t
      BY <1>1, <2>4 DEF Lotted
    <3>2. LeftUpTo(L, t) = old
      BY <3>1, AgesAtEnds
    <3>3. \A s \in InRows(B, d, u) : s.at <= t
      <4>1. \A s \in InRows(B, d, u) : s.at \in Nat
        BY RowsAreFinite DEF InRows, RowsOf, Row
      <4> QED
        BY <1>1, <2>4, <4>1
    <3>4. CameBy(B, d, u, t) = came
      BY <3>3, CameByIsNat
    <3> HIDE DEF a, old, came, v
    <3> QED
      BY <1>1, <1>3, <1>5, <2>1, <2>2, <2>3, <2>4, <3>2, <3>4
  <2>5. CASE ~ (r.at <= t)
    <3> HIDE DEF a, old, came, v
    <3> QED
      BY <1>3, <1>5, <2>1, <2>2, <2>3, <2>5
  <2> QED
    BY <2>4, <2>5
<1>7. /\ CameIn(B, d, v) - Total(Lefts(M)) = came - old
      /\ Total(Lefts(M)) <= CameIn(B, d, v)
  BY <1>1, <1>2, <1>3, <1>4, <1>5
<1> HIDE DEF a, old, came, v
<1>8. OldestGone(M, B, d, v)
  BY <1>6, <1>7 DEF OldestGone
<1> QED
  BY <1>8 DEF v

\* Something taken from the first lot that holds something.
LEMMA OldestGoneAfterTaking ==
  ASSUME NEW B \in SUBSET Entry, IsFiniteSet(B), NEW d, NEW u,
         NEW L, Lotted(L), NEW M, Lotted(M), Len(M) = Len(L),
         NEW i \in 1 .. Len(L), NEW used \in Nat, used <= L[i].left,
         M[i].left = L[i].left - used, \A j \in 1 .. Len(L) : M[j].at = L[j].at,
         \A j \in 1 .. Len(L) \ {i} : M[j].left = L[j].left,
         \A j \in 1 .. Len(L) : j < i => L[j].left = 0,
         \A j, k \in 1 .. Len(L) : j < k => L[j].at <= L[k].at,
         OldestGone(L, B, d, u)
  PROVE  OldestGone(M, B, d, u)
<1> DEFINE old == Total(Lefts(L))
           came == CameIn(B, d, u)
<1>1. came \in Nat /\ old \in Nat /\ L[i].left \in Nat
  <2>1. 0 \in Int
    OBVIOUS
  <2> QED
    BY <2>1, RowSumsAreNat, LeftsByAge DEF Lotted
<1>2. Total(Lefts(M)) = old - used /\ used <= old
  <2>1. 0 \in Int
    OBVIOUS
  <2> QED
    BY <2>1, AgesTaken
<1>3. old <= came /\ \A t \in Int : LeftUpTo(L, t) =
          IF CameBy(B, d, u, t) > came - old THEN CameBy(B, d, u, t) - (came - old) ELSE 0
  BY DEF OldestGone
<1>4. ASSUME NEW t \in Int
      PROVE  LeftUpTo(M, t) = IF CameBy(B, d, u, t) > came - (old - used)
                              THEN CameBy(B, d, u, t) - (came - (old - used)) ELSE 0
  <2>1. /\ L[i].at <= t => LeftUpTo(M, t) = LeftUpTo(L, t) - used
        /\ ~ (L[i].at <= t) => LeftUpTo(M, t) = LeftUpTo(L, t)
        /\ L[i].at <= t => L[i].left <= LeftUpTo(L, t)
    BY AgesTaken
  <2>2. LeftUpTo(L, t) \in Nat /\ CameBy(B, d, u, t) \in Nat
    BY LeftsByAge, CameByIsNat
  <2>3. CASE L[i].at <= t
    <3> DEFINE x == CameBy(B, d, u, t)
               l == LeftUpTo(L, t)
    <3>1. LeftUpTo(M, t) = l - used /\ used <= l
      BY <1>1, <2>1, <2>2, <2>3
    <3>2. l = IF x > came - old THEN x - (came - old) ELSE 0
      BY <1>3
    <3>3. x \in Nat /\ l \in Nat
      BY <2>2
    <3> HIDE DEF old, came, x, l
    <3>4. CASE x > came - old
      BY <1>1, <1>2, <3>1, <3>2, <3>3, <3>4 DEF x
    <3>5. CASE ~ (x > came - old)
      BY <1>1, <1>2, <3>1, <3>2, <3>3, <3>5 DEF x
    <3> QED
      BY <3>4, <3>5
  <2>4. CASE ~ (L[i].at <= t)
    <3>1. ASSUME NEW j \in 1 .. Len(L), L[j].at <= t PROVE L[j].left = 0
      <4>1. L[j].at \in Nat /\ L[i].at \in Nat /\ j \in Nat /\ i \in Nat
        BY DEF Lotted
      <4>2. j < i
        BY <2>4, <3>1, <4>1
      <4> QED
        BY <4>2
    <3>2. LeftUpTo(L, t) = 0
      BY <3>1, AgesAtEnds
    <3>3. LeftUpTo(L, t) = IF CameBy(B, d, u, t) > came - old THEN CameBy(B, d, u, t) - (came - old) ELSE 0
      BY <1>3
    <3>4. LeftUpTo(M, t) = 0
      BY <2>1, <2>4, <3>2
    <3> HIDE DEF old, came
    <3>5. CameBy(B, d, u, t) <= came - old
      BY <1>1, <2>2, <3>2, <3>3
    <3> QED
      BY <1>1, <1>2, <2>2, <3>4, <3>5
  <2> QED
    BY <2>3, <2>4
<1>5. /\ came - Total(Lefts(M)) = came - (old - used)
      /\ Total(Lefts(M)) <= came
  BY <1>1, <1>2, <1>3
<1> HIDE DEF old
<1> QED
  BY <1>4, <1>5 DEF OldestGone

\* Other rows and lots.
LEMMA OldestGoneKept ==
  ASSUME NEW B, NEW d, NEW u, NEW v, InRows(B, d, v) = InRows(B, d, u),
         NEW L, NEW M, Len(M) = Len(L),
         \A i \in 1 .. Len(L) : M[i].at = L[i].at /\ M[i].left = L[i].left,
         OldestGone(L, B, d, u)
  PROVE  OldestGone(M, B, d, v)
<1>1. Lefts(M) = Lefts(L)
  BY DEF Lefts
<1>2. \A t : LeftUpTo(M, t) = LeftUpTo(L, t)
  <2>1. \A t : LeftsUpTo(M, t) = LeftsUpTo(L, t)
    BY DEF LeftsUpTo
  <2> QED
    BY <2>1 DEF LeftUpTo, LeftsUpTo
<1>3. CameIn(B, d, v) = CameIn(B, d, u) /\ \A t : CameBy(B, d, v, t) = CameBy(B, d, u, t)
  BY DEF CameIn, CameBy, RowsBy
<1> QED
  BY <1>1, <1>2, <1>3 DEF OldestGone

\* Before the first row.
LEMMA OldestGoneAtFirst ==
  ASSUME NEW B \in SUBSET Entry, IsFiniteSet(B), NEW d
  PROVE  OldestGone(<<>>, B, d, Expand(B))
<1> DEFINE L == <<>>
           u == Expand(B)
<1>1. Lotted(L) /\ Len(L) = 0
  BY DEF Lotted
<1>2. InRows(B, d, u) = {}
  BY DEF InRows, RowsOf
<1>3. CameIn(B, d, u) = 0
  BY <1>2, RowSumsAreNat, TotalIsNat DEF CameIn
<1> HIDE DEF L, u
<1>4. ASSUME NEW t \in Int
      PROVE  LeftUpTo(L, t) = 0 /\ Total(Lefts(L)) = 0 /\ CameBy(B, d, u, t) = 0
  <2>1. \A j \in 1 .. Len(L) : L[j].at <= t => L[j].left = 0
    BY <1>1
  <2>2. \A j \in 1 .. Len(L) : L[j].at <= t
    BY <1>1
  <2>3. CameBy(B, d, u, t) = CameIn(B, d, u)
    BY <1>2, CameByIsNat
  <2> QED
    BY <1>1, <1>3, <2>1, <2>2, <2>3, AgesAtEnds
<1>5. Total(Lefts(L)) = 0
  <2>1. 0 \in Int
    OBVIOUS
  <2> QED
    BY <1>4, <2>1
<1>6. OldestGone(L, B, d, u)
  BY <1>3, <1>4, <1>5 DEF OldestGone
<1> QED
  BY <1>6 DEF L, u

\* What FIFO leaves open, once the rows done are those of B.
LEMMA OpenIsLatest ==
  ASSUME NEW C \in SUBSET Entry, IsFiniteSet(C), NEW u, NEW B, NEW d,
         NEW L, Lotted(L), OldestGone(L, C, d, u),
         \A t \in Int : Received(B, d, t) = CameBy(C, d, u, t),
         Spent(B, d) = WentOut(C, d, u), Deficit(B, d) \in Nat,
         Total(Lefts(L)) = CameIn(C, d, u) - WentOut(C, d, u) + Deficit(B, d),
         NEW t \in Int
  PROVE  LeftUpTo(L, t) = StillOpen(B, d, t)
<1> DEFINE x == CameBy(C, d, u, t)
           came == CameIn(C, d, u)
           old == Total(Lefts(L))
           went == WentOut(C, d, u)
           deficit == Deficit(B, d)
           y == x - (went - deficit)
<1>1. x \in Nat /\ came \in Nat /\ old \in Nat /\ went \in Nat /\ deficit \in Nat
  BY RowSumsAreNat, CameByIsNat, LeftsByAge
<1>2. LeftUpTo(L, t) = IF x > came - old THEN x - (came - old) ELSE 0
  BY DEF OldestGone
<1>3. StillOpen(B, d, t) = Max({0, y})
  BY DEF StillOpen
<1>4. old = came - went + deficit
  OBVIOUS
<1> HIDE DEF x, came, old, went, deficit
<1>5. y \in Int /\ (LeftUpTo(L, t) = IF y > 0 THEN y ELSE 0)
  BY <1>1, <1>2, <1>4
<1> HIDE DEF y
<1>6. CASE y > 0
  <2>1. Max({0, y}) = y
    BY <1>5, <1>6, MaxIs
  <2> QED
    BY <1>3, <1>5, <1>6, <2>1
<1>7. CASE ~ (y > 0)
  <2>1. Max({0, y}) = 0
    BY <1>5, <1>7, MaxIs
  <2> QED
    BY <1>3, <1>5, <1>7, <2>1
<1> QED
  BY <1>6, <1>7

\* Lots are sequences of amounts and instants.
LEMMA LotsAreLotted ==
  ASSUME NEW L \in Seq(Lot)
  PROVE  Lotted(L)
<1>1. Len(L) \in Nat
  BY LenProperties
<1>2. ASSUME NEW i \in 1 .. Len(L) PROVE L[i].left \in Nat /\ L[i].at \in Nat
  <2>1. L[i] \in Lot
    BY ElementOfSeq
  <2> QED
    BY <2>1 DEF Lot
<1> QED
  BY <1>1, <1>2 DEF Lotted

\* In each depot the loop takes what came first.
AgesInv == \A d \in Depots : OldestGone(lots[d], ledger, d, todo)

\* The ages hold before the first row.
LEMMA AgesAtFirst ==
  ASSUME Init
  PROVE  AgesInv
<1>1. todo = Expand(ledger) /\ ledger \in SUBSET Entry /\ IsFiniteSet(ledger)
  BY BookAssumption DEF Init
<1>2. \A d \in Depots : lots[d] = <<>>
  BY DEF Init
<1> QED
  BY <1>1, <1>2, OldestGoneAtFirst DEF AgesInv

\* Every step keeps the ages.
LEMMA AgesStay ==
  ASSUME IInv, InOrder, AgesInv, [Next]_vars
  PROVE  AgesInv'
<1>1. ledger \in SUBSET Entry /\ IsFiniteSet(ledger) /\ todo \in SUBSET Expand(ledger)
      /\ Expand(ledger) \in SUBSET Row
  BY LedgerIsFinite, RowsAreFinite DEF InOrder
<1>2. ASSUME NEW d \in Depots
      PROVE  /\ lots[d] \in Seq(Lot) /\ Lotted(lots[d]) /\ OldestGone(lots[d], ledger, d, todo)
             /\ \A i \in 1 .. Len(lots[d]) : lots[d][i].left = 0 <=> i < cursor[d]
             /\ \A i, j \in 1 .. Len(lots[d]) : i < j => lots[d][i].at <= lots[d][j].at
  BY LotsAreLotted DEF IInv, TypeOK, AgesInv, DepotOK
<1>3. ASSUME NEW d \in Depots, lots'[d] = lots[d], ledger' = ledger,
             InRows(ledger, d, todo') = InRows(ledger, d, todo)
      PROVE  OldestGone(lots'[d], ledger', d, todo')
  <2>1. OldestGone(lots[d], ledger, d, todo')
    BY <1>2, <1>3, OldestGoneKept
  <2> QED
    BY <1>3, <2>1
<1>4. ASSUME NEW r \in todo, Acquire(r), NEW d \in Depots
      PROVE  OldestGone(lots'[d], ledger', d, todo')
  <2> DEFINE x == [at |-> r.at, original |-> r.amount, left |-> r.amount]
             M == Append(lots[d], x)
  <2>1. /\ ~ r.out /\ todo' = todo \ {r} /\ ledger' = ledger
        /\ lots' = [lots EXCEPT ![r.depot] = Append(@, x)]
    BY <1>4 DEF Acquire
  <2>2. r \in Row /\ x \in Lot /\ x.at = r.at /\ x.left = r.amount
    BY <1>1 DEF Row, Lot
  <2>3. CASE d = r.depot
    <3> HIDE DEF x
    <3>1. lots'[d] = M
      BY <2>1, <2>3 DEF IInv, TypeOK
    <3>2. /\ M \in Seq(Lot) /\ Len(M) = Len(lots[d]) + 1
          /\ \A i \in 1 .. Len(lots[d]) : M[i] = lots[d][i]
          /\ M[Len(lots[d]) + 1] = x
      BY <1>2, <2>2, AppendProperties
    <3> HIDE DEF M
    <3>3. /\ Lotted(M)
          /\ \A i \in 1 .. Len(lots[d]) : M[i].at = lots[d][i].at /\ M[i].left = lots[d][i].left
          /\ M[Len(lots[d]) + 1].at = r.at /\ M[Len(lots[d]) + 1].left = r.amount
      BY <2>2, <3>2, LotsAreLotted
    <3>4. \A i \in 1 .. Len(lots[d]) : lots[d][i].at <= r.at
      BY DEF IInv, NotAfter
    <3>5. \A s \in InRows(ledger, d, todo) : s.at <= r.at
      BY <1>1, <2>2, BeforeAt DEF InRows, RowsOf, InOrder
    <3>6. Lotted(lots[d]) /\ OldestGone(lots[d], ledger, d, todo) /\ Len(M) = Len(lots[d]) + 1
      BY <1>2, <3>2
    <3>7. r.depot = d /\ ~ r.out
      BY <2>1, <2>3
    <3>8. OldestGone(M, ledger, d, todo \ {r})
      BY <1>1, <3>3, <3>4, <3>5, <3>6, <3>7, OldestGoneAfterIn
    <3> QED
      BY <2>1, <3>1, <3>8
  <2>4. CASE d # r.depot
    <3>1. lots'[d] = lots[d]
      BY <2>1, <2>4 DEF IInv, TypeOK
    <3>2. InRows(ledger, d, todo') = InRows(ledger, d, todo)
      BY <2>1, <2>4 DEF InRows, RowsOf
    <3> QED
      BY <1>3, <2>1, <3>1, <3>2
  <2> QED
    BY <2>3, <2>4
<1>5. ASSUME NEW r \in todo, Dispose(r), NEW d \in Depots
      PROVE  OldestGone(lots'[d], ledger', d, todo')
  <2>1. r.out /\ todo' = todo \ {r} /\ ledger' = ledger /\ lots' = lots
    BY <1>5 DEF Dispose
  <2>2. InRows(ledger, d, todo') = InRows(ledger, d, todo)
    BY <2>1 DEF InRows, RowsOf
  <2> QED
    BY <1>3, <2>1, <2>2
<1>6. ASSUME Consume, NEW d \in Depots
      PROVE  OldestGone(lots'[d], ledger', d, todo')
  <2> DEFINE c == row.depot
  <2>1. /\ row # NoRow /\ rest > 0 /\ todo' = todo /\ ledger' = ledger
    BY <1>6 DEF Consume
  <2>2. PICK i \in 1 .. Len(lots[c]) : NextLot(i) /\ ConsumeLot(i)
    BY <1>6 DEF Consume
  <2> DEFINE used == Least(lots[c][i].left, rest)
             M == Taken(lots[c], i, used)
  <2>3. lots' = [lots EXCEPT ![c] = M]
    BY <2>2 DEF ConsumeLot, Taken
  <2>4. c \in Depots /\ rest \in Nat
    BY <2>1 DEF IInv, TypeOK, Row
  <2>5. CASE d = c
    <3>1. lots'[d] = M
      BY <2>3, <2>5 DEF IInv, TypeOK
    <3>2. lots[c][i].left \in Nat /\ Len(lots[c]) \in Nat
      BY <1>2, <2>4 DEF Lotted
    <3>3. used \in Nat /\ used <= lots[c][i].left
      BY <2>4, <3>2 DEF Least
    <3> HIDE DEF used
    <3>4. /\ M \in Seq(Lot) /\ Len(M) = Len(lots[d])
          /\ M[i].left = lots[d][i].left - used
          /\ \A j \in 1 .. Len(lots[d]) : M[j].at = lots[d][j].at
          /\ \A j \in 1 .. Len(lots[d]) \ {i} : M[j] = lots[d][j]
      BY <1>2, <2>5, <3>3, TakenProperties
    <3> HIDE DEF M
    <3>5. Lotted(M) /\ \A j \in 1 .. Len(lots[d]) \ {i} : M[j].left = lots[d][j].left
      BY <3>4, LotsAreLotted
    <3>6. ASSUME NEW j \in 1 .. Len(lots[d]), j < i PROVE lots[d][j].left = 0
      <4>1. cursor[d] \in Nat /\ j \in Nat /\ i \in Nat
        BY DEF IInv, TypeOK
      <4>2. CASE j < cursor[d]
        BY <1>2, <4>2
      <4>3. CASE ~ (j < cursor[d])
        <5>1. j \in cursor[d] .. i - 1
          BY <3>6, <4>1, <4>3
        <5> QED
          BY <2>2, <2>5, <5>1 DEF NextLot
      <4> QED
        BY <4>2, <4>3
    <3>7. /\ Lotted(lots[d]) /\ OldestGone(lots[d], ledger, d, todo)
          /\ \A j, k \in 1 .. Len(lots[d]) : j < k => lots[d][j].at <= lots[d][k].at
      BY <1>2
    <3>8. i \in 1 .. Len(lots[d]) /\ used <= lots[d][i].left
      BY <2>5, <3>3
    <3>9. OldestGone(M, ledger, d, todo)
      BY <1>1, <3>3, <3>4, <3>5, <3>6, <3>7, <3>8, OldestGoneAfterTaking
    <3> QED
      BY <2>1, <3>1, <3>9
  <2>6. CASE d # c
    <3>1. lots'[d] = lots[d]
      BY <2>3, <2>6 DEF IInv, TypeOK
    <3> QED
      BY <1>3, <2>1, <3>1
  <2> QED
    BY <2>5, <2>6
<1>7. ASSUME lots' = lots, ledger' = ledger, todo' = todo, NEW d \in Depots
      PROVE  OldestGone(lots'[d], ledger', d, todo')
  BY <1>3, <1>7
<1>8. ASSUME NEW d \in Depots
      PROVE  OldestGone(lots'[d], ledger', d, todo')
  <2>1. Settle \/ UNCHANGED vars => lots' = lots /\ ledger' = ledger /\ todo' = todo
    BY DEF Settle, vars
  <2> QED
    BY <1>4, <1>5, <1>6, <1>7, <2>1 DEF Next
<1> QED
  BY <1>8 DEF AgesInv

\* With every row done, the lots that are open are those that came in last.
LEMMA OldestAreSpent ==
  ASSUME IInv, SumInv, AgesInv
  PROVE  OldestSpent
<1> SUFFICES ASSUME Done, NEW d \in Depots, NEW e \in ledger
             PROVE  LeftUpTo(lots[d], e.at) = StillOpen(ledger, d, e.at)
  BY DEF OldestSpent
<1>1. todo = {} /\ Pending(d) = 0
  BY DEF Done, Pending
<1>2. ledger \in SUBSET Entry /\ IsFiniteSet(ledger) /\ e.at \in Int
  BY LedgerIsFinite DEF Entry
<1>3. /\ Open(d) \in Nat /\ Matched(d) \in Nat /\ oversold[d] \in Nat
      /\ Open(d) = Total(Lefts(lots[d])) /\ Lotted(lots[d])
  BY AmountsAreNat, LotsAreLotted
<1>4. oversold[d] = Deficit(ledger, d)
  BY DeficitMatched DEF MatchesDeficit
<1>5. CameIn(ledger, d, {}) = Open(d) + Matched(d) /\ WentOut(ledger, d, {}) = Matched(d) + oversold[d]
  <2>1. Balanced(d)
    BY DEF SumInv
  <2> QED
    BY <1>1, <1>3, <2>1 DEF Balanced
<1>6. Total(Lefts(lots[d])) = CameIn(ledger, d, {}) - WentOut(ledger, d, {}) + Deficit(ledger, d)
  BY <1>3, <1>4, <1>5
<1>7. \A t \in Int : Received(ledger, d, t) = CameBy(ledger, d, {}, t)
  <2>1. \A t \in Int : {r \in RowsOf(ledger, d) : ~ r.out /\ r.at <= t} = RowsBy(ledger, d, {}, t)
    BY DEF RowsBy, InRows
  <2> QED
    BY <2>1 DEF Received, CameBy
<1>8. Spent(ledger, d) = WentOut(ledger, d, {})
  <2>1. {r \in RowsOf(ledger, d) : r.out} = OutRows(ledger, d, {})
    BY DEF OutRows
  <2> QED
    BY <2>1 DEF Spent, WentOut
<1>9. OldestGone(lots[d], ledger, d, {}) /\ Deficit(ledger, d) \in Nat
  BY <1>1, <1>3, <1>4 DEF AgesInv
<1> QED
  BY <1>2, <1>3, <1>6, <1>7, <1>8, <1>9, OpenIsLatest

\* The three invariants hold in every state.
LEMMA AgesInductive == Spec => [](IInv /\ SumInv /\ AgesInv)
<1>1. Init => AgesInv
  BY AgesAtFirst
<1>2. IInv /\ SumInv /\ AgesInv /\ [Next]_vars => AgesInv'
  BY AgesStay DEF SumInv
<1> QED
  BY <1>1, <1>2, SumsInductive, PTL DEF Spec

-----------------------------------------------------------------------------
\* When the ledger of any size is processed, every satoshi that came into a depot
\* is open or matched, every one that left it, fees included, is matched or
\* oversold, the depot is oversold by exactly its worst shortfall, and what is open
\* is what came in last.
THEOREM LotsAlwaysAddUp == Spec => []LotsAddUp
<1>1. IInv /\ SumInv /\ AgesInv => LotsAddUp
  BY EverythingConserved, DeficitMatched, OldestAreSpent DEF LotsAddUp
<1> QED
  BY <1>1, AgesInductive, PTL

\* Seen from outside, lots, cursor and matches are a plain balance for each depot:
\* a disposal is split once, when its row is taken, into what the balance pays and
\* what is missing, and the loop over the lots changes neither.
THEOREM ImplementsBalance == Spec => ImplementsStackBalance
<1>1. Init => SB!Init
  <2> SUFFICES ASSUME Init PROVE SB!Init
    OBVIOUS
  <2>1. todo \subseteq Row
    BY BookAssumption, RowsAreFinite DEF Init
  <2>2. ASSUME NEW d \in Depots PROVE Open(d) = 0 /\ Pending(d) = 0 /\ oversold[d] = 0
    BY FirstAmounts
  <2>3. \A d \in Depots : Held(d) = 0 /\ Missing(d) = 0
    BY <2>2 DEF Held, Missing
  <2>4. AllHeld = [d \in Depots |-> 0] /\ AllMissing = [d \in Depots |-> 0]
    BY <2>3 DEF AllHeld, AllMissing
  <2> QED
    BY <2>1, <2>4 DEF SB!Init
<1>2. IInv /\ [Next]_vars => [SB!Next]_SB!bvars
  <2> SUFFICES ASSUME IInv, [Next]_vars PROVE [SB!Next]_SB!bvars
    OBVIOUS
  <2>1. \A d \in Depots : Held(d) \in Nat /\ Missing(d) \in Nat
    BY HeldAndMissing
  <2>2. ASSUME NEW r \in todo, Acquire(r) PROVE SB!Next
    <3>1. First(r) /\ ~ r.out /\ todo' = todo \ {r}
      BY <2>2 DEF Acquire
    <3>2. r.depot \in Depots
      BY DEF IInv, TypeOK, Row
    <3>3. \A d \in Depots : /\ Held(d)' = IF d = r.depot THEN Held(d) + r.amount ELSE Held(d)
                            /\ Missing(d)' = Missing(d)
      BY <2>2, AcquireHolds
    <3>4. AllHeld' = [AllHeld EXCEPT ![r.depot] = @ + r.amount] /\ AllMissing' = AllMissing
      BY <3>2, <3>3 DEF AllHeld, AllMissing
    <3>5. SB!First(r)
      BY <3>1 DEF First, SB!First
    <3>6. SB!Receive(r)
      BY <3>1, <3>4 DEF SB!Receive
    <3> QED
      BY <3>1, <3>5, <3>6 DEF SB!Next
  <2>3. ASSUME NEW r \in todo, Dispose(r) PROVE SB!Next
    <3>1. First(r) /\ r.out /\ todo' = todo \ {r}
      BY <2>3 DEF Dispose
    <3>2. r.depot \in Depots
      BY DEF IInv, TypeOK, Row
    <3> DEFINE p == Paid(r.depot, r)
               m == Unpaid(r.depot, r)
    <3>3. ASSUME NEW d \in Depots
          PROVE  /\ Held(d)' = IF d = r.depot THEN Held(d) - p ELSE Held(d)
                 /\ Missing(d)' = IF d = r.depot THEN Missing(d) + m ELSE Missing(d)
      BY <2>1, <2>3, DisposeHolds DEF Paid, Unpaid
    <3>4. /\ p \in 0 .. r.amount /\ m \in 0 .. r.amount /\ p + m = r.amount
          /\ p <= Held(r.depot)
          /\ m > 0 => p = Held(r.depot)
      BY <2>1, <2>3, <3>2, DisposeHolds DEF Paid, Unpaid
    <3> HIDE DEF p, m
    <3>5. /\ AllHeld' = [AllHeld EXCEPT ![r.depot] = @ - p]
          /\ AllMissing' = [AllMissing EXCEPT ![r.depot] = @ + m]
          /\ AllHeld[r.depot] = Held(r.depot)
      BY <3>2, <3>3 DEF AllHeld, AllMissing
    <3>6. /\ p <= AllHeld[r.depot]
          /\ m > 0 => p = AllHeld[r.depot]
      BY <3>4, <3>5
    <3>7. SB!First(r)
      BY <3>1 DEF First, SB!First
    <3>8. SB!Spend(r)
      BY <3>1, <3>4, <3>5, <3>6 DEF SB!Spend
    <3> QED
      BY <3>1, <3>7, <3>8 DEF SB!Next
  <2>4. ASSUME Consume \/ Settle PROVE UNCHANGED SB!bvars
    <3>1. todo' = todo
      BY <2>4 DEF Consume, Settle
    <3>2. \A d \in Depots : Held(d)' = Held(d) /\ Missing(d)' = Missing(d)
      BY <2>4, LoopHolds
    <3>3. AllHeld' = AllHeld /\ AllMissing' = AllMissing
      BY <3>2 DEF AllHeld, AllMissing
    <3> QED
      BY <3>1, <3>3 DEF SB!bvars
  <2>5. ASSUME UNCHANGED vars PROVE UNCHANGED SB!bvars
    BY <2>5 DEF vars, SB!bvars, AllHeld, AllMissing, Held, Missing, Open, Pending
  <2> QED
    BY <2>2, <2>3, <2>4, <2>5 DEF Next
<1> QED
  BY <1>1, <1>2, Inductive, PTL DEF Spec, ImplementsStackBalance, SB!Spec

-----------------------------------------------------------------------------
(* Snapshots.                                                              *)
(*                                                                         *)
(* ChartInv: the running totals of a depot are the sums over its lots by   *)
(* class; the queue of maturities names every lot once, in the order of    *)
(* their instants, and its head parts the long-term lots from the others;  *)
(* no lot and no maturity taken from the queue is later than the pass.     *)
(* OrderInv: the rows not yet done are those of the entries waiting and    *)
(* the fee under way, and, but for a tie of fees, come after those done.   *)
(* ChartAges is the counterpart of AgesInv, and ChartShort of the second   *)
(* half of SumInv: what the lots hold beyond what the rows done would      *)
(* leave is the worst shortfall so far.  At the end of a day they say what *)
(* the snapshot shows.                                                     *)

LeftsIn(L, long) == [i \in 1 .. Len(L) |-> IF L[i].long = long THEN L[i].left ELSE 0]

\* What is left by class is a natural, lot by lot and in all.
LEMMA LeftsByClass ==
  ASSUME NEW L, Lotted(L), NEW long
  PROVE  /\ LeftsIn(L, long) \in [1 .. Len(L) -> Nat] /\ IsFiniteSet(1 .. Len(L))
         /\ LeftIn(L, long) = Total(LeftsIn(L, long)) /\ LeftIn(L, long) \in Nat
<1>1. Len(L) \in Nat /\ IsFiniteSet(1 .. Len(L))
  BY FS_Interval DEF Lotted
<1>2. LeftsIn(L, long) \in [1 .. Len(L) -> Nat]
  BY DEF Lotted, LeftsIn
<1>3. LeftIn(L, long) = Total(LeftsIn(L, long))
  BY DEF LeftIn, LeftsIn
<1> QED
  BY <1>1, <1>2, <1>3, TotalIsNat

\* A lot more of a class.
LEMMA ClassAppended ==
  ASSUME NEW L, Lotted(L), NEW M, Lotted(M), Len(M) = Len(L) + 1,
         \A i \in 1 .. Len(L) : M[i] = L[i], NEW long
  PROVE  LET x == M[Len(L) + 1]
         IN  /\ x.long = long => LeftIn(M, long) = LeftIn(L, long) + x.left
             /\ x.long # long => LeftIn(M, long) = LeftIn(L, long)
<1> DEFINE n == Len(L)
           x == M[n + 1]
           f == LeftsIn(M, long)
           g == LeftsIn(L, long)
<1>1. /\ n \in Nat /\ f \in [1 .. n + 1 -> Nat] /\ g \in [1 .. n -> Nat]
      /\ LeftIn(L, long) = Total(g) /\ LeftIn(M, long) = Total(f)
  BY LeftsByClass DEF Lotted
<1>2. n + 1 \in 1 .. n + 1 /\ \A i \in 1 .. n : i \in 1 .. n + 1
  BY <1>1
<1>3. /\ x.long = long => f[n + 1] = x.left
      /\ x.long # long => f[n + 1] = 0
      /\ \A i \in 1 .. n : f[i] = g[i]
  BY <1>1, <1>2 DEF LeftsIn
<1>4. n \in Nat /\ f \in [1 .. n + 1 -> Nat] /\ g \in [1 .. n -> Nat] /\ \A i \in 1 .. n : f[i] = g[i]
  BY <1>1, <1>3
<1> HIDE DEF n, x, f, g
<1>5. Total(f) = Total(g) + f[n + 1] /\ Total(g) \in Nat
  BY <1>4, TotalAppended
<1>6. /\ x.long = long => LeftIn(M, long) = LeftIn(L, long) + x.left
      /\ x.long # long => LeftIn(M, long) = LeftIn(L, long)
  BY <1>1, <1>3, <1>5
<1> QED
  BY <1>6 DEF n, x

\* Something taken from a lot is taken from its class.
LEMMA ClassTaken ==
  ASSUME NEW L, Lotted(L), NEW M, Lotted(M), Len(M) = Len(L),
         NEW i \in 1 .. Len(L), NEW used \in Nat, used <= L[i].left,
         M[i].left = L[i].left - used, M[i].long = L[i].long,
         \A j \in 1 .. Len(L) \ {i} : M[j] = L[j], NEW long
  PROVE  /\ L[i].long = long => LeftIn(M, long) = LeftIn(L, long) - used
         /\ L[i].long # long => LeftIn(M, long) = LeftIn(L, long)
<1> DEFINE S == 1 .. Len(L)
           f == LeftsIn(L, long)
           g == LeftsIn(M, long)
<1>1. /\ IsFiniteSet(S) /\ f \in [S -> Nat] /\ g \in [S -> Nat]
      /\ LeftIn(L, long) = Total(f) /\ LeftIn(M, long) = Total(g)
  BY LeftsByClass
<1>2. /\ L[i].long = long => f[i] = L[i].left /\ g[i] = L[i].left - used
      /\ L[i].long # long => f[i] = 0 /\ g[i] = 0
  BY DEF LeftsIn
<1>3. /\ IsFiniteSet(S) /\ i \in S /\ f \in [S -> Nat] /\ g \in [S -> Nat]
      /\ \A j \in S \ {i} : g[j] = f[j]
  BY <1>1 DEF LeftsIn
<1>4. L[i].left \in Nat
  BY DEF Lotted
<1> HIDE DEF S, f, g
<1>5. /\ Total(g) = Total(f) + g[i] - f[i]
      /\ Total(f) \in Nat /\ Total(g) \in Nat
  BY <1>3, TotalChanged
<1> QED
  BY <1>1, <1>2, <1>4, <1>5

\* A lot that changes the class: what is left of it is added to the one it enters,
\* and subtracted from the one it leaves.
LEMMA ClassChanged ==
  ASSUME NEW L, Lotted(L), NEW M, Lotted(M), Len(M) = Len(L),
         NEW i \in 1 .. Len(L), M[i].left = L[i].left,
         \A j \in 1 .. Len(L) \ {i} : M[j] = L[j], NEW long
  PROVE  /\ L[i].long # long /\ M[i].long = long =>
              LeftIn(M, long) = LeftIn(L, long) + L[i].left
         /\ L[i].long = long /\ M[i].long # long =>
              LeftIn(M, long) = LeftIn(L, long) - L[i].left
         /\ M[i].long = L[i].long => LeftIn(M, long) = LeftIn(L, long)
<1> DEFINE S == 1 .. Len(L)
           f == LeftsIn(L, long)
           g == LeftsIn(M, long)
<1>1. /\ IsFiniteSet(S) /\ f \in [S -> Nat] /\ g \in [S -> Nat]
      /\ LeftIn(L, long) = Total(f) /\ LeftIn(M, long) = Total(g)
  BY LeftsByClass
<1>2. /\ L[i].long = long => f[i] = L[i].left
      /\ L[i].long # long => f[i] = 0
      /\ M[i].long = long => g[i] = L[i].left
      /\ M[i].long # long => g[i] = 0
  BY DEF LeftsIn
<1>3. /\ IsFiniteSet(S) /\ i \in S /\ f \in [S -> Nat] /\ g \in [S -> Nat]
      /\ \A j \in S \ {i} : g[j] = f[j]
  BY <1>1 DEF LeftsIn
<1>4. L[i].left \in Nat
  BY DEF Lotted
<1> HIDE DEF S, f, g
<1>5. /\ Total(g) = Total(f) + g[i] - f[i]
      /\ Total(f) \in Nat /\ Total(g) \in Nat /\ f[i] \in Nat /\ g[i] \in Nat
      /\ f[i] <= Total(f)
  BY <1>3, TotalChanged
<1> QED
  BY <1>1, <1>2, <1>4, <1>5

\* Lots of the chart are sequences of amounts and instants.
LEMMA ChartLotsAreLotted ==
  ASSUME NEW L \in Seq(ChartLot)
  PROVE  Lotted(L) /\ \A i \in 1 .. Len(L) : L[i] \in ChartLot
<1>1. Len(L) \in Nat
  BY LenProperties
<1>2. ASSUME NEW i \in 1 .. Len(L) PROVE L[i] \in ChartLot
  BY ElementOfSeq
<1> QED
  BY <1>1, <1>2 DEF Lotted, ChartLot

-----------------------------------------------------------------------------
\* One depot of the chart: its lots L and its cursor c.
ChartDepotOK(L, c) ==
    /\ c \in 1 .. Len(L) + 1
    /\ \A i \in 1 .. Len(L) : L[i].left = 0 <=> i < c
    /\ \A i, j \in 1 .. Len(L) : i < j => L[i].at <= L[j].at

\* Each of the lots LL has one place in the queue q, which is sorted, and is
\* long-term when the queue has passed it.
QueueFits(q, p, LL) ==
    /\ p <= Len(q) + 1
    /\ \A n \in 1 .. Len(q) :
          /\ q[n].depot \in Depots /\ q[n].lot \in 1 .. Len(LL[q[n].depot])
          /\ q[n].at = LL[q[n].depot][q[n].lot].at + Threshold
          /\ LL[q[n].depot][q[n].lot].long <=> n < p
    /\ \A n, k \in 1 .. Len(q) :
          n < k => /\ q[n].at <= q[k].at
                   /\ q[n].depot # q[k].depot \/ q[n].lot # q[k].lot
    /\ \A d \in Depots : \A i \in 1 .. Len(LL[d]) :
          \E n \in 1 .. Len(q) : q[n].depot = d /\ q[n].lot = i

QueueOK == QueueFits(due, position, chartLots)

\* The pass goes through time once.
TimeOK ==
    /\ \A d \in Depots : NotAfter(chartLots[d], asOf)
    /\ \A e \in waiting : asOf <= e.at
    /\ Day <= Len(DayEnds) => asOf <= Cutoff
    /\ \A n \in 1 .. Len(due) : n >= position => asOf < due[n].at
    /\ Between => \A n \in 1 .. Len(due) :
          n < position => due[n].at <= Cutoff /\ \A e \in waiting : due[n].at <= e.at
    /\ ~ Between => \A n \in 1 .. Len(due) : n < position => due[n].at <= asOf

\* The sums of lots L: all, the long-term ones, the others.
SumsAre(L, all, long, short) ==
    all = Total(Lefts(L)) /\ long = LeftIn(L, TRUE) /\ short = LeftIn(L, FALSE)

ChartSums(d) ==
    /\ SumsAre(chartLots[d], total[d], longTerm[d], shortTerm[d])
    /\ total[d] = longTerm[d] + shortTerm[d]

ChartInv ==
    /\ ChartTypeOK
    /\ chart \in ChartBooks
    /\ \A d \in Depots : ChartDepotOK(chartLots[d], chartCursor[d]) /\ ChartSums(d)
    /\ QueueOK
    /\ TimeOK

-----------------------------------------------------------------------------
(* What the steps of the chart do *)

\* Lot i of L becomes long-term.
Matured(L, i) == [L EXCEPT ![i].long = TRUE]

\* What Matured changes and what it keeps.
LEMMA MaturedProperties ==
  ASSUME NEW L \in Seq(ChartLot), NEW i \in 1 .. Len(L)
  PROVE  /\ Matured(L, i) \in Seq(ChartLot) /\ Len(Matured(L, i)) = Len(L)
         /\ Matured(L, i)[i].long = TRUE
         /\ \A j \in 1 .. Len(L) : Matured(L, i)[j].at = L[j].at /\ Matured(L, i)[j].left = L[j].left
         /\ \A j \in 1 .. Len(L) \ {i} : Matured(L, i)[j] = L[j]
<1> DEFINE y == [L[i] EXCEPT !.long = TRUE]
           M == [L EXCEPT ![i] = y]
<1>1. L[i] \in ChartLot
  BY ElementOfSeq
<1>2. y \in ChartLot /\ y.left = L[i].left /\ y.at = L[i].at /\ y.long = TRUE
  BY <1>1 DEF ChartLot
<1>3. Matured(L, i) = M
  BY DEF Matured
<1> HIDE DEF y
<1>4. M \in Seq(ChartLot) /\ Len(M) = Len(L)
  BY <1>2, ExceptSeq
<1>5. M[i] = y /\ \A j \in 1 .. Len(L) \ {i} : M[j] = L[j]
  BY ExceptSeq, <1>2
<1> QED
  BY <1>2, <1>3, <1>4, <1>5

\* What Taken changes and what it keeps, for the lots of the chart.
LEMMA ChartLotTaken ==
  ASSUME NEW L \in Seq(ChartLot), NEW i \in 1 .. Len(L), NEW used \in Nat, used <= L[i].left
  PROVE  /\ Taken(L, i, used) \in Seq(ChartLot) /\ Len(Taken(L, i, used)) = Len(L)
         /\ Taken(L, i, used)[i].left = L[i].left - used
         /\ \A j \in 1 .. Len(L) : Taken(L, i, used)[j].at = L[j].at
                                   /\ Taken(L, i, used)[j].long = L[j].long
         /\ \A j \in 1 .. Len(L) \ {i} : Taken(L, i, used)[j] = L[j]
<1> DEFINE y == [L[i] EXCEPT !.left = L[i].left - used]
           M == [L EXCEPT ![i] = y]
<1>1. L[i] \in ChartLot
  BY ElementOfSeq
<1>2. L[i].left - used \in Nat
  BY <1>1 DEF ChartLot
<1>3. y \in ChartLot /\ y.left = L[i].left - used /\ y.at = L[i].at /\ y.long = L[i].long
  BY <1>1, <1>2 DEF ChartLot
<1>4. Taken(L, i, used) = M
  BY DEF Taken
<1> HIDE DEF y
<1>5. M \in Seq(ChartLot) /\ Len(M) = Len(L)
  BY <1>3, ExceptSeq
<1>6. M[i] = y /\ \A j \in 1 .. Len(L) \ {i} : M[j] = L[j]
  BY ExceptSeq, <1>3
<1> QED
  BY <1>3, <1>4, <1>5, <1>6

\* The least of an instant and some others.
LEMMA LeastInstant ==
  ASSUME NEW c \in Nat, NEW E \in SUBSET Entry
  PROVE  LET least == Min({c} \cup {e.at : e \in E})
         IN  /\ least \in Nat /\ least <= c /\ \A e \in E : least <= e.at
             /\ least = c \/ \E e \in E : least = e.at
<1> DEFINE S == {c} \cup {e.at : e \in E}
<1>1. S \in SUBSET Nat /\ S # {}
  BY DEF Entry
<1>2. Min(S) \in S /\ \A y \in S : Min(S) <= y
  BY <1>1, LeastOf
<1> QED
  BY <1>1, <1>2

\* The instants of a day.
LEMMA DayProperties ==
  ASSUME ChartInv, Day <= Len(DayEnds)
  PROVE  /\ Day \in 1 .. Len(DayEnds) /\ Cutoff \in Nat
         /\ Now \in Nat /\ Now <= Cutoff /\ asOf <= Now /\ \A e \in waiting : Now <= e.at
         /\ (\A e \in waiting : e.at > Cutoff) => Now = Cutoff
<1>1. Len(shots) \in Nat /\ Len(DayEnds) \in Nat /\ asOf \in Nat
      /\ waiting \in SUBSET Entry
  BY DayAssumption, LenProperties DEF ChartInv, ChartTypeOK
<1>2. Day \in 1 .. Len(DayEnds)
  BY <1>1 DEF Day
<1>3. Cutoff \in Nat
  BY <1>2, DayAssumption, ElementOfSeq DEF Cutoff
<1>4. /\ Now \in Nat /\ Now <= Cutoff /\ \A e \in waiting : Now <= e.at
      /\ Now = Cutoff \/ \E e \in waiting : Now = e.at
  BY <1>1, <1>3, LeastInstant DEF Now
<1>5. asOf <= Cutoff /\ \A e \in waiting : asOf <= e.at
  BY DEF ChartInv, TimeOK
<1>6. \A e \in waiting : e.at \in Nat
  BY <1>1 DEF Entry
<1>7. asOf <= Now
  BY <1>4, <1>5
<1>8. (\A e \in waiting : e.at > Cutoff) => Now = Cutoff
  BY <1>3, <1>4, <1>6
<1> QED
  BY <1>2, <1>3, <1>4, <1>7, <1>8

\* What a lot becoming long-term changes.
LEMMA MatureEffect ==
  ASSUME ChartInv, Mature
  PROVE  LET d == due[position].depot
             i == due[position].lot
         IN /\ position \in 1 .. Len(due) /\ d \in Depots /\ i \in 1 .. Len(chartLots[d])
            /\ chartLots[d][i].long = FALSE
            /\ chartLots' = [chartLots EXCEPT ![d] = Matured(chartLots[d], i)]
            /\ longTerm' = [longTerm EXCEPT ![d] = longTerm[d] + chartLots[d][i].left]
            /\ shortTerm' = [shortTerm EXCEPT ![d] = shortTerm[d] - chartLots[d][i].left]
            /\ due[position].at <= Now
<1> DEFINE d == due[position].depot
           i == due[position].lot
<1>1. /\ due \in Seq(Maturity) /\ position \in Nat \ {0} /\ position <= Len(due)
      /\ chartLots \in [Depots -> Seq(ChartLot)]
      /\ longTerm \in [Depots -> Nat] /\ shortTerm \in [Depots -> Nat]
  BY DEF ChartInv, ChartTypeOK, Mature, RipeAt
<1>2. position \in 1 .. Len(due)
  BY <1>1, LenProperties
<1>3. due[position] \in Maturity
  BY <1>1, <1>2, ElementOfSeq
<1>4. d \in Depots
  BY <1>3 DEF Maturity
<1>5. i \in 1 .. Len(chartLots[d]) /\ (chartLots[d][i].long <=> position < position)
  BY <1>2 DEF ChartInv, QueueOK, QueueFits
<1>6. chartLots[d][i] \in ChartLot
  BY <1>1, <1>4, <1>5, ElementOfSeq
<1>7. chartLots[d][i].long = FALSE
  BY <1>1, <1>5, <1>6 DEF ChartLot
<1>8. /\ chartLots' = [chartLots EXCEPT ![d][i].long = TRUE]
      /\ longTerm' = [longTerm EXCEPT ![d] = @ + chartLots[d][i].left]
      /\ shortTerm' = [shortTerm EXCEPT ![d] = @ - chartLots[d][i].left]
      /\ due[position].at <= Now
  BY <1>7 DEF Mature, RipeAt
<1> HIDE DEF d, i
<1>9. /\ chartLots' = [chartLots EXCEPT ![d] = Matured(chartLots[d], i)]
      /\ longTerm' = [longTerm EXCEPT ![d] = longTerm[d] + chartLots[d][i].left]
      /\ shortTerm' = [shortTerm EXCEPT ![d] = shortTerm[d] - chartLots[d][i].left]
  BY <1>8 DEF Matured
<1> QED
  BY <1>2, <1>4, <1>5, <1>7, <1>8, <1>9 DEF d, i

\* What an acquisition changes.
LEMMA AddLotEffect ==
  ASSUME ChartInv, NEW e \in waiting, Process(e), AddLot(e)
  PROVE  LET d == e.depot
             L == chartLots[d]
         IN /\ d \in Depots /\ e \in Entry /\ debt = NoDebt /\ debt' = NoDebt
            /\ L \in Seq(ChartLot) /\ chartLots'[d] \in Seq(ChartLot)
            /\ Len(chartLots'[d]) = Len(L) + 1 /\ Len(L) \in Nat
            /\ \A j \in 1 .. Len(L) : chartLots'[d][j] = L[j]
            /\ LET x == chartLots'[d][Len(L) + 1]
               IN x.at = e.at /\ x.left = e.amount /\ x.long = FALSE
            /\ chartLots' \in [Depots -> Seq(ChartLot)]
            /\ \A b \in Depots \ {d} : chartLots'[b] = chartLots[b]
            /\ due' \in Seq(Maturity) /\ Len(due') = Len(due) + 1 /\ Len(due) \in Nat
            /\ \A n \in 1 .. Len(due) : due'[n] = due[n]
            /\ LET m == due'[Len(due) + 1]
               IN m.depot = d /\ m.lot = Len(L) + 1 /\ m.at = e.at + Threshold
<1> DEFINE d == e.depot
           L == chartLots[d]
           x == [at |-> e.at, left |-> e.amount, long |-> FALSE]
           m == [depot |-> d, lot |-> Len(L) + 1, at |-> e.at + Threshold]
<1>1. /\ e \in Entry /\ chartLots \in [Depots -> Seq(ChartLot)] /\ due \in Seq(Maturity)
      /\ chartLots' = [chartLots EXCEPT ![d] = Append(L, x)]
      /\ due' = Append(due, m) /\ debt = NoDebt /\ debt' = debt
  BY DEF ChartInv, ChartTypeOK, AddLot, Process, Between
<1>2. d \in Depots /\ e.at \in Nat /\ e.amount \in Nat /\ Threshold \in Nat
  BY <1>1, DayAssumption DEF Entry
<1>3. L \in Seq(ChartLot) /\ Len(L) \in Nat /\ Len(due) \in Nat
  BY <1>1, <1>2, LenProperties
<1>4. x \in ChartLot /\ m \in Maturity
  BY <1>2, <1>3 DEF ChartLot, Maturity
<1>5. x.at = e.at /\ x.left = e.amount /\ x.long = FALSE
      /\ m.depot = d /\ m.lot = Len(L) + 1 /\ m.at = e.at + Threshold
  OBVIOUS
<1> HIDE DEF x, m, L, d
<1>6. /\ Append(L, x) \in Seq(ChartLot) /\ Len(Append(L, x)) = Len(L) + 1
      /\ \A j \in 1 .. Len(L) : Append(L, x)[j] = L[j]
      /\ Append(L, x)[Len(L) + 1] = x
  BY <1>3, <1>4, AppendProperties
<1>7. /\ due' \in Seq(Maturity) /\ Len(due') = Len(due) + 1
      /\ \A n \in 1 .. Len(due) : due'[n] = due[n]
      /\ due'[Len(due) + 1] = m
  BY <1>1, <1>4, AppendProperties
<1>8. chartLots'[d] = Append(L, x) /\ \A b \in Depots \ {d} : chartLots'[b] = chartLots[b]
  BY <1>1, <1>2
<1>9. chartLots' \in [Depots -> Seq(ChartLot)]
  BY <1>1, <1>2, <1>6
<1> QED
  BY <1>1, <1>2, <1>3, <1>5, <1>6, <1>7, <1>8, <1>9 DEF L, d

\* What an iteration of the loop over the lots changes.
LEMMA TakeEffect ==
  ASSUME ChartInv, TakeFromLot
  PROVE  LET d == debt.depot
             i == chartCursor[d]
             L == chartLots[d]
             used == Least(L[i].left, owed)
         IN /\ debt \in Row /\ d \in Depots /\ L \in Seq(ChartLot) /\ i \in 1 .. Len(L)
            /\ used \in Nat /\ used <= L[i].left /\ used <= owed /\ L[i] \in ChartLot
            /\ chartLots' = [chartLots EXCEPT ![d] = Taken(L, i, used)]
            /\ chartCursor' = [chartCursor EXCEPT ![d] = Moved(L, i, used)]
            /\ owed' = owed - used
            /\ total' = [total EXCEPT ![d] = total[d] - used]
            /\ longTerm' = [longTerm EXCEPT ![d] =
                               IF L[i].long THEN longTerm[d] - used ELSE longTerm[d]]
            /\ shortTerm' = [shortTerm EXCEPT ![d] =
                               IF L[i].long THEN shortTerm[d] ELSE shortTerm[d] - used]
<1> DEFINE d == debt.depot
           i == chartCursor[d]
           L == chartLots[d]
           used == Least(L[i].left, owed)
<1>1. /\ debt \in Row /\ owed \in Nat
      /\ chartLots \in [Depots -> Seq(ChartLot)] /\ chartCursor \in [Depots -> Nat \ {0}]
  BY DEF ChartInv, ChartTypeOK, TakeFromLot
<1>2. d \in Depots
  BY <1>1 DEF Row
<1>3. L \in Seq(ChartLot) /\ Len(L) \in Nat
  BY <1>1, <1>2, LenProperties
<1>4. i \in 1 .. Len(L)
  BY <1>1, <1>2, <1>3 DEF TakeFromLot
<1>5. L[i] \in ChartLot
  BY <1>3, <1>4, ElementOfSeq
<1>6. L[i].left \in Nat
  BY <1>5 DEF ChartLot
<1>7. used \in Nat /\ used <= L[i].left /\ used <= owed
  BY <1>1, <1>6 DEF Least
<1>8. /\ chartLots' = [chartLots EXCEPT ![d][i].left = @ - used]
      /\ chartCursor' = [chartCursor EXCEPT ![d] = IF L[i].left = used THEN i + 1 ELSE i]
      /\ owed' = owed - used
      /\ total' = [total EXCEPT ![d] = @ - used]
      /\ longTerm' = [longTerm EXCEPT ![d] = IF L[i].long THEN @ - used ELSE @]
      /\ shortTerm' = [shortTerm EXCEPT ![d] = IF L[i].long THEN @ ELSE @ - used]
  BY DEF TakeFromLot
<1> HIDE DEF used
<1>9. chartLots' = [chartLots EXCEPT ![d] = Taken(L, i, used)]
  BY <1>8 DEF Taken
<1>10. chartCursor' = [chartCursor EXCEPT ![d] = Moved(L, i, used)]
  BY <1>8 DEF Moved
<1>11. /\ total' = [total EXCEPT ![d] = total[d] - used]
       /\ longTerm' = [longTerm EXCEPT ![d] = IF L[i].long THEN longTerm[d] - used ELSE longTerm[d]]
       /\ shortTerm' = [shortTerm EXCEPT ![d] = IF L[i].long THEN shortTerm[d] ELSE shortTerm[d] - used]
  BY <1>8
<1> QED
  BY <1>1, <1>2, <1>3, <1>4, <1>5, <1>7, <1>8, <1>9, <1>10, <1>11 DEF used

-----------------------------------------------------------------------------
(* One depot of the chart *)

\* The sums of the lots of the chart are naturals.
LEMMA SumsAreNat ==
  ASSUME NEW L \in Seq(ChartLot), NEW all, NEW long, NEW short, SumsAre(L, all, long, short)
  PROVE  all \in Nat /\ long \in Nat /\ short \in Nat
<1>1. Lotted(L)
  BY ChartLotsAreLotted
<1>2. LeftIn(L, TRUE) \in Nat
  BY <1>1, LeftsByClass
<1>3. LeftIn(L, FALSE) \in Nat
  BY <1>1, LeftsByClass
<1>4. Total(Lefts(L)) \in Nat
  <2>1. 0 \in Int
    OBVIOUS
  <2> QED
    BY <1>1, <2>1, LeftsByAge
<1> QED
  BY <1>2, <1>3, <1>4 DEF SumsAre

\* A lot becomes long-term: what is left of it changes the class.
LEMMA DepotMatured ==
  ASSUME NEW L \in Seq(ChartLot), NEW i \in 1 .. Len(L), L[i].long = FALSE, NEW c,
         ChartDepotOK(L, c),
         NEW all, NEW long, NEW short, SumsAre(L, all, long, short)
  PROVE  /\ ChartDepotOK(Matured(L, i), c)
         /\ SumsAre(Matured(L, i), all, long + L[i].left, short - L[i].left)
<1> DEFINE M == Matured(L, i)
<1>1. /\ M \in Seq(ChartLot) /\ Len(M) = Len(L) /\ M[i].long = TRUE
      /\ \A j \in 1 .. Len(L) : M[j].at = L[j].at /\ M[j].left = L[j].left
      /\ \A j \in 1 .. Len(L) \ {i} : M[j] = L[j]
  BY MaturedProperties
<1>2. Lotted(L) /\ Lotted(M)
  BY <1>1, ChartLotsAreLotted
<1> DEFINE t == TRUE
           f == FALSE
<1>3. M[i].long = t /\ L[i].long = f /\ t # f
  BY <1>1
<1> HIDE DEF M, t, f
<1>4. ChartDepotOK(M, c)
  BY <1>1 DEF ChartDepotOK
<1>5. Lefts(M) = Lefts(L)
  BY <1>1 DEF Lefts
<1>6. M[i].left = L[i].left /\ \A j \in 1 .. Len(L) \ {i} : M[j] = L[j]
  BY <1>1
<1>7. LeftIn(M, t) = LeftIn(L, t) + L[i].left
  <2>1. /\ Lotted(L) /\ Lotted(M) /\ Len(M) = Len(L) /\ M[i].left = L[i].left
        /\ \A j \in 1 .. Len(L) \ {i} : M[j] = L[j]
    BY <1>1, <1>2, <1>6
  <2>2. L[i].long # t /\ M[i].long = t
    BY <1>3
  <2> HIDE DEF SumsAre, ChartDepotOK
  <2>3. /\ L[i].long # t /\ M[i].long = t => LeftIn(M, t) = LeftIn(L, t) + L[i].left
        /\ L[i].long = t /\ M[i].long # t => LeftIn(M, t) = LeftIn(L, t) - L[i].left
        /\ M[i].long = L[i].long => LeftIn(M, t) = LeftIn(L, t)
    BY ONLY <2>1, i \in 1 .. Len(L), ClassChanged
  <2> QED
    BY <2>2, <2>3
<1>8. LeftIn(M, f) = LeftIn(L, f) - L[i].left
  <2>1. L[i].long = f /\ M[i].long # f
    BY <1>3
  <2> QED
    BY <1>1, <1>2, <1>6, <2>1, ClassChanged
<1>9. SumsAre(M, all, long + L[i].left, short - L[i].left)
  BY <1>5, <1>7, <1>8 DEF SumsAre, t, f
<1> QED
  BY <1>4, <1>9 DEF M

\* Something is taken from the lot at the cursor: it leaves the class of the lot.
LEMMA DepotTaken ==
  ASSUME NEW L \in Seq(ChartLot), NEW i \in 1 .. Len(L), ChartDepotOK(L, i),
         NEW used \in Nat, used <= L[i].left,
         NEW all, NEW long, NEW short, SumsAre(L, all, long, short)
  PROVE  /\ ChartDepotOK(Taken(L, i, used), Moved(L, i, used))
         /\ SumsAre(Taken(L, i, used), all - used,
                    IF L[i].long THEN long - used ELSE long,
                    IF L[i].long THEN short ELSE short - used)
         /\ used <= all
<1> DEFINE M == Taken(L, i, used)
           e == Moved(L, i, used)
           n == Len(L)
<1>1. /\ M \in Seq(ChartLot) /\ Len(M) = n /\ M[i].left = L[i].left - used
      /\ \A j \in 1 .. n : M[j].at = L[j].at /\ M[j].long = L[j].long
      /\ \A j \in 1 .. n \ {i} : M[j] = L[j]
      /\ n \in Nat
  BY ChartLotTaken, LenProperties
<1>2. Lotted(L) /\ Lotted(M) /\ L[i] \in ChartLot
  BY <1>1, ChartLotsAreLotted
<1>3. L[i].left \in Nat /\ L[i].long \in BOOLEAN
  BY <1>2 DEF ChartLot
<1>4. /\ e \in {i, i + 1}
      /\ e = i + 1 <=> L[i].left - used = 0
  BY <1>3 DEF Moved
<1>5. /\ \A j \in 1 .. n : L[j].left = 0 <=> j < i
      /\ \A j, k \in 1 .. n : j < k => L[j].at <= L[k].at
  BY DEF ChartDepotOK
<1> DEFINE t == TRUE
           f == FALSE
<1>6. (L[i].long = t \/ L[i].long = f) /\ t # f
  BY <1>3
<1>7. /\ L[i].long = t => L[i].long
      /\ L[i].long = f => ~ L[i].long
  OBVIOUS
<1> HIDE DEF M, e, n, t, f
<1>8. i \in 1 .. n /\ e \in 1 .. n + 1
  BY <1>1, <1>4 DEF n
<1>9. ASSUME NEW j \in 1 .. n
      PROVE  M[j].left = 0 <=> j < e
  <2>1. CASE j = i
    BY <2>1, <1>1, <1>4, <1>8
  <2>2. CASE j # i
    <3>1. M[j].left = 0 <=> j < i
      BY <2>2, <1>1, <1>5
    <3>2. j < e <=> j < i
      BY <2>2, <1>4, <1>8
    <3> QED
      BY <3>1, <3>2
  <2> QED
    BY <2>1, <2>2
<1>10. \A j, k \in 1 .. n : j < k => M[j].at <= M[k].at
  BY <1>1, <1>5
<1>11. ChartDepotOK(M, e)
  BY <1>1, <1>8, <1>9, <1>10 DEF ChartDepotOK
<1>12. /\ \A j \in 1 .. Len(L) \ {i} : M[j] = L[j]
       /\ \A j \in 1 .. Len(L) \ {i} : M[j].left = L[j].left
       /\ \A j \in 1 .. Len(L) : M[j].at = L[j].at
       /\ Len(M) = Len(L) /\ M[i].left = L[i].left - used /\ M[i].long = L[i].long
  BY <1>1, <1>8 DEF n
<1>13. Total(Lefts(M)) = Total(Lefts(L)) - used /\ used <= Total(Lefts(L))
  <2>1. 0 \in Int
    OBVIOUS
  <2> QED
    BY <1>2, <1>12, <2>1, AgesTaken
<1>14. /\ L[i].long = t => LeftIn(M, t) = LeftIn(L, t) - used
       /\ L[i].long # t => LeftIn(M, t) = LeftIn(L, t)
  <2>1. /\ Lotted(L) /\ Lotted(M) /\ Len(M) = Len(L) /\ M[i].left = L[i].left - used
        /\ M[i].long = L[i].long /\ \A j \in 1 .. Len(L) \ {i} : M[j] = L[j]
    BY <1>2, <1>12
  <2> QED
    BY ONLY <2>1, i \in 1 .. Len(L), used \in Nat, used <= L[i].left, ClassTaken
<1>15. /\ L[i].long = f => LeftIn(M, f) = LeftIn(L, f) - used
       /\ L[i].long # f => LeftIn(M, f) = LeftIn(L, f)
  BY <1>2, <1>12, ClassTaken
<1>16. all = Total(Lefts(L)) /\ long = LeftIn(L, t) /\ short = LeftIn(L, f)
  BY DEF SumsAre, t, f
<1>17. SumsAre(M, all - used, IF L[i].long THEN long - used ELSE long,
               IF L[i].long THEN short ELSE short - used)
  <2>1. CASE L[i].long = t
    <3>1. LeftIn(M, t) = long - used /\ LeftIn(M, f) = short /\ Total(Lefts(M)) = all - used
      BY <2>1, <1>6, <1>13, <1>14, <1>15, <1>16
    <3> QED
      BY <2>1, <1>7, <3>1 DEF SumsAre, t, f
  <2>2. CASE L[i].long = f
    <3>1. LeftIn(M, f) = short - used /\ LeftIn(M, t) = long /\ Total(Lefts(M)) = all - used
      BY <2>2, <1>6, <1>13, <1>14, <1>15, <1>16
    <3> QED
      BY <2>2, <1>7, <3>1 DEF SumsAre, t, f
  <2> QED
    BY <1>6, <2>1, <2>2
<1> QED
  BY <1>11, <1>13, <1>16, <1>17 DEF M, e

\* A lot more, which is short-term and not older than the others.
LEMMA DepotAppended ==
  ASSUME NEW L \in Seq(ChartLot), NEW c, ChartDepotOK(L, c), NEW M \in Seq(ChartLot),
         Len(M) = Len(L) + 1, \A j \in 1 .. Len(L) : M[j] = L[j],
         M[Len(L) + 1].long = FALSE, M[Len(L) + 1].left # 0,
         NotAfter(L, M[Len(L) + 1].at),
         NEW all, NEW long, NEW short, SumsAre(L, all, long, short)
  PROVE  /\ ChartDepotOK(M, c)
         /\ SumsAre(M, all + M[Len(L) + 1].left, long, short + M[Len(L) + 1].left)
<1> DEFINE n == Len(L)
           x == M[n + 1]
<1>1. /\ n \in Nat /\ Len(M) = n + 1 /\ c \in 1 .. n + 1
      /\ \A j \in 1 .. n : M[j] = L[j]
      /\ \A j \in 1 .. n : L[j].at <= x.at
      /\ \A j \in 1 .. n : L[j].left = 0 <=> j < c
      /\ \A j, k \in 1 .. n : j < k => L[j].at <= L[k].at
      /\ M[n + 1] = x /\ x.left # 0
  BY LenProperties DEF ChartDepotOK, NotAfter
<1>2. Lotted(L) /\ Lotted(M)
  BY ChartLotsAreLotted
<1>3. /\ Len(M) = Len(L) + 1 /\ \A j \in 1 .. Len(L) : M[j].at = L[j].at /\ M[j].left = L[j].left
      /\ M[Len(L) + 1] = x
  OBVIOUS
<1> DEFINE t == TRUE
           f == FALSE
<1>4. x.long = f /\ t # f
  OBVIOUS
<1>5. all = Total(Lefts(L)) /\ long = LeftIn(L, t) /\ short = LeftIn(L, f)
  BY DEF SumsAre
<1> HIDE DEF t, f, x
<1>6. Total(Lefts(M)) = Total(Lefts(L)) + x.left
  <2>1. 0 \in Int
    OBVIOUS
  <2> QED
    BY <1>2, <1>3, <2>1, AgesAppended
<1>7. LeftIn(M, t) = LeftIn(L, t)
  BY <1>2, <1>3, <1>4, ClassAppended
<1>8. LeftIn(M, f) = LeftIn(L, f) + x.left
  BY <1>2, <1>3, <1>4, ClassAppended
<1> HIDE DEF n
<1>9. ASSUME NEW j \in 1 .. n + 1
      PROVE  M[j].left = 0 <=> j < c
  <2>1. CASE j \in 1 .. n
    BY <2>1, <1>1
  <2>2. CASE j = n + 1
    BY <2>2, <1>1
  <2> QED
    BY <2>1, <2>2, <1>1
<1>10. ASSUME NEW j \in 1 .. n + 1, NEW k \in 1 .. n + 1, j < k
       PROVE  M[j].at <= M[k].at
  <2>1. j \in 1 .. n /\ M[j] = L[j]
    BY <1>1, <1>10
  <2>2. CASE k \in 1 .. n
    BY <2>1, <2>2, <1>1, <1>10
  <2>3. CASE k = n + 1
    BY <2>1, <2>3, <1>1
  <2> QED
    BY <2>2, <2>3, <1>1
<1>11. c \in 1 .. n + 1 + 1
  BY <1>1
<1>12. ChartDepotOK(M, c)
  BY <1>1, <1>9, <1>10, <1>11 DEF ChartDepotOK
<1>13. SumsAre(M, all + x.left, long, short + x.left)
  BY <1>5, <1>6, <1>7, <1>8 DEF SumsAre, t, f
<1> QED
  BY <1>12, <1>13 DEF x, n

LotsType ==
    /\ chartLots \in [Depots -> Seq(ChartLot)]
    /\ chartCursor \in [Depots -> Nat \ {0}]
    /\ total \in [Depots -> Nat]
    /\ longTerm \in [Depots -> Nat] /\ shortTerm \in [Depots -> Nat]

LotsOK == LotsType /\ \A d \in Depots : ChartDepotOK(chartLots[d], chartCursor[d]) /\ ChartSums(d)

\* A maturity keeps the sums.
LEMMA MatureLots ==
  ASSUME ChartInv, Mature
  PROVE  LotsOK'
<1> DEFINE d == due[position].depot
           i == due[position].lot
           L == chartLots[d]
           x == L[i].left
<1>1. /\ d \in Depots /\ i \in 1 .. Len(L) /\ L[i].long = FALSE
      /\ chartLots' = [chartLots EXCEPT ![d] = Matured(L, i)]
      /\ longTerm' = [longTerm EXCEPT ![d] = longTerm[d] + x]
      /\ shortTerm' = [shortTerm EXCEPT ![d] = shortTerm[d] - x]
      /\ chartCursor' = chartCursor /\ total' = total
  BY MatureEffect DEF Mature
<1>2. LotsType /\ \A b \in Depots : ChartDepotOK(chartLots[b], chartCursor[b]) /\ ChartSums(b)
  BY DEF ChartInv, ChartTypeOK, LotsType
<1> HIDE DEF d, i, x
<1>3. L \in Seq(ChartLot) /\ ChartDepotOK(L, chartCursor[d])
      /\ SumsAre(L, total[d], longTerm[d], shortTerm[d]) /\ total[d] = longTerm[d] + shortTerm[d]
      /\ total[d] \in Nat /\ longTerm[d] \in Nat /\ shortTerm[d] \in Nat
  BY <1>1, <1>2 DEF LotsType, ChartSums
<1>4. /\ ChartDepotOK(Matured(L, i), chartCursor[d])
      /\ SumsAre(Matured(L, i), total[d], longTerm[d] + x, shortTerm[d] - x)
  BY <1>1, <1>3, DepotMatured DEF x
<1>5. Matured(L, i) \in Seq(ChartLot)
  BY <1>1, <1>3, MaturedProperties
<1>6. longTerm[d] + x \in Nat /\ shortTerm[d] - x \in Nat
  BY <1>4, <1>5, SumsAreNat
<1> HIDE DEF L
<1>7. LotsType'
  BY <1>1, <1>2, <1>5, <1>6 DEF LotsType
<1>8. x \in Int
  <2>1. L[i] \in ChartLot
    BY <1>1, <1>3, ElementOfSeq
  <2> QED
    BY <2>1 DEF ChartLot, x
<1>9. total[d] = (longTerm[d] + x) + (shortTerm[d] - x)
  BY <1>3, <1>8
<1>10. /\ chartLots'[d] = Matured(L, i) /\ longTerm'[d] = longTerm[d] + x
       /\ shortTerm'[d] = shortTerm[d] - x
       /\ \A b \in Depots \ {d} : /\ chartLots'[b] = chartLots[b]
                                  /\ longTerm'[b] = longTerm[b] /\ shortTerm'[b] = shortTerm[b]
  BY <1>1, <1>2 DEF LotsType
<1>11. ASSUME NEW b \in Depots
       PROVE  (ChartDepotOK(chartLots[b], chartCursor[b]) /\ ChartSums(b))'
  <2>1. CASE b = d
    BY <2>1, <1>1, <1>4, <1>9, <1>10 DEF ChartSums
  <2>2. CASE b # d
    BY <2>2, <1>1, <1>2, <1>10 DEF ChartSums
  <2> QED
    BY <2>1, <2>2
<1> QED
  BY <1>7, <1>11 DEF LotsOK

\* An acquisition keeps the sums.
LEMMA AddLotLots ==
  ASSUME ChartInv, NEW e \in waiting, Process(e), AddLot(e)
  PROVE  LotsOK'
<1> DEFINE d == e.depot
           L == chartLots[d]
           M == chartLots'[d]
           x == e.amount
<1>1. /\ d \in Depots /\ e \in Entry
      /\ L \in Seq(ChartLot) /\ M \in Seq(ChartLot)
      /\ Len(M) = Len(L) + 1 /\ Len(L) \in Nat
      /\ \A j \in 1 .. Len(L) : M[j] = L[j]
      /\ M[Len(L) + 1].at = e.at /\ M[Len(L) + 1].left = x /\ M[Len(L) + 1].long = FALSE
      /\ chartLots' \in [Depots -> Seq(ChartLot)]
      /\ \A b \in Depots \ {d} : chartLots'[b] = chartLots[b]
  BY AddLotEffect
<1>2. /\ total' = [total EXCEPT ![d] = total[d] + x]
      /\ shortTerm' = [shortTerm EXCEPT ![d] = shortTerm[d] + x]
      /\ chartCursor' = chartCursor /\ longTerm' = longTerm
  BY DEF AddLot, Process
<1>3. LotsType /\ \A b \in Depots : ChartDepotOK(chartLots[b], chartCursor[b]) /\ ChartSums(b)
  BY DEF ChartInv, ChartTypeOK, LotsType
<1>4. x \in Nat \ {0} /\ e.at \in Nat
  BY <1>1 DEF Entry
<1>5. NotAfter(L, e.at)
  <2>1. NotAfter(L, asOf) /\ asOf <= e.at /\ asOf \in Nat
    BY <1>1 DEF ChartInv, TimeOK, ChartTypeOK
  <2>2. ASSUME NEW j \in 1 .. Len(L) PROVE L[j].at <= e.at
    <3>1. L[j] \in ChartLot
      BY <1>1, ElementOfSeq
    <3>2. L[j].at \in Nat
      BY <3>1 DEF ChartLot
    <3> QED
      BY <1>4, <2>1, <3>2 DEF NotAfter
  <2> QED
    BY <2>2 DEF NotAfter
<1> HIDE DEF d, x
<1>6. /\ ChartDepotOK(L, chartCursor[d])
      /\ SumsAre(L, total[d], longTerm[d], shortTerm[d]) /\ total[d] = longTerm[d] + shortTerm[d]
      /\ total[d] \in Nat /\ longTerm[d] \in Nat /\ shortTerm[d] \in Nat
  BY <1>1, <1>3 DEF LotsType, ChartSums
<1>7. /\ ChartDepotOK(M, chartCursor[d])
      /\ SumsAre(M, total[d] + x, longTerm[d], shortTerm[d] + x)
  <2>1. /\ M[Len(L) + 1].long = FALSE /\ M[Len(L) + 1].left # 0 /\ NotAfter(L, M[Len(L) + 1].at)
    BY <1>1, <1>4, <1>5
  <2>2. /\ ChartDepotOK(M, chartCursor[d])
        /\ SumsAre(M, total[d] + M[Len(L) + 1].left, longTerm[d], shortTerm[d] + M[Len(L) + 1].left)
    BY <1>1, <1>6, <2>1, DepotAppended
  <2> QED
    BY <1>1, <2>2
<1> HIDE DEF L, M
<1>8. LotsType'
  <2>1. total[d] + x \in Nat /\ shortTerm[d] + x \in Nat
    BY <1>4, <1>6
  <2>2. /\ total \in [Depots -> Nat] /\ longTerm \in [Depots -> Nat]
        /\ shortTerm \in [Depots -> Nat]
    BY <1>3 DEF LotsType
  <2>3. /\ total' \in [Depots -> Nat] /\ shortTerm' \in [Depots -> Nat]
        /\ longTerm' \in [Depots -> Nat]
    BY <1>2, <2>1, <2>2
  <2> QED
    BY <1>1, <1>2, <1>3, <2>3 DEF LotsType
<1>9. total[d] + x = longTerm[d] + (shortTerm[d] + x)
  BY <1>4, <1>6
<1>10. /\ total'[d] = total[d] + x /\ shortTerm'[d] = shortTerm[d] + x
       /\ \A b \in Depots \ {d} : total'[b] = total[b] /\ shortTerm'[b] = shortTerm[b]
  BY <1>1, <1>2, <1>3 DEF LotsType
<1>11. ASSUME NEW b \in Depots
       PROVE  (ChartDepotOK(chartLots[b], chartCursor[b]) /\ ChartSums(b))'
  <2>1. CASE b = d
    <3>1. chartLots'[b] = M
      BY <2>1 DEF M
    <3> QED
      BY <2>1, <3>1, <1>2, <1>7, <1>9, <1>10 DEF ChartSums
  <2>2. CASE b # d
    BY <2>2, <1>1, <1>2, <1>3, <1>10 DEF ChartSums
  <2> QED
    BY <2>1, <2>2
<1> QED
  BY <1>8, <1>11 DEF LotsOK

\* A disposal keeps the sums.
LEMMA TakeLots ==
  ASSUME ChartInv, TakeFromLot
  PROVE  LotsOK'
<1> DEFINE d == debt.depot
           i == chartCursor[d]
           L == chartLots[d]
           used == Least(L[i].left, owed)
           M == Taken(L, i, used)
           c == Moved(L, i, used)
           long == IF L[i].long THEN longTerm[d] - used ELSE longTerm[d]
           short == IF L[i].long THEN shortTerm[d] ELSE shortTerm[d] - used
<1>1. /\ d \in Depots /\ L \in Seq(ChartLot) /\ i \in 1 .. Len(L)
      /\ used \in Nat /\ used <= L[i].left
      /\ chartLots' = [chartLots EXCEPT ![d] = M]
      /\ chartCursor' = [chartCursor EXCEPT ![d] = c]
      /\ total' = [total EXCEPT ![d] = total[d] - used]
      /\ longTerm' = [longTerm EXCEPT ![d] = long]
      /\ shortTerm' = [shortTerm EXCEPT ![d] = short]
  BY TakeEffect
<1>2. LotsType /\ \A b \in Depots : ChartDepotOK(chartLots[b], chartCursor[b]) /\ ChartSums(b)
  BY DEF ChartInv, ChartTypeOK, LotsType
<1>3. /\ ChartDepotOK(L, i)
      /\ SumsAre(L, total[d], longTerm[d], shortTerm[d]) /\ total[d] = longTerm[d] + shortTerm[d]
      /\ total[d] \in Nat /\ longTerm[d] \in Nat /\ shortTerm[d] \in Nat
  BY <1>1, <1>2 DEF LotsType, ChartSums
<1> HIDE DEF used, L, i
<1>4. ChartDepotOK(M, c) /\ SumsAre(M, total[d] - used, long, short)
  BY <1>1, <1>3, DepotTaken
<1>5. M \in Seq(ChartLot)
  BY <1>1, ChartLotTaken
<1>6. total[d] - used \in Nat /\ long \in Nat /\ short \in Nat
  <2> HIDE DEF long, short, M, c
  <2> QED
    BY <1>4, <1>5, SumsAreNat
<1>7. total[d] - used = long + short
  <2>1. CASE L[i].long
    BY <1>1, <1>3, <2>1
  <2>2. CASE ~ L[i].long
    BY <1>1, <1>3, <2>2
  <2> QED
    BY <2>1, <2>2
<1>8. c \in Nat \ {0}
  <2>1. Len(L) \in Nat
    BY <1>1, LenProperties
  <2> QED
    BY <1>1, <2>1 DEF Moved
<1> HIDE DEF d, M, c, long, short
<1>9. LotsType'
  BY <1>1, <1>2, <1>5, <1>6, <1>8 DEF LotsType
<1>10. /\ chartLots'[d] = M /\ chartCursor'[d] = c
       /\ total'[d] = total[d] - used /\ longTerm'[d] = long /\ shortTerm'[d] = short
       /\ \A b \in Depots \ {d} : /\ chartLots'[b] = chartLots[b] /\ chartCursor'[b] = chartCursor[b]
                                  /\ total'[b] = total[b]
                                  /\ longTerm'[b] = longTerm[b] /\ shortTerm'[b] = shortTerm[b]
  BY <1>1, <1>2 DEF LotsType
<1>11. ASSUME NEW b \in Depots
       PROVE  (ChartDepotOK(chartLots[b], chartCursor[b]) /\ ChartSums(b))'
  <2>1. CASE b = d
    BY <2>1, <1>4, <1>7, <1>10 DEF ChartSums
  <2>2. CASE b # d
    BY <2>2, <1>2, <1>10 DEF ChartSums
  <2> QED
    BY <2>1, <2>2
<1> QED
  BY <1>9, <1>11 DEF LotsOK

\* Every step keeps the sums.
LEMMA LotsStay ==
  ASSUME ChartInv, [ChartNext]_chartVars
  PROVE  LotsOK'
<1>1. CASE UNCHANGED <<chartLots, chartCursor, total, longTerm, shortTerm>>
  <2>1. LotsOK
    BY DEF ChartInv, ChartTypeOK, LotsType, LotsOK
  <2> QED
    BY <1>1, <2>1 DEF LotsOK, LotsType, ChartSums
<1>2. CASE Mature
  BY <1>2, MatureLots
<1>3. ASSUME NEW e \in waiting, Process(e) PROVE LotsOK'
  <2>1. CASE AddLot(e)
    BY <1>3, <2>1, AddLotLots
  <2>2. CASE StartDisposal(e)
    BY <1>3, <2>2, <1>1 DEF StartDisposal, Process
  <2> QED
    BY <1>3, <2>1, <2>2 DEF Process
<1>4. CASE TakeFromLot
  BY <1>4, TakeLots
<1>5. CASE StartFee \/ EndDisposal \/ EndDay \/ UNCHANGED chartVars
  BY <1>1, <1>5 DEF StartFee, EndDisposal, EndDay, chartVars
<1> QED
  BY <1>2, <1>3, <1>4, <1>5 DEF ChartNext

\* Every step keeps the types.
LEMMA ChartTypeStays ==
  ASSUME ChartInv, [ChartNext]_chartVars
  PROVE  ChartTypeOK' /\ chart' = chart
<1>1. LotsType'
  BY LotsStay DEF LotsOK
<1>2. /\ chart \subseteq Entry /\ waiting \subseteq chart
      /\ due \in Seq(Maturity) /\ position \in Nat \ {0}
      /\ debt \in Row \cup {NoDebt} /\ fee \in Row \cup {NoDebt}
      /\ owed \in Nat /\ asOf \in Nat /\ shots \in Seq(Shot)
      /\ total \in [Depots -> Nat] /\ longTerm \in [Depots -> Nat]
  BY DEF ChartInv, ChartTypeOK
<1> DEFINE Rest == /\ chart' = chart /\ waiting' \subseteq chart
                   /\ due' \in Seq(Maturity) /\ position' \in Nat \ {0}
                   /\ debt' \in Row \cup {NoDebt} /\ fee' \in Row \cup {NoDebt}
                   /\ owed' \in Nat /\ asOf' \in Nat /\ shots' \in Seq(Shot)
<1>3. SUFFICES Rest
  BY <1>1, <1>2 DEF ChartTypeOK, LotsType
<1>4. CASE Mature
  BY <1>2, <1>4 DEF Mature
<1>5. ASSUME NEW e \in waiting, Process(e) PROVE Rest
  <2>1. e \in Entry /\ e.at \in Nat /\ e.amount \in Nat
    BY <1>2 DEF Entry
  <2>2. fee' \in Row \cup {NoDebt}
    <3>1. e.fee > 0 => FeeRow(e) \in Row
      BY <2>1 DEF Entry, Row, FeeRow
    <3> QED
      BY <1>5, <3>1 DEF Process
  <2>3. EntryRow(e) \in Row
    BY <2>1 DEF Entry, Row, EntryRow
  <2>4. /\ chart' = chart /\ waiting' \subseteq chart /\ position' = position /\ shots' = shots
        /\ asOf' = e.at
    BY <1>2, <1>5 DEF Process
  <2>5. CASE AddLot(e)
    <3>1. due' \in Seq(Maturity)
      BY <1>5, <2>5, AddLotEffect
    <3> QED
      BY <1>2, <2>1, <2>2, <2>4, <2>5, <3>1 DEF AddLot
  <2>6. CASE StartDisposal(e)
    BY <1>2, <2>1, <2>2, <2>3, <2>4, <2>6 DEF StartDisposal
  <2> QED
    BY <1>5, <2>5, <2>6 DEF Process
<1>6. CASE StartFee
  <2>1. fee \in Row /\ fee.amount \in Nat
    BY <1>2, <1>6 DEF StartFee, Row
  <2> QED
    BY <1>2, <1>6, <2>1 DEF StartFee
<1>7. CASE TakeFromLot
  <2>1. owed' \in Nat
    <3> DEFINE used == Least(chartLots[debt.depot][chartCursor[debt.depot]].left, owed)
    <3>1. used \in Nat /\ used <= owed /\ owed' = owed - used
      BY <1>7, TakeEffect
    <3> HIDE DEF used
    <3> QED
      BY <1>2, <3>1
  <2> QED
    BY <1>2, <1>7, <2>1 DEF TakeFromLot
<1>8. CASE EndDisposal
  BY <1>2, <1>8 DEF EndDisposal
<1>9. CASE EndDay
  <2>1. asOf' = Cutoff /\ Cutoff \in Nat
    BY <1>9, DayProperties DEF EndDay, Between
  <2>2. [d \in Depots |-> [total |-> total[d], long |-> longTerm[d]]] \in Shot
    BY <1>2 DEF Shot
  <2>3. shots' \in Seq(Shot)
    BY <1>2, <1>9, <2>2, AppendProperties DEF EndDay
  <2> QED
    BY <1>2, <1>9, <2>1, <2>3 DEF EndDay
<1>10. CASE UNCHANGED chartVars
  BY <1>2, <1>10 DEF chartVars
<1> QED
  BY <1>4, <1>5, <1>6, <1>7, <1>8, <1>9, <1>10 DEF ChartNext

-----------------------------------------------------------------------------
(* The queue of maturities *)

\* Nothing the queue depends on is changed.
LEMMA QueueKept ==
  ASSUME NEW q, NEW p, NEW LL, QueueFits(q, p, LL), NEW MM,
         \A d \in Depots : /\ Len(MM[d]) = Len(LL[d])
                           /\ \A i \in 1 .. Len(LL[d]) :
                                 MM[d][i].at = LL[d][i].at /\ MM[d][i].long = LL[d][i].long
  PROVE  QueueFits(q, p, MM)
<1>1. ASSUME NEW n \in 1 .. Len(q)
      PROVE  /\ q[n].depot \in Depots /\ q[n].lot \in 1 .. Len(MM[q[n].depot])
             /\ q[n].at = MM[q[n].depot][q[n].lot].at + Threshold
             /\ MM[q[n].depot][q[n].lot].long <=> n < p
  <2> DEFINE d == q[n].depot
             i == q[n].lot
  <2>1. /\ d \in Depots /\ i \in 1 .. Len(LL[d])
        /\ q[n].at = LL[d][i].at + Threshold /\ (LL[d][i].long <=> n < p)
    BY DEF QueueFits
  <2> HIDE DEF d, i
  <2>2. /\ Len(MM[d]) = Len(LL[d])
        /\ MM[d][i].at = LL[d][i].at /\ MM[d][i].long = LL[d][i].long
    BY <2>1
  <2>3. /\ d \in Depots /\ i \in 1 .. Len(MM[d])
        /\ q[n].at = MM[d][i].at + Threshold /\ (MM[d][i].long <=> n < p)
    BY <2>1, <2>2
  <2> QED
    BY <2>3 DEF d, i
<1>2. ASSUME NEW d \in Depots, NEW i \in 1 .. Len(MM[d])
      PROVE  \E n \in 1 .. Len(q) : q[n].depot = d /\ q[n].lot = i
  <2>1. \A k \in 1 .. Len(LL[d]) : \E n \in 1 .. Len(q) : q[n].depot = d /\ q[n].lot = k
    BY DEF QueueFits
  <2>2. i \in 1 .. Len(LL[d])
    OBVIOUS
  <2> QED
    BY ONLY <2>1, <2>2
<1> QED
  BY <1>1, <1>2 DEF QueueFits

\* The lot at the head of the queue becomes long-term.
LEMMA QueueMatured ==
  ASSUME NEW q, NEW p \in 1 .. Len(q), Len(q) \in Nat, NEW LL, QueueFits(q, p, LL), NEW MM,
         \A d \in Depots \ {q[p].depot} : MM[d] = LL[d],
         Len(MM[q[p].depot]) = Len(LL[q[p].depot]),
         MM[q[p].depot][q[p].lot].long = TRUE,
         \A i \in 1 .. Len(LL[q[p].depot]) : MM[q[p].depot][i].at = LL[q[p].depot][i].at,
         \A i \in 1 .. Len(LL[q[p].depot]) \ {q[p].lot} : MM[q[p].depot][i] = LL[q[p].depot][i]
  PROVE  QueueFits(q, p + 1, MM)
<1> DEFINE e == q[p].depot
           k == q[p].lot
<1>1. ASSUME NEW n \in 1 .. Len(q)
      PROVE  /\ q[n].depot \in Depots /\ q[n].lot \in 1 .. Len(MM[q[n].depot])
             /\ q[n].at = MM[q[n].depot][q[n].lot].at + Threshold
             /\ MM[q[n].depot][q[n].lot].long <=> n < p + 1
  <2> DEFINE d == q[n].depot
             i == q[n].lot
  <2>1. /\ d \in Depots /\ i \in 1 .. Len(LL[d])
        /\ q[n].at = LL[d][i].at + Threshold /\ (LL[d][i].long <=> n < p)
    BY DEF QueueFits
  <2>2. n # p => d # e \/ i # k
    BY DEF QueueFits
  <2>3. n = p => d = e /\ i = k
    OBVIOUS
  <2>4. /\ \A b \in Depots \ {e} : MM[b] = LL[b]
        /\ Len(MM[e]) = Len(LL[e])
        /\ MM[e][k].long = TRUE
        /\ \A j \in 1 .. Len(LL[e]) : MM[e][j].at = LL[e][j].at
        /\ \A j \in 1 .. Len(LL[e]) \ {k} : MM[e][j] = LL[e][j]
    OBVIOUS
  <2> HIDE DEF d, i, e, k
  <2>5. CASE n = p
    <3>1. /\ d \in Depots /\ i \in 1 .. Len(MM[d]) /\ q[n].at = MM[d][i].at + Threshold
          /\ MM[d][i].long = TRUE
      BY <2>1, <2>3, <2>4, <2>5
    <3> QED
      BY <2>5, <3>1 DEF d, i
  <2>6. CASE n # p
    <3>1. Len(MM[d]) = Len(LL[d]) /\ MM[d][i] = LL[d][i]
      <4>1. CASE d = e
        BY <2>1, <2>2, <2>4, <2>6, <4>1
      <4>2. CASE d # e
        BY <2>1, <2>4, <4>2
      <4> QED
        BY <4>1, <4>2
    <3>2. n < p <=> n < p + 1
      BY <2>6
    <3>3. /\ d \in Depots /\ i \in 1 .. Len(MM[d]) /\ q[n].at = MM[d][i].at + Threshold
          /\ MM[d][i].long <=> n < p + 1
      BY <2>1, <3>1, <3>2
    <3> QED
      BY <3>3 DEF d, i
  <2> QED
    BY <2>5, <2>6
<1>2. \A d \in Depots : \A i \in 1 .. Len(MM[d]) :
         \E n \in 1 .. Len(q) : q[n].depot = d /\ q[n].lot = i
  <2>1. \A d \in Depots : Len(MM[d]) = Len(LL[d])
    OBVIOUS
  <2> QED
    BY <2>1 DEF QueueFits
<1>3. p + 1 <= Len(q) + 1
  OBVIOUS
<1> QED
  BY <1>1, <1>2, <1>3 DEF QueueFits

\* Depot e has a lot more, which is short-term, and the queue its maturity.
LotQueued(q, LL, MM, r, e) ==
    /\ e \in Depots /\ Len(LL[e]) \in Nat /\ Len(q) \in Nat
    /\ \A d \in Depots \ {e} : MM[d] = LL[d]
    /\ Len(MM[e]) = Len(LL[e]) + 1 /\ \A i \in 1 .. Len(LL[e]) : MM[e][i] = LL[e][i]
    /\ MM[e][Len(LL[e]) + 1].long = FALSE
    /\ Len(r) = Len(q) + 1 /\ \A n \in 1 .. Len(q) : r[n] = q[n]
    /\ r[Len(q) + 1].depot = e /\ r[Len(q) + 1].lot = Len(LL[e]) + 1
    /\ r[Len(q) + 1].at = MM[e][Len(LL[e]) + 1].at + Threshold
    /\ \A n \in 1 .. Len(q) : q[n].at <= r[Len(q) + 1].at

\* A lot more, and its place at the end of the queue.
LEMMA QueueAppended ==
  ASSUME NEW q, NEW p \in Nat, NEW LL, QueueFits(q, p, LL), NEW MM, NEW r, NEW e,
         LotQueued(q, LL, MM, r, e)
  PROVE  QueueFits(r, p, MM)
<1>1. /\ e \in Depots /\ Len(LL[e]) \in Nat /\ Len(q) \in Nat
      /\ \A d \in Depots \ {e} : MM[d] = LL[d]
      /\ Len(MM[e]) = Len(LL[e]) + 1 /\ \A i \in 1 .. Len(LL[e]) : MM[e][i] = LL[e][i]
      /\ MM[e][Len(LL[e]) + 1].long = FALSE
      /\ Len(r) = Len(q) + 1 /\ \A n \in 1 .. Len(q) : r[n] = q[n]
      /\ r[Len(q) + 1].depot = e /\ r[Len(q) + 1].lot = Len(LL[e]) + 1
      /\ r[Len(q) + 1].at = MM[e][Len(LL[e]) + 1].at + Threshold
      /\ \A n \in 1 .. Len(q) : q[n].at <= r[Len(q) + 1].at
  BY DEF LotQueued
<1> DEFINE l == Len(q)
           k == Len(LL[e]) + 1
<1>2. ASSUME NEW n \in 1 .. l
      PROVE  /\ r[n].depot \in Depots /\ r[n].lot \in 1 .. Len(MM[r[n].depot])
             /\ r[n].at = MM[r[n].depot][r[n].lot].at + Threshold
             /\ MM[r[n].depot][r[n].lot].long <=> n < p
             /\ r[n].depot # e \/ r[n].lot # k
  <2> DEFINE d == q[n].depot
             i == q[n].lot
  <2>1. /\ d \in Depots /\ i \in 1 .. Len(LL[d])
        /\ q[n].at = LL[d][i].at + Threshold /\ (LL[d][i].long <=> n < p)
        /\ r[n] = q[n]
    BY <1>1 DEF QueueFits
  <2> HIDE DEF d, i
  <2>2. i \in 1 .. Len(MM[d]) /\ MM[d][i] = LL[d][i]
    <3>1. CASE d = e
      BY <1>1, <2>1, <3>1
    <3>2. CASE d # e
      BY <1>1, <2>1, <3>2
    <3> QED
      BY <3>1, <3>2
  <2>3. d # e \/ i # k
    BY <1>1, <2>1
  <2>4. /\ d \in Depots /\ i \in 1 .. Len(MM[d])
        /\ r[n].at = MM[d][i].at + Threshold /\ (MM[d][i].long <=> n < p)
    BY <2>1, <2>2
  <2>5. r[n].depot = d /\ r[n].lot = i
    BY <2>1 DEF d, i
  <2> QED
    BY <2>3, <2>4, <2>5
<1>3. p <= l + 1
  BY DEF QueueFits
<1>4. /\ r[l + 1].depot = e /\ r[l + 1].lot = k /\ r[l + 1].at = MM[e][k].at + Threshold
      /\ MM[e][k].long = FALSE /\ k \in 1 .. Len(MM[e]) /\ l \in Nat /\ Len(r) = l + 1
      /\ \A n \in 1 .. l : r[n].at <= r[l + 1].at
  BY <1>1
<1>5. \A n, j \in 1 .. l : n < j => /\ r[n].at <= r[j].at
                                    /\ r[n].depot # r[j].depot \/ r[n].lot # r[j].lot
  BY <1>1 DEF QueueFits
<1>6. ASSUME NEW d \in Depots, NEW i \in 1 .. Len(MM[d])
      PROVE  \E n \in 1 .. l + 1 : r[n].depot = d /\ r[n].lot = i
  <2>1. CASE d = e /\ i = k
    BY <1>4, <2>1
  <2>2. CASE ~ (d = e /\ i = k)
    <3>1. i \in 1 .. Len(LL[d])
      <4>1. CASE d = e
        BY <1>1, <2>2, <4>1
      <4>2. CASE d # e
        BY <1>1, <4>2
      <4> QED
        BY <4>1, <4>2
    <3>2. PICK n \in 1 .. l : q[n].depot = d /\ q[n].lot = i
      BY <3>1 DEF QueueFits
    <3>3. r[n].depot = d /\ r[n].lot = i /\ n \in 1 .. l + 1
      BY <1>1, <3>2
    <3> QED
      BY <3>3
  <2> QED
    BY <2>1, <2>2
<1> HIDE DEF l, k
<1>7. ASSUME NEW n \in 1 .. l + 1
      PROVE  /\ r[n].depot \in Depots /\ r[n].lot \in 1 .. Len(MM[r[n].depot])
             /\ r[n].at = MM[r[n].depot][r[n].lot].at + Threshold
             /\ MM[r[n].depot][r[n].lot].long <=> n < p
  <2>1. CASE n \in 1 .. l
    BY <1>2, <2>1
  <2>2. CASE n = l + 1
    <3>1. ~ (n < p) /\ ~ MM[e][k].long /\ r[n].depot = e /\ r[n].lot = k
      BY <1>3, <1>4, <2>2
    <3> HIDE DEF k
    <3> QED
      BY <1>1, <1>4, <2>2, <3>1
  <2> QED
    BY <1>4, <2>1, <2>2
<1>8. ASSUME NEW n \in 1 .. l + 1, NEW j \in 1 .. l + 1, n < j
      PROVE  /\ r[n].at <= r[j].at
             /\ r[n].depot # r[j].depot \/ r[n].lot # r[j].lot
  <2>1. n \in 1 .. l
    BY <1>4, <1>8
  <2>2. CASE j \in 1 .. l
    BY <1>5, <1>8, <2>1, <2>2
  <2>3. CASE j = l + 1
    BY <1>2, <1>4, <2>1, <2>3
  <2> QED
    BY <1>4, <2>2, <2>3
<1>9. p <= l + 1 + 1
  BY <1>3, <1>4
<1>10. Len(r) = l + 1
  BY <1>4
<1> QED
  BY <1>6, <1>7, <1>8, <1>9, <1>10 DEF QueueFits

\* A disposal changes neither the instants of the lots nor their class.
LEMMA TakeKeepsAges ==
  ASSUME ChartInv, TakeFromLot
  PROVE  \A d \in Depots : /\ Len(chartLots'[d]) = Len(chartLots[d])
                           /\ \A i \in 1 .. Len(chartLots[d]) :
                                 /\ chartLots'[d][i].at = chartLots[d][i].at
                                 /\ chartLots'[d][i].long = chartLots[d][i].long
<1> DEFINE d == debt.depot
           i == chartCursor[d]
           L == chartLots[d]
           used == Least(L[i].left, owed)
           M == Taken(L, i, used)
<1>1. /\ d \in Depots /\ L \in Seq(ChartLot) /\ i \in 1 .. Len(L)
      /\ used \in Nat /\ used <= L[i].left
      /\ chartLots' = [chartLots EXCEPT ![d] = M]
  BY TakeEffect
<1>2. chartLots \in [Depots -> Seq(ChartLot)]
  BY DEF ChartInv, ChartTypeOK
<1> HIDE DEF used, i, L
<1>3. Len(M) = Len(L) /\ \A j \in 1 .. Len(L) : M[j].at = L[j].at /\ M[j].long = L[j].long
  BY <1>1, ChartLotTaken
<1> HIDE DEF M, d
<1>4. chartLots'[d] = M /\ \A b \in Depots \ {d} : chartLots'[b] = chartLots[b]
  BY <1>1, <1>2
<1>5. ASSUME NEW b \in Depots
      PROVE  /\ Len(chartLots'[b]) = Len(chartLots[b])
             /\ \A j \in 1 .. Len(chartLots[b]) :
                   /\ chartLots'[b][j].at = chartLots[b][j].at
                   /\ chartLots'[b][j].long = chartLots[b][j].long
  <2>1. CASE b = d
    BY <1>3, <1>4, <2>1 DEF L
  <2>2. CASE b # d
    BY <1>4, <2>2
  <2> QED
    BY <2>1, <2>2
<1> QED
  BY <1>5

\* A maturity changes neither the number of the lots nor their instants and amounts.
LEMMA MatureKeepsAges ==
  ASSUME ChartInv, Mature
  PROVE  \A d \in Depots : /\ Len(chartLots'[d]) = Len(chartLots[d])
                           /\ \A i \in 1 .. Len(chartLots[d]) :
                                 /\ chartLots'[d][i].at = chartLots[d][i].at
                                 /\ chartLots'[d][i].left = chartLots[d][i].left
<1> DEFINE d == due[position].depot
           i == due[position].lot
           L == chartLots[d]
           M == Matured(L, i)
<1>1. d \in Depots /\ i \in 1 .. Len(L) /\ chartLots' = [chartLots EXCEPT ![d] = M]
  BY MatureEffect
<1>2. chartLots \in [Depots -> Seq(ChartLot)]
  BY DEF ChartInv, ChartTypeOK
<1>3. L \in Seq(ChartLot)
  BY <1>1, <1>2
<1> HIDE DEF i, L
<1>4. Len(M) = Len(L) /\ \A j \in 1 .. Len(L) : M[j].at = L[j].at /\ M[j].left = L[j].left
  BY <1>1, <1>3, MaturedProperties
<1> HIDE DEF M, d
<1>5. chartLots'[d] = M /\ \A b \in Depots \ {d} : chartLots'[b] = chartLots[b]
  BY <1>1, <1>2
<1>6. ASSUME NEW b \in Depots
      PROVE  /\ Len(chartLots'[b]) = Len(chartLots[b])
             /\ \A j \in 1 .. Len(chartLots[b]) :
                   /\ chartLots'[b][j].at = chartLots[b][j].at
                   /\ chartLots'[b][j].left = chartLots[b][j].left
  <2>1. CASE b = d
    BY <1>4, <1>5, <2>1 DEF L
  <2>2. CASE b # d
    BY <1>5, <2>2
  <2> QED
    BY <2>1, <2>2
<1> QED
  BY <1>6

\* No lot matures earlier than it was acquired, and none is newer than asOf.
LEMMA DueIn ==
  ASSUME ChartInv, NEW n \in 1 .. Len(due)
  PROVE  due[n].at \in Nat /\ due[n].at <= asOf + Threshold /\ due[n].depot \in Depots
<1> DEFINE d == due[n].depot
           i == due[n].lot
<1>1. d \in Depots /\ i \in 1 .. Len(chartLots[d]) /\ due[n].at = chartLots[d][i].at + Threshold
  BY DEF ChartInv, QueueOK, QueueFits
<1>2. chartLots[d][i] \in ChartLot
  <2>1. chartLots[d] \in Seq(ChartLot)
    BY <1>1 DEF ChartInv, ChartTypeOK
  <2> QED
    BY <1>1, <2>1, ElementOfSeq
<1>3. chartLots[d][i].at \in Nat
  BY <1>2 DEF ChartLot
<1>4. chartLots[d][i].at <= asOf /\ asOf \in Nat /\ Threshold \in Nat
  BY <1>1, DayAssumption DEF ChartInv, TimeOK, NotAfter, ChartTypeOK
<1> DEFINE z == chartLots[d][i].at
<1>5. z \in Nat /\ z <= asOf /\ asOf \in Nat /\ Threshold \in Nat /\ due[n].at = z + Threshold
  BY <1>1, <1>3, <1>4
<1>6. due[n].depot \in Depots
  BY <1>1
<1> HIDE DEF z, d, i
<1> QED
  BY <1>5, <1>6

\* Every step keeps the queue.
LEMMA QueueStays ==
  ASSUME ChartInv, [ChartNext]_chartVars
  PROVE  QueueOK'
<1>1. /\ QueueFits(due, position, chartLots) /\ position \in Nat /\ Len(due) \in Nat
      /\ chartLots \in [Depots -> Seq(ChartLot)] /\ asOf \in Nat /\ Threshold \in Nat
      /\ waiting \in SUBSET Entry
  BY LenProperties, DayAssumption DEF ChartInv, ChartTypeOK, QueueOK
<1> SUFFICES QueueFits(due', position', chartLots')
  BY DEF QueueOK
<1>2. CASE UNCHANGED <<due, position, chartLots>>
  BY <1>1, <1>2
<1>3. CASE Mature
  <2> DEFINE d == due[position].depot
             i == due[position].lot
             M == Matured(chartLots[d], i)
  <2>1. /\ position \in 1 .. Len(due) /\ d \in Depots /\ i \in 1 .. Len(chartLots[d])
        /\ chartLots' = [chartLots EXCEPT ![d] = M]
    BY <1>3, MatureEffect
  <2>2. chartLots[d] \in Seq(ChartLot)
    BY <1>1, <2>1
  <2>3. /\ Len(M) = Len(chartLots[d]) /\ M[i].long = TRUE
        /\ \A j \in 1 .. Len(chartLots[d]) : M[j].at = chartLots[d][j].at
        /\ \A j \in 1 .. Len(chartLots[d]) \ {i} : M[j] = chartLots[d][j]
    BY <2>1, <2>2, MaturedProperties
  <2> HIDE DEF M
  <2>4. chartLots'[d] = M /\ \A b \in Depots \ {d} : chartLots'[b] = chartLots[b]
    BY <1>1, <2>1
  <2>5. /\ \A b \in Depots \ {d} : chartLots'[b] = chartLots[b]
        /\ Len(chartLots'[d]) = Len(chartLots[d]) /\ chartLots'[d][i].long = TRUE
        /\ \A j \in 1 .. Len(chartLots[d]) : chartLots'[d][j].at = chartLots[d][j].at
        /\ \A j \in 1 .. Len(chartLots[d]) \ {i} : chartLots'[d][j] = chartLots[d][j]
    BY <2>3, <2>4
  <2>6. QueueFits(due, position + 1, chartLots')
    BY <1>1, <2>1, <2>5, QueueMatured
  <2> QED
    BY <1>3, <2>6 DEF Mature
<1>4. ASSUME NEW e \in waiting, Process(e) PROVE QueueFits(due', position', chartLots')
  <2>1. CASE AddLot(e)
    <3> DEFINE d == e.depot
               L == chartLots[d]
               M == chartLots'[d]
    <3>1. /\ d \in Depots
          /\ Len(M) = Len(L) + 1 /\ Len(L) \in Nat
          /\ \A j \in 1 .. Len(L) : M[j] = L[j]
          /\ M[Len(L) + 1].at = e.at /\ M[Len(L) + 1].long = FALSE
          /\ \A b \in Depots \ {d} : chartLots'[b] = chartLots[b]
          /\ Len(due') = Len(due) + 1
          /\ \A n \in 1 .. Len(due) : due'[n] = due[n]
          /\ due'[Len(due) + 1].depot = d /\ due'[Len(due) + 1].lot = Len(L) + 1
          /\ due'[Len(due) + 1].at = e.at + Threshold
      BY <1>4, <2>1, AddLotEffect
    <3>2. asOf <= e.at /\ e.at \in Nat
      BY <1>1 DEF ChartInv, TimeOK, Entry
    <3>3. \A n \in 1 .. Len(due) : due[n].at <= due'[Len(due) + 1].at
      <4>1. ASSUME NEW n \in 1 .. Len(due) PROVE due[n].at <= e.at + Threshold
        <5>1. due[n].at \in Nat /\ due[n].at <= asOf + Threshold
          BY DueIn
        <5> QED
          BY <1>1, <3>2, <5>1
      <4> QED
        BY <3>1, <4>1
    <3>4. position' = position
      BY <1>4 DEF Process
    <3>5. due'[Len(due) + 1].at = M[Len(L) + 1].at + Threshold
      BY <3>1
    <3> HIDE DEF d
    <3>6. LotQueued(due, chartLots, chartLots', due', d)
      BY <1>1, <3>1, <3>3, <3>5 DEF LotQueued
    <3>7. QueueFits(due', position, chartLots')
      BY <1>1, <3>6, QueueAppended
    <3> QED
      BY <3>4, <3>7
  <2>2. CASE StartDisposal(e)
    BY <1>2, <1>4, <2>2 DEF StartDisposal, Process
  <2> QED
    BY <1>4, <2>1, <2>2 DEF Process
<1>5. CASE TakeFromLot
  <2>1. QueueFits(due, position, chartLots')
    BY <1>1, <1>5, TakeKeepsAges, QueueKept
  <2> QED
    BY <1>5, <2>1 DEF TakeFromLot
<1>6. CASE StartFee \/ EndDisposal \/ EndDay \/ UNCHANGED chartVars
  BY <1>2, <1>6 DEF StartFee, EndDisposal, EndDay, chartVars
<1> QED
  BY <1>3, <1>4, <1>5, <1>6 DEF ChartNext

-----------------------------------------------------------------------------
(* Instants *)

\* When the head of the queue is not due, nothing behind it is.
LEMMA NoneRipe ==
  ASSUME ChartInv, NEW t \in Nat, ~ RipeAt(t)
  PROVE  \A n \in 1 .. Len(due) : n >= position => t < due[n].at
<1> SUFFICES ASSUME NEW n \in 1 .. Len(due), n >= position PROVE t < due[n].at
  OBVIOUS
<1>1. position \in Nat \ {0} /\ Len(due) \in Nat
  BY LenProperties DEF ChartInv, ChartTypeOK
<1>2. position \in 1 .. Len(due)
  BY <1>1
<1>3. due[position].at \in Nat /\ due[n].at \in Nat
  BY <1>2, DueIn
<1>4. t < due[position].at
  BY <1>2, <1>3 DEF RipeAt
<1>5. position < n => due[position].at <= due[n].at
  BY <1>2 DEF ChartInv, QueueOK, QueueFits
<1>6. position < n \/ position = n
  BY <1>1
<1> QED
  BY <1>3, <1>4, <1>5, <1>6

\* The instant of the entry that is processed.
LEMMA ProcessTime ==
  ASSUME ChartInv, NEW e \in waiting, Process(e)
  PROVE  /\ e \in Entry /\ e.at \in Nat /\ asOf <= e.at /\ e.at <= Cutoff
         /\ Cutoff \in Nat /\ Day \in 1 .. Len(DayEnds)
         /\ \A f \in waiting : f.at \in Nat /\ e.at <= f.at
         /\ \A n \in 1 .. Len(due) : n >= position => e.at < due[n].at
         /\ \A n \in 1 .. Len(due) : n < position => due[n].at <= e.at
<1>1. waiting \in SUBSET Entry /\ e \in Entry
  BY DEF ChartInv, ChartTypeOK
<1>2. \A f \in waiting : f.at \in Nat
  BY <1>1 DEF Entry
<1>3. e.at <= Cutoff /\ ~ RipeAt(e.at) /\ Between
  BY DEF Process
<1>4. Cutoff \in Nat /\ Day \in 1 .. Len(DayEnds)
  BY <1>3, DayProperties DEF Between
<1>5. ASSUME NEW f \in waiting PROVE e.at <= f.at
  <2>1. CASE f = e
    BY <1>2, <2>1
  <2>2. CASE f # e
    <3>1. Before(EntryRow(e), EntryRow(f))
      BY <2>2 DEF Process
    <3>2. EntryRow(e).at = e.at /\ EntryRow(f).at = f.at
      BY DEF EntryRow
    <3> QED
      BY <1>2, <3>1, <3>2 DEF Before
  <2> QED
    BY <2>1, <2>2
<1>6. \A n \in 1 .. Len(due) : n >= position => e.at < due[n].at
  BY <1>2, <1>3, NoneRipe
<1>7. asOf <= e.at /\ \A n \in 1 .. Len(due) : n < position => due[n].at <= e.at
  BY <1>3 DEF ChartInv, TimeOK
<1> QED
  BY <1>1, <1>2, <1>3, <1>4, <1>5, <1>6, <1>7

\* Every step keeps the order of time.
LEMMA TimeStays ==
  ASSUME ChartInv, [ChartNext]_chartVars
  PROVE  TimeOK'
<1>1. /\ position \in Nat \ {0} /\ Len(due) \in Nat /\ asOf \in Nat /\ Threshold \in Nat \ {0}
      /\ waiting \in SUBSET Entry /\ Len(shots) \in Nat
      /\ chartLots \in [Depots -> Seq(ChartLot)]
  BY LenProperties, DayAssumption DEF ChartInv, ChartTypeOK
<1>2. /\ \A d \in Depots : NotAfter(chartLots[d], asOf)
      /\ \A e \in waiting : asOf <= e.at
      /\ Day <= Len(DayEnds) => asOf <= Cutoff
      /\ \A n \in 1 .. Len(due) : n >= position => asOf < due[n].at
      /\ Between => \A n \in 1 .. Len(due) :
            n < position => due[n].at <= Cutoff /\ \A e \in waiting : due[n].at <= e.at
      /\ ~ Between => \A n \in 1 .. Len(due) : n < position => due[n].at <= asOf
  BY DEF ChartInv, TimeOK
<1>3. CASE Mature
  <2>1. /\ Between /\ position \in 1 .. Len(due) /\ due[position].at <= Now
        /\ position' = position + 1
    BY <1>3, MatureEffect DEF Mature
  <2>2. /\ Now \in Nat /\ Now <= Cutoff /\ \A e \in waiting : Now <= e.at
        /\ Cutoff \in Nat
    BY <2>1, DayProperties DEF Between
  <2>3. due[position].at \in Nat /\ \A e \in waiting : e.at \in Nat
    BY <1>1, <2>1, DueIn DEF Entry
  <2>4. due[position].at <= Cutoff /\ \A e \in waiting : due[position].at <= e.at
    BY <2>1, <2>2, <2>3
  <2>5. /\ Between' = Between /\ Day' = Day /\ Cutoff' = Cutoff /\ waiting' = waiting
        /\ due' = due /\ asOf' = asOf
    BY <1>3 DEF Mature, Between, Day, Cutoff
  <2>6. \A d \in Depots : NotAfter(chartLots'[d], asOf)
    BY <1>2, <1>3, MatureKeepsAges DEF NotAfter
  <2>7. ASSUME NEW n \in 1 .. Len(due), n < position + 1
        PROVE  due[n].at <= Cutoff /\ \A e \in waiting : due[n].at <= e.at
    <3>1. CASE n < position
      BY <1>2, <2>1, <3>1
    <3>2. CASE n = position
      BY <2>4, <3>2
    <3> QED
      BY <1>1, <2>7, <3>1, <3>2
  <2>8. \A n \in 1 .. Len(due) : n >= position + 1 => asOf < due[n].at
    BY <1>1, <1>2
  <2> QED
    BY <1>2, <2>1, <2>5, <2>6, <2>7, <2>8 DEF TimeOK
<1>4. ASSUME NEW e \in waiting, Process(e) PROVE TimeOK'
  <2>1. /\ e \in Entry /\ e.at \in Nat /\ asOf <= e.at /\ e.at <= Cutoff
        /\ \A f \in waiting : f.at \in Nat /\ e.at <= f.at
        /\ \A n \in 1 .. Len(due) : n >= position => e.at < due[n].at
        /\ \A n \in 1 .. Len(due) : n < position => due[n].at <= e.at
        /\ Cutoff \in Nat
    BY <1>4, ProcessTime
  <2>2. /\ asOf' = e.at /\ waiting' = waiting \ {e} /\ position' = position /\ shots' = shots
        /\ Day' = Day /\ Cutoff' = Cutoff
    BY <1>4 DEF Process, Day, Cutoff
  <2>3. \A n \in 1 .. Len(due) : n < position => due[n].at <= Cutoff /\ \A f \in waiting : due[n].at <= f.at
    BY <1>2, <1>4 DEF Process
  <2>4. ASSUME NEW d \in Depots PROVE NotAfter(chartLots[d], e.at)
    <3>1. ASSUME NEW i \in 1 .. Len(chartLots[d]) PROVE chartLots[d][i].at <= e.at
      <4>1. chartLots[d] \in Seq(ChartLot)
        BY <1>1
      <4>2. chartLots[d][i] \in ChartLot
        BY <4>1, ElementOfSeq
      <4>3. chartLots[d][i].at \in Nat /\ chartLots[d][i].at <= asOf
        BY <1>2, <4>2 DEF NotAfter, ChartLot
      <4> QED
        BY <1>1, <2>1, <4>3
    <3> QED
      BY <3>1 DEF NotAfter
  <2>5. CASE AddLot(e)
    <3> DEFINE d == e.depot
               L == chartLots[d]
               M == chartLots'[d]
    <3>1. /\ d \in Depots
          /\ Len(M) = Len(L) + 1 /\ Len(L) \in Nat
          /\ \A j \in 1 .. Len(L) : M[j] = L[j]
          /\ M[Len(L) + 1].at = e.at
          /\ \A b \in Depots \ {d} : chartLots'[b] = chartLots[b]
          /\ Len(due') = Len(due) + 1
          /\ \A n \in 1 .. Len(due) : due'[n] = due[n]
          /\ due'[Len(due) + 1].at = e.at + Threshold
      BY <1>4, <2>5, AddLotEffect
    <3>2. ASSUME NEW b \in Depots PROVE NotAfter(chartLots'[b], e.at)
      <4>1. CASE b = d
        <5>1. NotAfter(L, e.at)
          BY <2>4, <3>1
        <5>2. ASSUME NEW j \in 1 .. Len(M) PROVE M[j].at <= e.at
          <6>1. j \in 1 .. Len(L) \/ j = Len(L) + 1
            BY <3>1
          <6> QED
            BY <2>1, <3>1, <5>1, <6>1 DEF NotAfter
        <5>3. NotAfter(M, e.at)
          BY <5>2 DEF NotAfter
        <5> QED
          BY <4>1, <5>3
      <4>2. CASE b # d
        BY <2>4, <3>1, <4>2
      <4> QED
        BY <4>1, <4>2
    <3>3. ASSUME NEW n \in 1 .. Len(due'), n >= position PROVE e.at < due'[n].at
      <4>1. n \in 1 .. Len(due) \/ n = Len(due) + 1
        BY <1>1, <3>1
      <4>2. CASE n \in 1 .. Len(due)
        BY <2>1, <3>1, <3>3, <4>2
      <4>3. CASE n = Len(due) + 1
        BY <1>1, <2>1, <3>1, <4>3
      <4> QED
        BY <4>1, <4>2, <4>3
    <3>4. position <= Len(due) + 1
      BY DEF ChartInv, QueueOK, QueueFits
    <3>5. ASSUME NEW n \in 1 .. Len(due'), n < position
          PROVE  n \in 1 .. Len(due) /\ due'[n] = due[n]
      BY <1>1, <3>1, <3>4, <3>5
    <3>6. /\ \A n \in 1 .. Len(due') : n < position => due'[n].at <= e.at
          /\ \A n \in 1 .. Len(due') : n < position =>
                due'[n].at <= Cutoff /\ \A f \in waiting : due'[n].at <= f.at
      BY <2>1, <2>3, <3>5
    <3> QED
      BY <2>1, <2>2, <3>2, <3>3, <3>6 DEF TimeOK
  <2>6. CASE StartDisposal(e)
    <3>1. chartLots' = chartLots /\ due' = due
      BY <2>6 DEF StartDisposal
    <3> QED
      BY <2>1, <2>2, <2>3, <2>4, <3>1 DEF TimeOK
  <2> QED
    BY <1>4, <2>5, <2>6 DEF Process
<1>5. CASE TakeFromLot
  <2>1. /\ waiting' = waiting /\ due' = due /\ position' = position /\ asOf' = asOf /\ shots' = shots
        /\ debt # NoDebt /\ debt' = debt
    BY <1>5 DEF TakeFromLot
  <2>2. ~ Between /\ ~ Between' /\ Day' = Day /\ Cutoff' = Cutoff
    BY <2>1 DEF Between, Day, Cutoff
  <2>3. \A d \in Depots : NotAfter(chartLots'[d], asOf)
    BY <1>2, <1>5, TakeKeepsAges DEF NotAfter
  <2> QED
    BY <1>2, <2>1, <2>2, <2>3 DEF TimeOK
<1>6. CASE StartFee \/ EndDisposal
  <2>1. /\ waiting' = waiting /\ due' = due /\ position' = position /\ asOf' = asOf /\ shots' = shots
        /\ chartLots' = chartLots
    BY <1>6 DEF StartFee, EndDisposal
  <2>2. ~ Between /\ Day' = Day /\ Cutoff' = Cutoff
    BY <1>6, <2>1 DEF Between, Day, Cutoff, StartFee, EndDisposal
  <2>3. \A n \in 1 .. Len(due) : n < position => due[n].at <= asOf
    BY <1>2, <2>2
  <2>4. Between' => \A n \in 1 .. Len(due) :
           n < position => due[n].at <= Cutoff /\ \A e \in waiting : due[n].at <= e.at
    <3> SUFFICES ASSUME Between', NEW n \in 1 .. Len(due), n < position
                 PROVE  due[n].at <= Cutoff /\ \A e \in waiting : due[n].at <= e.at
      OBVIOUS
    <3>1. Day <= Len(DayEnds)
      BY <2>2 DEF Between
    <3>2. Cutoff \in Nat /\ asOf <= Cutoff
      BY <1>2, <3>1, DayProperties
    <3>3. due[n].at \in Nat /\ due[n].at <= asOf /\ \A e \in waiting : e.at \in Nat /\ asOf <= e.at
      BY <1>1, <1>2, <2>3, DueIn DEF Entry
    <3> QED
      BY <1>1, <3>2, <3>3
  <2> QED
    BY <1>2, <2>1, <2>2, <2>3, <2>4 DEF TimeOK
<1>7. CASE EndDay
  <2>1. /\ waiting' = waiting /\ due' = due /\ position' = position /\ chartLots' = chartLots
        /\ asOf' = Cutoff /\ Between /\ ~ RipeAt(Cutoff) /\ \A e \in waiting : e.at > Cutoff
    BY <1>7 DEF EndDay
  <2>2. Len(shots') = Len(shots) + 1
    <3> DEFINE x == [d \in Depots |-> [total |-> total[d], long |-> longTerm[d]]]
    <3>1. shots' = Append(shots, x)
      BY <1>7 DEF EndDay
    <3>2. x \in Shot /\ shots \in Seq(Shot)
      BY DEF Shot, ChartInv, ChartTypeOK
    <3> HIDE DEF x
    <3> QED
      BY <3>1, <3>2, AppendProperties
  <2>3. /\ Day \in 1 .. Len(DayEnds) /\ Cutoff \in Nat /\ asOf <= Cutoff /\ Len(DayEnds) \in Nat
    BY <1>2, <2>1, DayProperties, DayAssumption, LenProperties DEF Between
  <2>4. Day' = Day + 1 /\ Cutoff' = DayEnds[Day + 1]
    BY <1>1, <2>2 DEF Day, Cutoff
  <2>5. ASSUME Day + 1 <= Len(DayEnds) PROVE Cutoff < DayEnds[Day + 1] /\ DayEnds[Day + 1] \in Nat
    <3>1. Day + 1 \in 1 .. Len(DayEnds) /\ Day < Day + 1
      BY <2>3, <2>5
    <3>2. DayEnds[Day] < DayEnds[Day + 1]
      BY <2>3, <3>1, DayAssumption
    <3>3. DayEnds[Day + 1] \in Nat
      BY <3>1, DayAssumption, ElementOfSeq
    <3> QED
      BY <3>2, <3>3 DEF Cutoff
  <2>6. \A n \in 1 .. Len(due) : n >= position => Cutoff < due[n].at
    BY <2>1, <2>3, NoneRipe
  <2>7. \A n \in 1 .. Len(due) : due[n].at \in Nat
    BY DueIn
  <2>8. \A e \in waiting : e.at \in Nat
    BY <1>1 DEF Entry
  <2>9. ASSUME NEW d \in Depots PROVE NotAfter(chartLots[d], Cutoff)
    <3>1. ASSUME NEW i \in 1 .. Len(chartLots[d]) PROVE chartLots[d][i].at <= Cutoff
      <4>1. chartLots[d] \in Seq(ChartLot)
        BY <1>1
      <4>2. chartLots[d][i] \in ChartLot
        BY <4>1, ElementOfSeq
      <4>3. chartLots[d][i].at \in Nat /\ chartLots[d][i].at <= asOf
        BY <1>2, <4>2 DEF NotAfter, ChartLot
      <4> QED
        BY <1>1, <2>3, <4>3
    <3> QED
      BY <3>1 DEF NotAfter
  <2>10. \A n \in 1 .. Len(due) : n < position => due[n].at <= Cutoff
    BY <1>2, <2>1
  <2>11. \A n \in 1 .. Len(due) : n < position => \A e \in waiting : due[n].at <= e.at
    BY <1>2, <2>1
  <2>12. Day' <= Len(DayEnds) => Cutoff <= Cutoff'
    BY <2>3, <2>4, <2>5
  <2>13. Between' => \A n \in 1 .. Len(due) : n < position => due[n].at <= Cutoff'
    <3>1. Between' => Day + 1 <= Len(DayEnds)
      BY <2>4 DEF Between
    <3> QED
      BY <2>3, <2>4, <2>5, <2>7, <2>10, <3>1
  <2>14. \A e \in waiting : Cutoff <= e.at
    BY <2>1, <2>3, <2>8
  <2> QED
    BY <2>1, <2>6, <2>9, <2>10, <2>11, <2>12, <2>13, <2>14 DEF TimeOK
<1>8. CASE UNCHANGED chartVars
  BY <1>2, <1>8 DEF chartVars, TimeOK, Between, Day, Cutoff
<1> QED
  BY <1>3, <1>4, <1>5, <1>6, <1>7, <1>8 DEF ChartNext

-----------------------------------------------------------------------------
(* The invariant of the chart *)

\* The invariant holds before the first entry.
LEMMA ChartAtFirst ==
  ASSUME ChartInit
  PROVE  ChartInv
<1>1. /\ chart \in ChartBooks /\ waiting = chart
      /\ chartLots = [d \in Depots |-> <<>>] /\ chartCursor = [d \in Depots |-> 1]
      /\ due = <<>> /\ position = 1
      /\ total = [d \in Depots |-> 0] /\ longTerm = [d \in Depots |-> 0]
      /\ shortTerm = [d \in Depots |-> 0]
      /\ debt = NoDebt /\ owed = 0 /\ fee = NoDebt /\ asOf = 0 /\ shots = <<>>
  BY DEF ChartInit
<1>2. chart \in SUBSET Entry
  BY <1>1, ChartBookAssumption
<1>3. Len(due) = 0 /\ Len(shots) = 0 /\ \A d \in Depots : Len(chartLots[d]) = 0
  BY <1>1
<1>4. ChartTypeOK
  BY <1>1, <1>2 DEF ChartTypeOK
<1>5. ASSUME NEW d \in Depots PROVE ChartDepotOK(chartLots[d], chartCursor[d]) /\ ChartSums(d)
  <2> DEFINE L == chartLots[d]
             t == TRUE
             f == FALSE
  <2>1. L = <<>> /\ Len(L) = 0 /\ chartCursor[d] = 1
        /\ total[d] = 0 /\ longTerm[d] = 0 /\ shortTerm[d] = 0
    BY <1>1
  <2>2. ChartDepotOK(L, chartCursor[d])
    BY <2>1 DEF ChartDepotOK
  <2>3. Lotted(L)
    BY <2>1 DEF Lotted
  <2> HIDE DEF L, t, f
  <2>4. ASSUME NEW b PROVE LeftIn(L, b) = 0
    <3>1. /\ LeftsIn(L, b) \in [1 .. Len(L) -> Nat] /\ IsFiniteSet(1 .. Len(L))
          /\ LeftIn(L, b) = Total(LeftsIn(L, b))
      BY <2>3, LeftsByClass
    <3>2. \A i \in 1 .. Len(L) : LeftsIn(L, b)[i] = 0
      BY <2>1
    <3> QED
      BY <3>1, <3>2, TotalOfZeros
  <2>5. LeftIn(L, t) = 0
    BY <2>4
  <2>6. LeftIn(L, f) = 0
    BY <2>4
  <2>7. Total(Lefts(L)) = 0
    <3>1. 0 \in Int
      OBVIOUS
    <3>2. Lefts(L) \in [1 .. Len(L) -> Nat] /\ IsFiniteSet(1 .. Len(L))
      BY <2>3, <3>1, LeftsByAge
    <3>3. \A i \in 1 .. Len(L) : Lefts(L)[i] = 0
      BY <2>1
    <3> QED
      BY <3>2, <3>3, TotalOfZeros
  <2>8. SumsAre(L, 0, 0, 0)
    BY <2>5, <2>6, <2>7 DEF SumsAre, t, f
  <2> QED
    BY <2>1, <2>2, <2>8 DEF ChartSums, L
<1>6. QueueOK
  BY <1>1, <1>3 DEF QueueOK, QueueFits
<1>7. TimeOK
  <2>1. \A d \in Depots : NotAfter(chartLots[d], asOf)
    BY <1>3 DEF NotAfter
  <2>2. \A e \in waiting : asOf <= e.at
    BY <1>1, <1>2 DEF Entry
  <2>3. Day <= Len(DayEnds) => asOf <= Cutoff
    <3>1. Day = 1 /\ asOf = 0
      BY <1>1, <1>3 DEF Day
    <3>2. ASSUME 1 <= Len(DayEnds) PROVE DayEnds[1] \in Nat
      <4>1. Len(DayEnds) \in Nat
        BY DayAssumption, LenProperties
      <4>2. 1 \in 1 .. Len(DayEnds)
        BY <3>2, <4>1
      <4> QED
        BY <4>2, DayAssumption, ElementOfSeq
    <3> QED
      BY <3>1, <3>2 DEF Cutoff
  <2> QED
    BY <1>3, <2>1, <2>2, <2>3 DEF TimeOK
<1> QED
  BY <1>1, <1>4, <1>5, <1>6, <1>7 DEF ChartInv

\* Every step keeps the invariant.
LEMMA ChartStays ==
  ASSUME ChartInv, [ChartNext]_chartVars
  PROVE  ChartInv'
<1>1. ChartTypeOK' /\ chart' = chart
  BY ChartTypeStays
<1>2. \A d \in Depots : (ChartDepotOK(chartLots[d], chartCursor[d]) /\ ChartSums(d))'
  BY LotsStay DEF LotsOK
<1>3. QueueOK' /\ TimeOK'
  BY QueueStays, TimeStays
<1> QED
  BY <1>1, <1>2, <1>3 DEF ChartInv

\* Sums, queue and time are in order in every state.
LEMMA ChartInductive == ChartSpec => []ChartInv
<1>1. ChartInit => ChartInv
  BY ChartAtFirst
<1>2. ChartInv /\ [ChartNext]_chartVars => ChartInv'
  BY ChartStays
<1> QED
  BY <1>1, <1>2, PTL DEF ChartSpec

\* The running totals are the sums of the lots, and maturities are in time.
LEMMA SumsAndMaturities ==
  ASSUME ChartInv
  PROVE  TotalsMatchLots /\ MaturedInTime
<1>1. TotalsMatchLots
  BY DEF ChartInv, ChartSums, SumsAre, TotalsMatchLots
<1>2. ASSUME NEW d \in Depots, NEW i \in 1 .. Len(chartLots[d])
      PROVE  LET lot == chartLots[d][i]
             IN /\ lot.at + Threshold <= asOf => lot.long
                /\ debt # NoDebt /\ lot.long => lot.at + Threshold <= asOf
  <2>1. PICK n \in 1 .. Len(due) : due[n].depot = d /\ due[n].lot = i
    BY DEF ChartInv, QueueOK, QueueFits
  <2>2. due[n].at = chartLots[d][i].at + Threshold /\ (chartLots[d][i].long <=> n < position)
    BY <2>1 DEF ChartInv, QueueOK, QueueFits
  <2>3. n >= position => asOf < due[n].at
    BY DEF ChartInv, TimeOK
  <2>4. debt # NoDebt /\ n < position => due[n].at <= asOf
    BY DEF ChartInv, TimeOK, Between
  <2>5. due[n].at \in Nat /\ asOf \in Nat /\ position \in Nat
    BY DueIn DEF ChartInv, ChartTypeOK
  <2>6. due[n].at <= asOf => n < position
    BY <2>3, <2>5
  <2> QED
    BY <2>2, <2>4, <2>6
<1>3. MaturedInTime
  BY <1>2 DEF MaturedInTime
<1> QED
  BY <1>1, <1>3

-----------------------------------------------------------------------------
(* The rows that are done *)

\* Of two entries of a depot, without a tie of fees, every row of the first comes
\* before every row of the second; a fee comes after its entry.
LEMMA RowsInOrder ==
  ASSUME NEW e \in Entry, NEW f \in Entry, Before(EntryRow(e), EntryRow(f)),
         e.at = f.at => ~ (e.into /\ e.fee > 0) /\ ~ (f.into /\ f.fee > 0)
  PROVE  /\ f.fee > 0 => Before(EntryRow(e), FeeRow(f))
         /\ e.fee > 0 => Before(FeeRow(e), EntryRow(f))
         /\ e.fee > 0 /\ f.fee > 0 => Before(FeeRow(e), FeeRow(f))
<1>1. /\ EntryRow(e).at = e.at /\ EntryRow(e).out = ~ e.into /\ EntryRow(e).src = e.id
      /\ EntryRow(f).at = f.at /\ EntryRow(f).out = ~ f.into /\ EntryRow(f).src = f.id
      /\ EntryRow(e).fee = FALSE /\ EntryRow(f).fee = FALSE
  BY DEF EntryRow
<1>2. /\ FeeRow(e).at = e.at /\ FeeRow(e).out = TRUE /\ FeeRow(e).src = e.id /\ FeeRow(e).fee = TRUE
      /\ FeeRow(f).at = f.at /\ FeeRow(f).out = TRUE /\ FeeRow(f).src = f.id /\ FeeRow(f).fee = TRUE
  BY DEF FeeRow
<1>3. /\ e.at \in Nat /\ f.at \in Nat /\ e.id \in Nat /\ f.id \in Nat
      /\ e.into \in BOOLEAN /\ f.into \in BOOLEAN
  BY IdAssumption DEF Entry
<1>4. \/ e.at < f.at
      \/ e.at = f.at /\ e.into /\ ~ f.into
      \/ e.at = f.at /\ e.into = f.into /\ e.id < f.id
  BY <1>1, <1>3 DEF Before
<1>5. ASSUME f.fee > 0 PROVE Before(EntryRow(e), FeeRow(f))
  <2>1. CASE e.at < f.at
    BY <1>1, <1>2, <2>1 DEF Before
  <2>2. CASE e.at = f.at
    BY <1>1, <1>2, <1>3, <1>4, <1>5, <2>2 DEF Before
  <2> QED
    BY <1>4, <2>1, <2>2
<1>6. ASSUME e.fee > 0 PROVE Before(FeeRow(e), EntryRow(f))
  <2>1. CASE e.at < f.at
    BY <1>1, <1>2, <2>1 DEF Before
  <2>2. CASE e.at = f.at
    BY <1>1, <1>2, <1>3, <1>4, <1>6, <2>2 DEF Before
  <2> QED
    BY <1>4, <2>1, <2>2
<1>7. ASSUME e.fee > 0, f.fee > 0 PROVE Before(FeeRow(e), FeeRow(f))
  <2>1. CASE e.at < f.at
    BY <1>1, <1>2, <2>1 DEF Before
  <2>2. CASE e.at = f.at
    BY <1>1, <1>2, <1>3, <1>4, <1>7, <2>2 DEF Before
  <2> QED
    BY <1>4, <2>1, <2>2
<1> QED
  BY <1>5, <1>6, <1>7

\* A BTC fee comes after its entry.
LEMMA FeeAfterEntry ==
  ASSUME NEW e \in Entry
  PROVE  Before(EntryRow(e), FeeRow(e))
<1>1. /\ EntryRow(e).at = e.at /\ EntryRow(e).out = ~ e.into /\ EntryRow(e).src = e.id
      /\ EntryRow(e).fee = FALSE
  BY DEF EntryRow
<1>2. FeeRow(e).at = e.at /\ FeeRow(e).out = TRUE /\ FeeRow(e).src = e.id /\ FeeRow(e).fee = TRUE
  BY DEF FeeRow
<1>3. e.into \in BOOLEAN
  BY DEF Entry
<1> QED
  BY <1>1, <1>2, <1>3 DEF Before

\* What the first row of its depot to do leaves short is what all rows of the
\* depot done by then do.
LEMMA DepotShortIsCounted ==
  ASSUME NEW B \in SUBSET Entry, IsFiniteSet(B), NEW t \in SUBSET Expand(B), NEW r \in t,
         NEW d, r.depot = d,
         \A s \in RowsOf(B, d) \ t : Before(s, r),
         \A s \in t \ {r} : s.depot = d => Before(r, s)
  PROVE  ShortBy(B, d, r) = WentOut(B, d, t \ {r}) - CameIn(B, d, t \ {r})
<1> DEFINE until == {s \in RowsOf(B, d) : s = r \/ Before(s, r)}
<1>1. Expand(B) \in SUBSET Row
  BY RowsAreFinite
<1>2. \A s \in t \ {r} : s.depot = d => ~ Before(s, r)
  BY <1>1, BeforeOneWay
<1>3. until = RowsOf(B, d) \ (t \ {r})
  BY <1>2 DEF RowsOf
<1>4. /\ {s \in until : s.out} = OutRows(B, d, t \ {r})
      /\ {s \in until : ~ s.out} = InRows(B, d, t \ {r})
  BY <1>3 DEF OutRows, InRows
<1> HIDE DEF until
<1>5. ShortBy(B, d, r) = Total(Amounts({s \in until : s.out})) - Total(Amounts({s \in until : ~ s.out}))
  BY DEF ShortBy, until
<1> QED
  BY <1>4, <1>5 DEF CameIn, WentOut

-----------------------------------------------------------------------------
\* The rows that are still to come: those of the entries waiting, and a fee.
Undone == Expand(waiting) \cup ({fee} \ {NoDebt})

Processed == chart \ waiting

\* Entries are processed in their order, up to asOf, and a fee that is still to
\* come is that of the last one.
OrderInv ==
    /\ \A e \in Processed : e.at <= asOf
    /\ \A e \in Processed : \A f \in waiting : Before(EntryRow(e), EntryRow(f))
    /\ fee # NoDebt => \E e \in Processed :
          /\ e.fee > 0 /\ fee = FeeRow(e) /\ e.at = asOf
          /\ \A f \in Processed \ {e} : Before(EntryRow(f), EntryRow(e))

\* The chart, its rows, and those to come.
LEMMA ChartRows ==
  ASSUME ChartInv, OrderInv
  PROVE  /\ chart \in SUBSET Entry /\ IsFiniteSet(chart) /\ waiting \in SUBSET chart
         /\ Expand(chart) \in SUBSET Row /\ Undone \in SUBSET Expand(chart)
         /\ \A a, b \in chart : a.id = b.id => a = b
<1>1. /\ chart \in SUBSET Entry /\ IsFiniteSet(chart) /\ waiting \in SUBSET chart
      /\ \A a, b \in chart : a.id = b.id => a = b
  BY ChartBookAssumption DEF ChartInv, ChartTypeOK
<1>2. Expand(waiting) \in SUBSET Expand(chart)
  BY <1>1 DEF Expand
<1>3. fee # NoDebt => fee \in Expand(chart)
  BY DEF OrderInv, Processed, Expand
<1> QED
  BY <1>1, <1>2, <1>3, RowsAreFinite DEF Undone

\* A row is that of an entry or of its fee.
LEMMA RowIsOf ==
  ASSUME NEW B, NEW s \in Expand(B)
  PROVE  \E e \in B : s = EntryRow(e) \/ (e.fee > 0 /\ s = FeeRow(e))
BY DEF Expand

\* The depot of a row is that of its entry.
LEMMA RowDepots ==
  ASSUME NEW e, NEW s, s = EntryRow(e) \/ s = FeeRow(e)
  PROVE  s.depot = e.depot
BY DEF EntryRow, FeeRow

\* Rows of different entries, and of entries and fees, are different.
LEMMA RowsDiffer ==
  ASSUME NEW e, NEW f
  PROVE  /\ EntryRow(e) = EntryRow(f) => e.id = f.id
         /\ FeeRow(e) = FeeRow(f) => e.id = f.id
         /\ EntryRow(e) # FeeRow(f)
<1>1. EntryRow(e) = EntryRow(f) => e.id = f.id
  BY DEF EntryRow
<1>2. FeeRow(e) = FeeRow(f) => e.id = f.id
  BY DEF FeeRow
<1>3. EntryRow(e) # FeeRow(f)
  <2>1. EntryRow(e) = FeeRow(f) => EntryRow(e).fee = FeeRow(f).fee
    OBVIOUS
  <2>2. EntryRow(e).fee = FALSE
    BY DEF EntryRow
  <2>3. FeeRow(f).fee = TRUE
    BY DEF FeeRow
  <2> QED
    BY <2>1, <2>2, <2>3
<1> QED
  BY <1>1, <1>2, <1>3

\* Rows of the entries waiting are still to come, rows of the others are not,
\* but for a fee.
LEMMA UndoneIs ==
  ASSUME ChartInv, OrderInv, NEW e \in chart
  PROVE  /\ EntryRow(e) \in Undone <=> e \in waiting
         /\ e.fee > 0 => (FeeRow(e) \in Undone <=> e \in waiting \/ fee = FeeRow(e))
<1>1. /\ waiting \in SUBSET chart /\ \A a, b \in chart : a.id = b.id => a = b
      /\ chart \in SUBSET Entry
  BY ChartRows
<1>2. fee # NoDebt => EntryRow(e) # fee
  BY RowsDiffer DEF OrderInv
<1>3. ASSUME EntryRow(e) \in Undone PROVE e \in waiting
  <2>1. EntryRow(e) \in Expand(waiting)
    BY <1>2, <1>3 DEF Undone
  <2>2. PICK f \in waiting : EntryRow(e) = EntryRow(f) \/ EntryRow(e) = FeeRow(f)
    BY <2>1, RowIsOf
  <2>3. e.id = f.id
    BY <2>2, RowsDiffer
  <2> QED
    BY <1>1, <2>3
<1>4. ASSUME FeeRow(e) \in Undone, fee # FeeRow(e) PROVE e \in waiting
  <2>1. FeeRow(e) \in Expand(waiting)
    BY <1>4 DEF Undone
  <2>2. PICK f \in waiting : FeeRow(e) = EntryRow(f) \/ FeeRow(e) = FeeRow(f)
    BY <2>1, RowIsOf
  <2>3. e.id = f.id
    BY <2>2, RowsDiffer
  <2> QED
    BY <1>1, <2>3
<1>5. e \in waiting => EntryRow(e) \in Undone
  BY DEF Undone, Expand
<1>6. e \in waiting /\ e.fee > 0 => FeeRow(e) \in Undone
  BY DEF Undone, Expand
<1>7. e.fee > 0 => FeeRow(e) \in Row
  BY <1>1 DEF FeeRow, Row, Entry
<1>8. e.fee > 0 /\ fee = FeeRow(e) => FeeRow(e) \in Undone
  BY <1>7, NoDebtAssumption DEF Undone
<1> QED
  BY <1>3, <1>4, <1>5, <1>6, <1>8

\* Rows of two entries of a depot that has no tie of fees are in order.
LEMMA RowsWithoutTie ==
  ASSUME chart \in SUBSET Entry, NEW t, NEW d, ~ FeeTie(UpTo(t), d),
         NEW e \in chart, NEW f \in chart, e # f, e.depot = d, f.depot = d,
         Before(EntryRow(e), EntryRow(f)), e.at = f.at => e.at <= t
  PROVE  /\ f.fee > 0 => Before(EntryRow(e), FeeRow(f))
         /\ e.fee > 0 => Before(FeeRow(e), EntryRow(f))
         /\ e.fee > 0 /\ f.fee > 0 => Before(FeeRow(e), FeeRow(f))
<1>1. ASSUME e.at = f.at PROVE ~ (e.into /\ e.fee > 0) /\ ~ (f.into /\ f.fee > 0)
  <2>1. e \in UpTo(t) /\ f \in UpTo(t)
    BY <1>1 DEF UpTo
  <2> QED
    BY <1>1, <2>1 DEF FeeTie
<1> QED
  BY <1>1, RowsInOrder

\* The rows of an entry, in order: what is done, the entry, what is to come.
LEMMA ProcessInOrder ==
  ASSUME ChartInv, OrderInv, NEW e \in waiting, Process(e), NEW d, e.depot = d,
         ~ FeeTie(UpTo(e.at), d)
  PROVE  /\ \A s \in RowsOf(chart, d) \ Undone : Before(s, EntryRow(e))
         /\ \A s \in Undone \ {EntryRow(e)} : s.depot = d => Before(EntryRow(e), s)
<1>1. /\ chart \in SUBSET Entry /\ waiting \in SUBSET chart /\ Undone \in SUBSET Expand(chart)
      /\ e \in Entry
  BY ChartRows
<1>2. e.at \in Nat /\ e.at <= e.at
  BY <1>1 DEF Entry
<1>3. ASSUME NEW s \in RowsOf(chart, d) \ Undone PROVE Before(s, EntryRow(e))
  <2>1. s \in Expand(chart) /\ s.depot = d /\ s \notin Undone
    BY DEF RowsOf
  <2>2. PICK f \in chart : s = EntryRow(f) \/ (f.fee > 0 /\ s = FeeRow(f))
    BY <2>1, RowIsOf
  <2>3. f \notin waiting
    BY <2>1, <2>2, UndoneIs
  <2>4. Before(EntryRow(f), EntryRow(e)) /\ f # e
    BY <2>3 DEF OrderInv, Processed
  <2>5. f.depot = d
    BY <2>1, <2>2, RowDepots
  <2>6. f.fee > 0 => Before(FeeRow(f), EntryRow(e))
    BY <1>2, <1>1, <2>4, <2>5, RowsWithoutTie
  <2> QED
    BY <2>2, <2>4, <2>6
<1>4. ASSUME NEW s \in Undone \ {EntryRow(e)}, s.depot = d PROVE Before(EntryRow(e), s)
  <2>1. PICK f \in chart : s = EntryRow(f) \/ (f.fee > 0 /\ s = FeeRow(f))
    BY <1>1, RowIsOf
  <2>2. fee = NoDebt
    BY DEF Process, Between
  <2>3. f \in waiting
    <3>1. CASE s = EntryRow(f)
      BY <3>1, UndoneIs
    <3>2. CASE f.fee > 0 /\ s = FeeRow(f)
      <4>1. FeeRow(f) \in Row
        BY <1>1, <3>2 DEF Entry, Row, FeeRow
      <4>2. FeeRow(f) # NoDebt
        BY <4>1, NoDebtAssumption
      <4> QED
        BY <2>2, <3>2, <4>2, UndoneIs
    <3> QED
      BY <2>1, <3>1, <3>2
  <2>4. f.depot = d
    BY <1>4, <2>1, RowDepots
  <2>5. CASE f = e
    BY <1>1, <2>1, <2>5, FeeAfterEntry
  <2>6. CASE f # e
    <3>1. Before(EntryRow(e), EntryRow(f))
      BY <2>3, <2>6 DEF Process
    <3>2. f.fee > 0 => Before(EntryRow(e), FeeRow(f))
      BY <1>2, <1>1, <2>4, <2>6, <3>1, RowsWithoutTie
    <3> QED
      BY <2>1, <3>1, <3>2
  <2> QED
    BY <2>5, <2>6
<1> QED
  BY <1>3, <1>4

\* The same for the fee that follows it.
LEMMA FeeInOrder ==
  ASSUME ChartInv, OrderInv, fee # NoDebt, NEW d, fee.depot = d, ~ FeeTie(UpTo(asOf), d)
  PROVE  /\ \A s \in RowsOf(chart, d) \ Undone : Before(s, fee)
         /\ \A s \in Undone \ {fee} : s.depot = d => Before(fee, s)
<1>1. /\ chart \in SUBSET Entry /\ waiting \in SUBSET chart /\ Undone \in SUBSET Expand(chart)
      /\ \A a, b \in chart : a.id = b.id => a = b
  BY ChartRows
<1>2. PICK e \in Processed :
          /\ e.fee > 0 /\ fee = FeeRow(e) /\ e.at = asOf
          /\ \A f \in Processed \ {e} : Before(EntryRow(f), EntryRow(e))
  BY DEF OrderInv
<1>3. e \in chart /\ e \in Entry /\ e \notin waiting /\ e.depot = d
  BY <1>1, <1>2, RowDepots DEF Processed
<1>4. e.at \in Nat /\ e.at <= asOf
  BY <1>2, <1>3 DEF Entry
<1>5. ASSUME NEW s \in RowsOf(chart, d) \ Undone PROVE Before(s, fee)
  <2>1. s \in Expand(chart) /\ s.depot = d /\ s \notin Undone
    BY DEF RowsOf
  <2>2. PICK f \in chart : s = EntryRow(f) \/ (f.fee > 0 /\ s = FeeRow(f))
    BY <2>1, RowIsOf
  <2>3. f \in Processed
    BY <2>1, <2>2, UndoneIs DEF Processed
  <2>4. f.depot = d
    BY <2>1, <2>2, RowDepots
  <2>5. CASE f = e
    <3>1. s # FeeRow(e)
      BY <1>2, <1>3, <2>1, UndoneIs
    <3> QED
      BY <1>2, <1>3, <2>2, <2>5, <3>1, FeeAfterEntry
  <2>6. CASE f # e
    <3>1. Before(EntryRow(f), EntryRow(e))
      BY <1>2, <2>3, <2>6
    <3>2. /\ Before(EntryRow(f), FeeRow(e))
          /\ f.fee > 0 => Before(FeeRow(f), FeeRow(e))
      BY <1>1, <1>2, <1>3, <1>4, <2>4, <2>6, <3>1, RowsWithoutTie
    <3> QED
      BY <1>2, <2>2, <3>2
  <2> QED
    BY <2>5, <2>6
<1>6. ASSUME NEW s \in Undone \ {fee}, s.depot = d PROVE Before(fee, s)
  <2>1. PICK f \in chart : s = EntryRow(f) \/ (f.fee > 0 /\ s = FeeRow(f))
    BY <1>1, RowIsOf
  <2>2. f \in waiting
    <3>1. s = EntryRow(f) => f \in waiting
      BY UndoneIs
    <3>2. f.fee > 0 /\ s = FeeRow(f) => f \in waiting
      BY UndoneIs
    <3> QED
      BY <2>1, <3>1, <3>2
  <2>3. f.depot = d /\ f # e
    BY <1>3, <1>6, <2>1, <2>2, RowDepots
  <2>4. Before(EntryRow(e), EntryRow(f))
    BY <1>2, <2>2 DEF OrderInv
  <2>5. /\ Before(FeeRow(e), EntryRow(f))
        /\ f.fee > 0 => Before(FeeRow(e), FeeRow(f))
    BY <1>1, <1>2, <1>3, <1>4, <2>3, <2>4, RowsWithoutTie
  <2> QED
    BY <1>2, <2>1, <2>5
<1> QED
  BY <1>5, <1>6

\* An entry is processed: its row is done, and its fee is to come.
LEMMA ProcessUndone ==
  ASSUME ChartInv, OrderInv, NEW e \in waiting, Process(e)
  PROVE  EntryRow(e) \in Undone /\ Undone' = Undone \ {EntryRow(e)}
<1>1. /\ chart \in SUBSET Entry /\ waiting \in SUBSET chart /\ e \in chart
      /\ \A a, b \in chart : a.id = b.id => a = b
  BY ChartRows
<1>2. /\ fee = NoDebt /\ fee' = (IF e.fee > 0 THEN FeeRow(e) ELSE NoDebt)
      /\ waiting' = waiting \ {e}
  BY DEF Process, Between
<1>3. EntryRow(e) \in Undone
  BY <1>1, UndoneIs
<1>4. e.fee > 0 => FeeRow(e) \in Row
  BY <1>1 DEF FeeRow, Row, Entry
<1>5. Undone = Expand(waiting)
  BY <1>2 DEF Undone
<1>6. Undone' = Expand(waiting \ {e}) \cup (IF e.fee > 0 THEN {FeeRow(e)} ELSE {})
  <2>1. Undone' = Expand(waiting') \cup ({fee'} \ {NoDebt})
    BY DEF Undone, Expand
  <2> QED
    BY <1>2, <1>4, <2>1, NoDebtAssumption
<1>7. ASSUME NEW s \in Undone' PROVE s \in Undone \ {EntryRow(e)}
  <2>1. CASE s \in Expand(waiting \ {e})
    <3>1. PICK f \in waiting \ {e} : s = EntryRow(f) \/ (f.fee > 0 /\ s = FeeRow(f))
      BY <2>1, RowIsOf
    <3>2. f.id # e.id
      BY <1>1, <3>1
    <3>3. s # EntryRow(e)
      BY <3>1, <3>2, RowsDiffer
    <3>4. s \in Expand(waiting)
      BY <3>1 DEF Expand
    <3> QED
      BY <1>5, <3>3, <3>4
  <2>2. CASE e.fee > 0 /\ s = FeeRow(e)
    BY <1>5, <2>2, RowsDiffer DEF Expand
  <2> QED
    BY <1>6, <1>7, <2>1, <2>2
<1>8. ASSUME NEW s \in Undone, s # EntryRow(e) PROVE s \in Undone'
  <2>1. PICK f \in waiting : s = EntryRow(f) \/ (f.fee > 0 /\ s = FeeRow(f))
    BY <1>5, RowIsOf
  <2>2. CASE f = e
    BY <1>6, <1>8, <2>1, <2>2
  <2>3. CASE f # e
    <3>1. s \in Expand(waiting \ {e})
      BY <2>1, <2>3 DEF Expand
    <3> QED
      BY <1>6, <3>1
  <2> QED
    BY <2>2, <2>3
<1> QED
  BY <1>3, <1>7, <1>8

\* The fee is done.
LEMMA FeeUndone ==
  ASSUME ChartInv, OrderInv, StartFee
  PROVE  fee \in Undone /\ fee \in Row /\ Undone' = Undone \ {fee}
<1>1. /\ chart \in SUBSET Entry /\ waiting \in SUBSET chart
      /\ \A a, b \in chart : a.id = b.id => a = b
      /\ Expand(chart) \in SUBSET Row /\ Undone \in SUBSET Expand(chart)
  BY ChartRows
<1>2. fee # NoDebt /\ fee' = NoDebt /\ waiting' = waiting
  BY DEF StartFee
<1>3. PICK e \in Processed : e.fee > 0 /\ fee = FeeRow(e)
  BY <1>2 DEF OrderInv
<1>4. fee \in Undone
  BY <1>2 DEF Undone
<1>5. fee \notin Expand(waiting)
  <2> SUFFICES ASSUME fee \in Expand(waiting) PROVE FALSE
    OBVIOUS
  <2>1. PICK f \in waiting : fee = EntryRow(f) \/ fee = FeeRow(f)
    BY RowIsOf
  <2>2. f.id = e.id
    BY <1>3, <2>1, RowsDiffer
  <2> QED
    BY <1>1, <1>3, <2>2 DEF Processed
<1>6. Undone' = Expand(waiting)
  BY <1>2 DEF Undone, Expand
<1> QED
  BY <1>1, <1>2, <1>4, <1>5, <1>6 DEF Undone

\* The order holds before the first entry.
LEMMA OrderAtFirst ==
  ASSUME ChartInit
  PROVE  OrderInv /\ Undone = Expand(chart)
BY DEF ChartInit, OrderInv, Processed, Undone

\* Every step keeps the order.
LEMMA OrderStays ==
  ASSUME ChartInv, OrderInv, [ChartNext]_chartVars
  PROVE  OrderInv'
<1>1. /\ chart \in SUBSET Entry /\ waiting \in SUBSET chart /\ chart' = chart /\ asOf \in Nat
      /\ \A e \in chart : e.at \in Nat
  BY ChartRows, ChartTypeStays DEF ChartInv, ChartTypeOK, Entry
<1>2. /\ \A e \in Processed : e.at <= asOf
      /\ \A e \in Processed : \A f \in waiting : Before(EntryRow(e), EntryRow(f))
      /\ fee # NoDebt => \E e \in Processed :
            /\ e.fee > 0 /\ fee = FeeRow(e) /\ e.at = asOf
            /\ \A f \in Processed \ {e} : Before(EntryRow(f), EntryRow(e))
  BY DEF OrderInv
<1>3. CASE waiting' = waiting /\ fee' \in {fee, NoDebt} /\ asOf' = asOf
  <2>1. Processed' = Processed
    BY <1>1, <1>3 DEF Processed
  <2> QED
    BY <1>2, <1>3, <2>1 DEF OrderInv
<1>4. ASSUME NEW e \in waiting, Process(e) PROVE OrderInv'
  <2>1. /\ asOf <= e.at /\ asOf' = e.at /\ waiting' = waiting \ {e}
        /\ fee' = (IF e.fee > 0 THEN FeeRow(e) ELSE NoDebt)
        /\ \A f \in waiting \ {e} : Before(EntryRow(e), EntryRow(f))
    BY <1>4, ProcessTime DEF Process
  <2>2. Processed' = Processed \cup {e} /\ e \notin Processed /\ e \in chart
    BY <1>1, <2>1 DEF Processed
  <2>3. ASSUME NEW f \in Processed PROVE f.at <= e.at
    <3>1. f.at <= asOf /\ f.at \in Nat /\ e.at \in Nat
      BY <1>1, <1>2, <2>2 DEF Processed
    <3> QED
      BY <1>1, <2>1, <3>1
  <2>4. \A f \in Processed' : f.at <= asOf'
    BY <1>1, <2>1, <2>2, <2>3
  <2>5. \A f \in Processed' : \A g \in waiting' : Before(EntryRow(f), EntryRow(g))
    BY <1>2, <2>1, <2>2
  <2>6. \A f \in Processed' \ {e} : Before(EntryRow(f), EntryRow(e))
    BY <1>2, <2>2
  <2>7. fee' # NoDebt => e \in Processed' /\ e.fee > 0 /\ fee' = FeeRow(e) /\ e.at = asOf'
    BY <2>1, <2>2
  <2> QED
    BY <2>4, <2>5, <2>6, <2>7 DEF OrderInv
<1>5. CASE EndDay
  <2>1. /\ asOf' = Cutoff /\ fee = NoDebt /\ fee' = fee /\ waiting' = waiting /\ Day <= Len(DayEnds)
    BY <1>5 DEF EndDay, Between
  <2>2. Cutoff \in Nat /\ asOf <= Cutoff
    BY <2>1, DayProperties DEF ChartInv, TimeOK
  <2>3. Processed' = Processed
    BY <1>1, <2>1 DEF Processed
  <2>4. ASSUME NEW e \in Processed PROVE e.at <= Cutoff
    BY <1>1, <1>2, <2>2 DEF Processed
  <2> QED
    BY <1>2, <2>1, <2>3, <2>4 DEF OrderInv
<1>6. CASE Mature \/ StartFee \/ TakeFromLot \/ EndDisposal \/ UNCHANGED chartVars
  BY <1>3, <1>6 DEF Mature, StartFee, TakeFromLot, EndDisposal, chartVars
<1> QED
  BY <1>4, <1>5, <1>6 DEF ChartNext

\* What is done was in time.
LEMMA DoneByNow ==
  ASSUME ChartInv, OrderInv, NEW s \in Expand(chart) \ Undone
  PROVE  s.at <= asOf /\ s.at \in Nat
<1>1. PICK e \in chart : s = EntryRow(e) \/ (e.fee > 0 /\ s = FeeRow(e))
  BY RowIsOf
<1>2. e \in Processed
  BY <1>1, UndoneIs DEF Processed
<1>3. s.at = e.at
  BY <1>1 DEF EntryRow, FeeRow
<1>4. e.at \in Nat
  BY ChartRows DEF Entry
<1> QED
  BY <1>2, <1>3, <1>4 DEF OrderInv

\* Rows that do not come into the depot.
LEMMA SameRowsIn ==
  ASSUME NEW B, NEW d, NEW u, NEW r, r.depot # d \/ r.out
  PROVE  InRows(B, d, u \ {r}) = InRows(B, d, u)
BY DEF InRows, RowsOf

\* In each depot of the chart the loop takes what came first.
ChartAges == \A d \in Depots : OldestGone(chartLots[d], chart, d, Undone)

\* Every step keeps the ages.
LEMMA ChartAgesStay ==
  ASSUME ChartInv, OrderInv, ChartAges, [ChartNext]_chartVars
  PROVE  ChartAges'
<1>1. /\ chart \in SUBSET Entry /\ IsFiniteSet(chart) /\ Undone \in SUBSET Expand(chart)
      /\ waiting \in SUBSET chart /\ chart' = chart
      /\ chartLots \in [Depots -> Seq(ChartLot)]
      /\ chartLots' \in [Depots -> Seq(ChartLot)]
  BY ChartRows, ChartTypeStays DEF ChartInv, ChartTypeOK
<1>2. \A d \in Depots : OldestGone(chartLots[d], chart, d, Undone)
  BY DEF ChartAges
<1>3. SUFFICES ASSUME NEW d \in Depots PROVE OldestGone(chartLots'[d], chart, d, Undone')
  BY <1>1 DEF ChartAges, Undone, Expand
<1>4. OldestGone(chartLots[d], chart, d, Undone)
  BY <1>2
<1>5. Lotted(chartLots[d]) /\ Lotted(chartLots'[d])
  BY <1>1, ChartLotsAreLotted
<1>6. waiting' = waiting /\ fee' = fee => Undone' = Undone
  BY DEF Undone, Expand
<1>7. CASE Mature
  <2>1. Undone' = Undone
    BY <1>6, <1>7 DEF Mature
  <2>2. /\ Len(chartLots'[d]) = Len(chartLots[d])
        /\ \A i \in 1 .. Len(chartLots[d]) :
              /\ chartLots'[d][i].at = chartLots[d][i].at
              /\ chartLots'[d][i].left = chartLots[d][i].left
    BY <1>7, MatureKeepsAges
  <2> QED
    BY <1>4, <2>1, <2>2, OldestGoneKept
<1>8. ASSUME NEW e \in waiting, Process(e) PROVE OldestGone(chartLots'[d], chart, d, Undone')
  <2> DEFINE r == EntryRow(e)
  <2>1. /\ r \in Undone /\ Undone' = Undone \ {r}
        /\ r.depot = e.depot /\ r.at = e.at /\ r.amount = e.amount /\ r.out = ~ e.into
    BY <1>8, ProcessUndone DEF EntryRow
  <2> HIDE DEF r
  <2>2. CASE chartLots'[d] = chartLots[d] /\ (e.depot # d \/ ~ e.into)
    <3>1. r.depot # d \/ r.out
      BY <2>1, <2>2
    <3>2. InRows(chart, d, Undone \ {r}) = InRows(chart, d, Undone)
      BY <3>1, SameRowsIn
    <3> QED
      BY <1>4, <2>1, <2>2, <3>2, OldestGoneKept
  <2>3. CASE AddLot(e)
    <3> DEFINE L == chartLots[d]
               M == chartLots'[d]
    <3>1. CASE e.depot = d
      <4>1. /\ Len(M) = Len(L) + 1
            /\ \A j \in 1 .. Len(L) : M[j] = L[j]
            /\ M[Len(L) + 1].at = e.at /\ M[Len(L) + 1].left = e.amount /\ e.into
        <5>1. /\ Len(chartLots'[e.depot]) = Len(chartLots[e.depot]) + 1
              /\ \A j \in 1 .. Len(chartLots[e.depot]) :
                    chartLots'[e.depot][j] = chartLots[e.depot][j]
              /\ chartLots'[e.depot][Len(chartLots[e.depot]) + 1].at = e.at
              /\ chartLots'[e.depot][Len(chartLots[e.depot]) + 1].left = e.amount
          BY <1>8, <2>3, AddLotEffect
        <5>2. e.into
          BY <2>3 DEF AddLot
        <5> QED
          BY <3>1, <5>1, <5>2
      <4>2. asOf <= e.at /\ e.at \in Nat /\ asOf \in Nat
        BY <1>8, ProcessTime DEF ChartInv, ChartTypeOK
      <4>3. \A s \in InRows(chart, d, Undone) : s.at <= r.at
        <5>1. ASSUME NEW s \in InRows(chart, d, Undone) PROVE s.at <= r.at
          <6>1. s \in Expand(chart) \ Undone
            BY DEF InRows, RowsOf
          <6>2. s.at \in Nat /\ s.at <= asOf
            BY <6>1, DoneByNow
          <6> QED
            BY <2>1, <4>2, <6>2
        <5> QED
          BY <5>1
      <4>4. \A i \in 1 .. Len(L) : L[i].at <= r.at
        <5>1. ASSUME NEW i \in 1 .. Len(L) PROVE L[i].at <= r.at
          <6>1. L[i].at \in Nat
            BY <1>5 DEF Lotted
          <6>2. L[i].at <= asOf
            BY DEF ChartInv, TimeOK, NotAfter
          <6> QED
            BY <2>1, <4>2, <6>1, <6>2
        <5> QED
          BY <5>1
      <4>5. /\ \A j \in 1 .. Len(L) : M[j].at = L[j].at /\ M[j].left = L[j].left
            /\ M[Len(L) + 1].at = r.at /\ M[Len(L) + 1].left = r.amount
            /\ r.depot = d /\ ~ r.out
        BY <2>1, <3>1, <4>1
      <4> HIDE DEF L, M
      <4>6. OldestGone(M, chart, d, Undone \ {r})
        <5>1. Lotted(L) /\ Lotted(M) /\ OldestGone(L, chart, d, Undone)
          BY <1>4, <1>5 DEF L, M
        <5> QED
          BY <1>1, <2>1, <4>1, <4>3, <4>4, <4>5, <5>1, OldestGoneAfterIn
      <4> QED
        BY <2>1, <4>6 DEF M
    <3>2. CASE e.depot # d
      <4>1. chartLots'[d] = chartLots[d]
        BY <1>8, <2>3, <3>2, AddLotEffect
      <4> QED
        BY <2>2, <3>2, <4>1
    <3> QED
      BY <3>1, <3>2
  <2>4. CASE StartDisposal(e)
    BY <2>2, <2>4 DEF StartDisposal
  <2> QED
    BY <1>8, <2>3, <2>4 DEF Process
<1>9. CASE StartFee
  <2>1. Undone' = Undone \ {fee}
    BY <1>9, FeeUndone
  <2>2. fee.out
    <3>1. fee # NoDebt
      BY <1>9 DEF StartFee
    <3> QED
      BY <3>1 DEF OrderInv, FeeRow
  <2>3. InRows(chart, d, Undone') = InRows(chart, d, Undone)
    BY <2>1, <2>2, SameRowsIn
  <2>4. chartLots' = chartLots
    BY <1>9 DEF StartFee
  <2> QED
    BY <1>4, <2>3, <2>4, OldestGoneKept
<1>10. CASE TakeFromLot
  <2>1. Undone' = Undone
    BY <1>6, <1>10 DEF TakeFromLot
  <2> DEFINE b == debt.depot
             i == chartCursor[b]
             L == chartLots[b]
             used == Least(L[i].left, owed)
             M == Taken(L, i, used)
  <2>2. /\ b \in Depots /\ L \in Seq(ChartLot) /\ i \in 1 .. Len(L)
        /\ used \in Nat /\ used <= L[i].left
        /\ chartLots' = [chartLots EXCEPT ![b] = M]
    BY <1>10, TakeEffect
  <2> HIDE DEF used
  <2>3. /\ M \in Seq(ChartLot) /\ Len(M) = Len(L) /\ M[i].left = L[i].left - used
        /\ \A j \in 1 .. Len(L) : M[j].at = L[j].at
        /\ \A j \in 1 .. Len(L) \ {i} : M[j] = L[j]
    BY <2>2, ChartLotTaken
  <2>4. ChartDepotOK(L, i)
    BY <2>2 DEF ChartInv
  <2>5. /\ \A j \in 1 .. Len(L) : j < i => L[j].left = 0
        /\ \A j, k \in 1 .. Len(L) : j < k => L[j].at <= L[k].at
        /\ \A j \in 1 .. Len(L) \ {i} : M[j].left = L[j].left
    BY <2>3, <2>4 DEF ChartDepotOK
  <2>6. Lotted(L) /\ Lotted(M) /\ OldestGone(L, chart, b, Undone)
    BY <1>2, <2>2, <2>3, ChartLotsAreLotted
  <2> HIDE DEF M, L, i, b
  <2>7. OldestGone(M, chart, b, Undone)
    BY <1>1, <2>2, <2>3, <2>5, <2>6, OldestGoneAfterTaking
  <2>8. chartLots'[b] = M /\ \A c \in Depots \ {b} : chartLots'[c] = chartLots[c]
    BY <1>1, <2>2
  <2> QED
    BY <1>4, <2>1, <2>7, <2>8
<1>11. CASE EndDisposal \/ EndDay \/ UNCHANGED chartVars
  <2>1. waiting' = waiting /\ fee' = fee /\ chartLots' = chartLots
    BY <1>11 DEF EndDisposal, EndDay, chartVars
  <2> QED
    BY <1>4, <1>6, <2>1
<1> QED
  BY <1>7, <1>8, <1>9, <1>10, <1>11 DEF ChartNext

-----------------------------------------------------------------------------
(* What is missing *)

\* The disposal under way, as if it were done: what it has not yet taken.
Owed(d) == IF debt # NoDebt /\ debt.depot = d THEN owed ELSE 0

\* What is left of n when a is taken from it.
LeftAfter(n, a) == IF n > a THEN n - a ELSE 0

\* What depot d lacks when the disposal under way is done.
Lacks(d) == LeftAfter(total[d], Owed(d)) - (CameIn(chart, d, Undone) - WentOut(chart, d, Undone))

WorstIs(S, x) == x \in S /\ \A s \in S : s <= x

\* What a depot without a tie of fees lacks is its worst shortfall so far.
ChartShort ==
    \A d \in Depots : ~ FeeTie(UpTo(asOf), d) => WorstIs(Shorts(chart, d, Undone), Lacks(d))

\* Shortfalls are whole numbers.
LEMMA ShortsAreInts ==
  ASSUME NEW B \in SUBSET Entry, IsFiniteSet(B), NEW d, NEW t
  PROVE  Shorts(B, d, t) \in SUBSET Int
BY ShortIsInt DEF Shorts

\* What comes in does not pay for what was missing.
LEMMA WorstAfterIn ==
  ASSUME NEW S \in SUBSET Int, NEW n \in Nat, NEW c \in Nat, NEW w \in Nat, NEW a \in Nat,
         WorstIs(S, n - (c - w))
  PROVE  WorstIs(S \cup {w - (c + a)}, (n + a) - ((c + a) - w))
<1> DEFINE x == n - (c - w)
           y == w - (c + a)
<1>1. x \in S /\ (\A s \in S : s <= x) /\ x \in Int
  BY DEF WorstIs
<1>2. y <= x /\ y \in Int
  OBVIOUS
<1>3. (n + a) - ((c + a) - w) = x
  OBVIOUS
<1> HIDE DEF x, y
<1>4. WorstIs(S \cup {y}, x)
  BY <1>1, <1>2 DEF WorstIs
<1> QED
  BY <1>3, <1>4 DEF y

\* What leaves is short by what the depot does not hold.
LEMMA WorstAfterOut ==
  ASSUME NEW S \in SUBSET Int, NEW n \in Nat, NEW c \in Nat, NEW w \in Nat, NEW a \in Nat,
         WorstIs(S, n - (c - w))
  PROVE  WorstIs(S \cup {(w + a) - c}, LeftAfter(n, a) - (c - (w + a)))
<1> DEFINE x == n - (c - w)
           y == (w + a) - c
           z == LeftAfter(n, a) - (c - (w + a))
<1>1. x \in S /\ (\A s \in S : s <= x) /\ x \in Int /\ y \in Int
  BY DEF WorstIs
<1>2. CASE n > a
  <2>1. z = x /\ y <= x
    BY <1>2 DEF LeftAfter
  <2> HIDE DEF x, y, z
  <2>2. WorstIs(S \cup {y}, z)
    BY <1>1, <2>1 DEF WorstIs
  <2> QED
    BY <2>2 DEF y, z
<1>3. CASE ~ (n > a)
  <2>1. z = y /\ x <= y
    BY <1>3 DEF LeftAfter
  <2> HIDE DEF x, y, z
  <2>2. \A s \in S : s <= y
    BY <1>1, <2>1
  <2>3. WorstIs(S \cup {y}, z)
    BY <1>1, <2>1, <2>2 DEF WorstIs
  <2> QED
    BY <2>3 DEF y, z
<1> QED
  BY <1>2, <1>3

\* A row is done: what is counted, and what it leaves short.
LEMMA RowDone ==
  ASSUME ChartInv, OrderInv, NEW r \in Undone, NEW d,
         r.depot = d => /\ \A s \in RowsOf(chart, d) \ Undone : Before(s, r)
                        /\ \A s \in Undone \ {r} : s.depot = d => Before(r, s)
  PROVE  LET u == Undone \ {r}
             came == CameIn(chart, d, Undone)
             went == WentOut(chart, d, Undone)
         IN  /\ r.depot = d /\ ~ r.out =>
                  /\ CameIn(chart, d, u) = came + r.amount /\ WentOut(chart, d, u) = went
                  /\ Shorts(chart, d, u) = Shorts(chart, d, Undone) \cup {went - (came + r.amount)}
             /\ r.depot = d /\ r.out =>
                  /\ WentOut(chart, d, u) = went + r.amount /\ CameIn(chart, d, u) = came
                  /\ Shorts(chart, d, u) = Shorts(chart, d, Undone) \cup {(went + r.amount) - came}
             /\ r.depot # d =>
                  /\ CameIn(chart, d, u) = came /\ WentOut(chart, d, u) = went
                  /\ Shorts(chart, d, u) = Shorts(chart, d, Undone)
             /\ came \in Nat /\ went \in Nat /\ r.amount \in Nat
             /\ Shorts(chart, d, Undone) \in SUBSET Int
<1> DEFINE u == Undone \ {r}
           t == Undone
<1>1. /\ chart \in SUBSET Entry /\ IsFiniteSet(chart) /\ t \in SUBSET Expand(chart)
      /\ Expand(chart) \in SUBSET Row /\ r \in t
  BY ChartRows
<1>2. r.amount \in Nat
  BY <1>1 DEF Row
<1>3. CameIn(chart, d, t) \in Nat /\ WentOut(chart, d, t) \in Nat /\ Shorts(chart, d, t) \in SUBSET Int
  BY <1>1, RowSumsAreNat, ShortsAreInts
<1> HIDE DEF t
<1>4. /\ r.depot = d /\ ~ r.out => /\ CameIn(chart, d, t \ {r}) = CameIn(chart, d, t) + r.amount
                                   /\ WentOut(chart, d, t \ {r}) = WentOut(chart, d, t)
      /\ r.depot = d /\ r.out => /\ WentOut(chart, d, t \ {r}) = WentOut(chart, d, t) + r.amount
                                 /\ CameIn(chart, d, t \ {r}) = CameIn(chart, d, t)
      /\ r.depot # d => /\ CameIn(chart, d, t \ {r}) = CameIn(chart, d, t)
                        /\ WentOut(chart, d, t \ {r}) = WentOut(chart, d, t)
  BY <1>1, RowIsCounted
<1>5. r.depot = d => ShortBy(chart, d, r) = WentOut(chart, d, t \ {r}) - CameIn(chart, d, t \ {r})
  BY <1>1, DepotShortIsCounted DEF t
<1>6. Shorts(chart, d, t \ {r}) =
          Shorts(chart, d, t) \cup (IF r.depot = d THEN {ShortBy(chart, d, r)} ELSE {})
  BY <1>1, ShortsGrow
<1>7. /\ r.depot = d /\ ~ r.out =>
           Shorts(chart, d, t \ {r}) = Shorts(chart, d, t)
               \cup {WentOut(chart, d, t) - (CameIn(chart, d, t) + r.amount)}
      /\ r.depot = d /\ r.out =>
           Shorts(chart, d, t \ {r}) = Shorts(chart, d, t)
               \cup {(WentOut(chart, d, t) + r.amount) - CameIn(chart, d, t)}
      /\ r.depot # d => Shorts(chart, d, t \ {r}) = Shorts(chart, d, t)
  BY <1>4, <1>5, <1>6
<1> QED
  BY <1>2, <1>3, <1>4, <1>7 DEF t

\* A tie of fees stays one.
LEMMA TiesStay ==
  ASSUME ChartInv, [ChartNext]_chartVars, NEW d, ~ FeeTie(UpTo(asOf)', d)
  PROVE  ~ FeeTie(UpTo(asOf), d)
<1>1. chart' = chart /\ chart \in SUBSET Entry /\ asOf \in Nat
  BY ChartTypeStays DEF ChartInv, ChartTypeOK
<1>2. asOf' \in Nat /\ asOf <= asOf'
  <2>1. asOf' \in Nat
    BY ChartTypeStays DEF ChartTypeOK
  <2>2. ASSUME NEW e \in waiting, Process(e) PROVE asOf <= asOf'
    BY <2>2, ProcessTime DEF Process
  <2>3. CASE EndDay
    BY <2>3, DayProperties DEF EndDay, Between, ChartInv, TimeOK
  <2>4. CASE asOf' = asOf
    BY <1>1, <2>4
  <2> QED
    BY <2>1, <2>2, <2>3, <2>4 DEF ChartNext, Mature, StartFee, TakeFromLot, EndDisposal, chartVars
<1>3. \A e \in chart : e.at \in Nat
  BY <1>1 DEF Entry
<1>4. UpTo(asOf) \subseteq UpTo(asOf)'
  BY <1>1, <1>2, <1>3 DEF UpTo
<1>5. ~ FeeTie(UpTo(asOf)', d) => ~ FeeTie(UpTo(asOf), d)
  BY <1>4 DEF FeeTie
<1> QED
  BY <1>5

\* When the lots are used up nothing is left.
LEMMA UsedUp ==
  ASSUME ChartInv, NEW d \in Depots, chartCursor[d] > Len(chartLots[d])
  PROVE  total[d] = 0
<1> DEFINE L == chartLots[d]
<1>1. ChartDepotOK(L, chartCursor[d]) /\ total[d] = Total(Lefts(L)) /\ L \in Seq(ChartLot)
      /\ chartCursor[d] \in Nat
  BY DEF ChartInv, ChartSums, SumsAre, ChartTypeOK
<1>2. Lotted(L) /\ Len(L) \in Nat
  BY <1>1, ChartLotsAreLotted, LenProperties
<1>3. Lefts(L) \in [1 .. Len(L) -> Nat] /\ IsFiniteSet(1 .. Len(L))
  <2>1. 0 \in Int
    OBVIOUS
  <2> QED
    BY <1>2, <2>1, LeftsByAge
<1>4. \A i \in 1 .. Len(L) : i < chartCursor[d]
  BY <1>1, <1>2
<1>5. \A i \in 1 .. Len(L) : Lefts(L)[i] = 0
  BY <1>1, <1>4 DEF Lefts, ChartDepotOK
<1> HIDE DEF L
<1>6. Total(Lefts(L)) = 0
  BY <1>3, <1>5, TotalOfZeros
<1> QED
  BY <1>1, <1>6

\* The shortfalls before the first entry.
LEMMA ShortAtFirst ==
  ASSUME ChartInit
  PROVE  ChartAges /\ ChartShort
<1>1. /\ Undone = Expand(chart) /\ chart \in SUBSET Entry /\ IsFiniteSet(chart)
      /\ \A d \in Depots : chartLots[d] = <<>> /\ total[d] = 0
      /\ debt = NoDebt
  BY OrderAtFirst, ChartBookAssumption DEF ChartInit
<1>2. ChartAges
  BY <1>1, OldestGoneAtFirst DEF ChartAges
<1>3. ASSUME NEW d \in Depots
      PROVE  WorstIs(Shorts(chart, d, Undone), Lacks(d))
  <2>1. RowsOf(chart, d) \ Undone = {}
    BY <1>1 DEF RowsOf
  <2>2. Shorts(chart, d, Undone) = {0}
    BY <2>1 DEF Shorts
  <2>3. InRows(chart, d, Undone) = {} /\ OutRows(chart, d, Undone) = {}
    BY <2>1 DEF InRows, OutRows
  <2>4. CameIn(chart, d, Undone) = 0
    <3>1. Amounts(InRows(chart, d, Undone)) \in [InRows(chart, d, Undone) -> Nat]
          /\ IsFiniteSet(InRows(chart, d, Undone))
      BY <1>1, RowSumsAreNat
    <3> QED
      BY <2>3, <3>1, TotalIsNat DEF CameIn
  <2>5. WentOut(chart, d, Undone) = 0
    <3>1. Amounts(OutRows(chart, d, Undone)) \in [OutRows(chart, d, Undone) -> Nat]
          /\ IsFiniteSet(OutRows(chart, d, Undone))
      BY <1>1, RowSumsAreNat
    <3> QED
      BY <2>3, <3>1, TotalIsNat DEF WentOut
  <2>6. Lacks(d) = 0
    BY <1>1, <2>4, <2>5 DEF Lacks, Owed, LeftAfter
  <2> QED
    BY <2>2, <2>6 DEF WorstIs
<1> QED
  BY <1>2, <1>3 DEF ChartShort

\* Every step keeps the shortfalls.
LEMMA ChartShortStays ==
  ASSUME ChartInv, OrderInv, ChartShort, [ChartNext]_chartVars
  PROVE  ChartShort'
<1>1. /\ chart' = chart /\ total \in [Depots -> Nat] /\ owed \in Nat
      /\ chart \in SUBSET Entry /\ IsFiniteSet(chart)
  BY ChartRows, ChartTypeStays DEF ChartInv, ChartTypeOK
<1> DEFINE Owes(d) == IF debt' # NoDebt /\ debt'.depot = d THEN owed' ELSE 0
<1>2. SUFFICES ASSUME NEW d \in Depots, ~ FeeTie(UpTo(asOf)', d)
               PROVE  WorstIs(Shorts(chart, d, Undone'),
                              LeftAfter(total'[d], Owes(d))
                                - (CameIn(chart, d, Undone') - WentOut(chart, d, Undone')))
  <2>1. ASSUME NEW d
        PROVE  /\ CameIn(chart, d, Undone)' = CameIn(chart, d, Undone')
               /\ WentOut(chart, d, Undone)' = WentOut(chart, d, Undone')
               /\ Shorts(chart, d, Undone)' = Shorts(chart, d, Undone')
    BY <1>1 DEF CameIn, WentOut, Shorts, InRows, OutRows, RowsOf, Amounts
  <2>2. ASSUME NEW d
        PROVE  LeftAfter(total[d], Owed(d))' = LeftAfter(total'[d], Owes(d))
    BY DEF Owed
  <2>3. ASSUME NEW d
        PROVE  Lacks(d)' = LeftAfter(total'[d], Owes(d))
                             - (CameIn(chart, d, Undone') - WentOut(chart, d, Undone'))
    BY <2>1, <2>2 DEF Lacks
  <2> HIDE DEF Owes
  <2> QED
    BY <2>1, <2>3 DEF ChartShort
<1> DEFINE came == CameIn(chart, d, Undone)
           went == WentOut(chart, d, Undone)
           S == Shorts(chart, d, Undone)
           n == total[d]
<1>3. WorstIs(S, LeftAfter(n, Owed(d)) - (came - went))
  <2>1. ~ FeeTie(UpTo(asOf), d)
    BY <1>2, TiesStay
  <2> QED
    BY <2>1 DEF ChartShort, Lacks
<1>4. n \in Nat
  BY <1>1
<1>5. came \in Nat /\ went \in Nat /\ S \in SUBSET Int
  BY <1>1, RowSumsAreNat, ShortsAreInts
<1>6. waiting' = waiting /\ fee' = fee => Undone' = Undone
  BY DEF Undone, Expand
<1>7. debt = NoDebt => Owed(d) = 0 /\ LeftAfter(n, Owed(d)) = n
  BY <1>4 DEF Owed, LeftAfter
<1> HIDE DEF n, S, came, went
<1>8. CASE Undone' = Undone /\ LeftAfter(total'[d], Owes(d)) = LeftAfter(n, Owed(d))
  BY <1>3, <1>8 DEF S, came, went
<1>9. CASE Mature \/ EndDay \/ UNCHANGED chartVars
  <2>1. Undone' = Undone /\ total' = total /\ debt' = debt /\ owed' = owed
    BY <1>6, <1>9 DEF Mature, EndDay, chartVars
  <2>2. Owes(d) = Owed(d)
    BY <2>1 DEF Owed
  <2> QED
    BY <1>8, <2>1, <2>2 DEF n
<1>10. ASSUME NEW e \in waiting, Process(e)
       PROVE  WorstIs(Shorts(chart, d, Undone'),
                      LeftAfter(total'[d], Owes(d))
                        - (CameIn(chart, d, Undone') - WentOut(chart, d, Undone')))
  <2> DEFINE r == EntryRow(e)
             a == e.amount
  <2>1. /\ r \in Undone /\ Undone' = Undone \ {r}
        /\ r.depot = e.depot /\ r.amount = a /\ r.out = ~ e.into
    BY <1>10, ProcessUndone DEF EntryRow
  <2>2. UpTo(asOf)' = UpTo(e.at) /\ debt = NoDebt
    BY <1>1, <1>10 DEF Process, Between, UpTo
  <2>3. r.depot = d => /\ \A s \in RowsOf(chart, d) \ Undone : Before(s, r)
                       /\ \A s \in Undone \ {r} : s.depot = d => Before(r, s)
    BY <1>2, <1>10, <2>1, <2>2, ProcessInOrder
  <2> HIDE DEF r, a
  <2>4. /\ r.depot = d /\ ~ r.out =>
             /\ CameIn(chart, d, Undone') = came + a /\ WentOut(chart, d, Undone') = went
             /\ Shorts(chart, d, Undone') = S \cup {went - (came + a)}
        /\ r.depot = d /\ r.out =>
             /\ WentOut(chart, d, Undone') = went + a /\ CameIn(chart, d, Undone') = came
             /\ Shorts(chart, d, Undone') = S \cup {(went + a) - came}
        /\ r.depot # d =>
             /\ CameIn(chart, d, Undone') = came /\ WentOut(chart, d, Undone') = went
             /\ Shorts(chart, d, Undone') = S
        /\ a \in Nat
    BY <2>1, <2>3, RowDone DEF S, came, went
  <2>5. WorstIs(S, n - (came - went))
    BY <1>3, <1>7, <2>2
  <2>6. CASE AddLot(e)
    <3>1. /\ total' = [total EXCEPT ![e.depot] = total[e.depot] + a] /\ debt' = debt /\ e.into
      BY <2>6 DEF AddLot, a
    <3>2. Owes(d) = 0
      BY <2>2, <3>1
    <3>3. e.depot = d => total'[d] = n + a
      BY <1>1, <3>1 DEF n
    <3>4. e.depot # d => total'[d] = n
      BY <1>1, <3>1 DEF n
    <3>5. CASE e.depot = d
      <4>1. LeftAfter(total'[d], Owes(d)) = n + a
        BY <1>4, <2>4, <3>2, <3>3, <3>5 DEF LeftAfter
      <4>2. WorstIs(S \cup {went - (came + a)}, (n + a) - ((came + a) - went))
        BY <1>4, <1>5, <2>4, <2>5, WorstAfterIn
      <4>3. r.depot = d /\ ~ r.out
        BY <2>1, <3>1, <3>5
      <4>4. /\ CameIn(chart, d, Undone') = came + a /\ WentOut(chart, d, Undone') = went
            /\ Shorts(chart, d, Undone') = S \cup {went - (came + a)}
        BY <2>4, <4>3
      <4> QED
        BY <4>1, <4>2, <4>4
    <3>6. CASE e.depot # d
      <4>1. LeftAfter(total'[d], Owes(d)) = n
        BY <1>4, <3>2, <3>4, <3>6 DEF LeftAfter
      <4> QED
        BY <2>1, <2>4, <2>5, <3>6, <4>1
    <3> QED
      BY <3>5, <3>6
  <2>7. CASE StartDisposal(e)
    <3>1. /\ debt' = r /\ owed' = a /\ total' = total /\ ~ e.into
      BY <2>7 DEF StartDisposal, r, a
    <3>2. r # NoDebt
      <4>1. r \in Row
        BY <2>1, ChartRows
      <4> QED
        BY <4>1, NoDebtAssumption
    <3>3. CASE e.depot = d
      <4>1. Owes(d) = a /\ total'[d] = n
        BY <2>1, <3>1, <3>2, <3>3 DEF n
      <4>2. WorstIs(S \cup {(went + a) - came}, LeftAfter(n, a) - (came - (went + a)))
        BY <1>4, <1>5, <2>4, <2>5, WorstAfterOut
      <4>3. r.depot = d /\ r.out
        BY <2>1, <3>1, <3>3
      <4>4. /\ WentOut(chart, d, Undone') = went + a /\ CameIn(chart, d, Undone') = came
            /\ Shorts(chart, d, Undone') = S \cup {(went + a) - came}
        BY <2>4, <4>3
      <4> QED
        BY <4>1, <4>2, <4>4
    <3>4. CASE e.depot # d
      <4>1. LeftAfter(total'[d], Owes(d)) = n
        BY <1>4, <2>1, <3>1, <3>4 DEF LeftAfter, n
      <4> QED
        BY <2>1, <2>4, <2>5, <3>4, <4>1
    <3> QED
      BY <3>3, <3>4
  <2> QED
    BY <1>10, <2>6, <2>7 DEF Process
<1>11. CASE StartFee
  <2> DEFINE a == fee.amount
  <2>1. /\ fee \in Undone /\ fee \in Row /\ Undone' = Undone \ {fee}
        /\ fee # NoDebt /\ debt = NoDebt /\ debt' = fee /\ owed' = a /\ total' = total
        /\ asOf' = asOf
    BY <1>11, FeeUndone DEF StartFee
  <2>2. fee.out
    BY <2>1 DEF OrderInv, FeeRow
  <2>3. fee.depot = d => /\ \A s \in RowsOf(chart, d) \ Undone : Before(s, fee)
                         /\ \A s \in Undone \ {fee} : s.depot = d => Before(fee, s)
    <3>1. ~ FeeTie(UpTo(asOf), d)
      BY <1>2, TiesStay
    <3> QED
      BY <2>1, <3>1, FeeInOrder
  <2>4. /\ fee.depot = d /\ fee.out =>
             /\ WentOut(chart, d, Undone') = went + a /\ CameIn(chart, d, Undone') = came
             /\ Shorts(chart, d, Undone') = S \cup {(went + a) - came}
        /\ fee.depot # d =>
             /\ CameIn(chart, d, Undone') = came /\ WentOut(chart, d, Undone') = went
             /\ Shorts(chart, d, Undone') = S
        /\ a \in Nat
    BY <2>1, <2>3, RowDone DEF S, came, went
  <2> HIDE DEF a
  <2>5. WorstIs(S, n - (came - went))
    BY <1>3, <1>7, <2>1
  <2>6. CASE fee.depot = d
    <3>1. Owes(d) = a /\ total'[d] = n
      BY <2>1, <2>6 DEF n
    <3>2. WorstIs(S \cup {(went + a) - came}, LeftAfter(n, a) - (came - (went + a)))
      BY <1>4, <1>5, <2>4, <2>5, WorstAfterOut
    <3> QED
      BY <2>2, <2>4, <2>6, <3>1, <3>2
  <2>7. CASE fee.depot # d
    <3>1. LeftAfter(total'[d], Owes(d)) = n
      BY <1>4, <2>1, <2>7 DEF LeftAfter, n
    <3> QED
      BY <2>4, <2>5, <2>7, <3>1
  <2> QED
    BY <2>6, <2>7
<1>12. CASE TakeFromLot
  <2>1. Undone' = Undone /\ debt' = debt /\ debt # NoDebt
    BY <1>6, <1>12 DEF TakeFromLot
  <2> DEFINE b == debt.depot
             i == chartCursor[b]
             L == chartLots[b]
             used == Least(L[i].left, owed)
  <2>2. /\ b \in Depots /\ L \in Seq(ChartLot) /\ i \in 1 .. Len(L)
        /\ used \in Nat /\ used <= L[i].left /\ used <= owed
        /\ owed' = owed - used /\ total' = [total EXCEPT ![b] = total[b] - used]
    BY <1>12, TakeEffect
  <2> HIDE DEF used
  <2>3. used <= total[b]
    <3>1. ChartDepotOK(L, i) /\ SumsAre(L, total[b], longTerm[b], shortTerm[b])
      BY <2>2 DEF ChartInv, ChartSums
    <3> HIDE DEF L, i
    <3> QED
      BY <2>2, <3>1, DepotTaken
  <2> HIDE DEF L, i
  <2>4. CASE b = d
    <3>1. Owes(d) = owed - used /\ Owed(d) = owed /\ total'[d] = n - used /\ used <= n
      BY <1>1, <2>1, <2>2, <2>3, <2>4 DEF Owed, n
    <3>2. LeftAfter(n - used, owed - used) = LeftAfter(n, owed)
      BY <1>1, <1>4, <2>2, <3>1 DEF LeftAfter
    <3> QED
      BY <1>8, <2>1, <3>1, <3>2
  <2>5. CASE b # d
    <3>1. Owes(d) = 0 /\ Owed(d) = 0 /\ total'[d] = n
      BY <1>1, <2>1, <2>2, <2>5 DEF Owed, n
    <3> QED
      BY <1>8, <2>1, <3>1
  <2> QED
    BY <2>4, <2>5
<1>13. CASE EndDisposal
  <2>1. /\ Undone' = Undone /\ debt' = NoDebt /\ debt # NoDebt /\ total' = total
        /\ owed = 0 \/ chartCursor[debt.depot] > Len(chartLots[debt.depot])
    BY <1>6, <1>13 DEF EndDisposal
  <2>2. Owes(d) = 0 /\ LeftAfter(total'[d], 0) = n
    BY <1>4, <2>1 DEF LeftAfter, n
  <2>3. CASE debt.depot = d /\ owed # 0
    <3>1. n = 0
      BY <2>1, <2>3, UsedUp DEF n
    <3>2. LeftAfter(n, Owed(d)) = 0
      BY <1>1, <2>1, <2>3, <3>1 DEF Owed, LeftAfter
    <3> QED
      BY <1>8, <2>1, <2>2, <3>1, <3>2
  <2>4. CASE debt.depot # d \/ owed = 0
    <3>1. Owed(d) = 0
      BY <2>4 DEF Owed
    <3>2. LeftAfter(n, Owed(d)) = n
      BY <1>4, <3>1 DEF LeftAfter
    <3> QED
      BY <1>8, <2>1, <2>2, <3>2
  <2> QED
    BY <2>3, <2>4
<1> QED
  BY <1>9, <1>10, <1>11, <1>12, <1>13 DEF ChartNext

-----------------------------------------------------------------------------
(* The snapshots *)

\* At the end of a day the rows of the entries up to it are those that are done.
LEMMA RowsOfTheDay ==
  ASSUME ChartInv, OrderInv, EndDay, NEW d
  PROVE  LET B == UpTo(Cutoff)
         IN  /\ RowsOf(B, d) = RowsOf(chart, d) \ Undone
             /\ \A r \in RowsOf(B, d) : ShortBy(B, d, r) = ShortBy(chart, d, r)
<1> DEFINE B == UpTo(Cutoff)
<1>1. /\ fee = NoDebt /\ Day <= Len(DayEnds) /\ \A e \in waiting : e.at > Cutoff
      /\ Undone = Expand(waiting)
  BY DEF EndDay, Between, Undone
<1>2. /\ chart \in SUBSET Entry /\ waiting \in SUBSET chart /\ Undone \in SUBSET Expand(chart)
      /\ Expand(chart) \in SUBSET Row
      /\ Cutoff \in Nat /\ asOf <= Cutoff /\ asOf \in Nat
  BY <1>1, ChartRows, DayProperties DEF ChartInv, ChartTypeOK, TimeOK
<1>3. \A e \in chart : e.at \in Nat
  BY <1>2 DEF Entry
<1>4. ASSUME NEW e \in chart PROVE e \in B <=> e \notin waiting
  <2>1. e \notin waiting => e.at <= asOf
    BY DEF OrderInv, Processed
  <2> QED
    BY <1>1, <1>2, <1>3, <2>1 DEF UpTo
<1>5. B \subseteq chart
  BY DEF UpTo
<1>6. ASSUME NEW s \in Expand(B) PROVE s \in Expand(chart) /\ s \notin Undone
  <2>1. PICK e \in B : s = EntryRow(e) \/ (e.fee > 0 /\ s = FeeRow(e))
    BY RowIsOf
  <2>2. e \in chart /\ e \notin waiting
    BY <1>4, <1>5, <2>1
  <2>3. s \in Expand(chart)
    BY <2>1, <2>2 DEF Expand
  <2>4. CASE s = EntryRow(e)
    BY <2>2, <2>3, <2>4, UndoneIs
  <2>5. CASE e.fee > 0 /\ s = FeeRow(e)
    <3>1. s \in Row
      BY <1>2, <2>3
    <3>2. fee # FeeRow(e)
      BY <1>1, <2>5, <3>1, NoDebtAssumption
    <3> QED
      BY <2>2, <2>3, <2>5, <3>2, UndoneIs
  <2> QED
    BY <2>1, <2>4, <2>5
<1>7. ASSUME NEW s \in Expand(chart), s \notin Undone PROVE s \in Expand(B)
  <2>1. PICK e \in chart : s = EntryRow(e) \/ (e.fee > 0 /\ s = FeeRow(e))
    BY RowIsOf
  <2>2. e \notin waiting
    BY <1>7, <2>1, UndoneIs
  <2>3. e \in B
    BY <1>4, <2>2
  <2> QED
    BY <2>1, <2>3 DEF Expand
<1> HIDE DEF B
<1>8. RowsOf(B, d) = RowsOf(chart, d) \ Undone
  BY <1>6, <1>7 DEF RowsOf
<1>9. ASSUME NEW r \in RowsOf(B, d) PROVE ShortBy(B, d, r) = ShortBy(chart, d, r)
  <2> DEFINE A == {s \in RowsOf(B, d) : s = r \/ Before(s, r)}
             C == {s \in RowsOf(chart, d) : s = r \/ Before(s, r)}
  <2>1. r \in Expand(chart) \ Undone /\ r \in Row
    BY <1>2, <1>8 DEF RowsOf
  <2>2. r.at <= asOf /\ r.at \in Nat
    BY <2>1, DoneByNow
  <2>3. ASSUME NEW s \in Undone PROVE ~ Before(s, r)
    <3>1. PICK e \in waiting : s = EntryRow(e) \/ (e.fee > 0 /\ s = FeeRow(e))
      BY <1>1, RowIsOf
    <3>2. s.at = e.at
      BY <3>1 DEF EntryRow, FeeRow
    <3>3. s \in Row /\ e.at \in Nat /\ e.at > Cutoff
      BY <1>1, <1>2, <1>3
    <3> QED
      BY <1>2, <2>1, <2>2, <3>2, <3>3, BeforeAt
  <2>4. A = C
    BY <1>8, <2>1, <2>3
  <2>5. ShortBy(B, d, r) = Total(Amounts({s \in A : s.out})) - Total(Amounts({s \in A : ~ s.out}))
    BY DEF ShortBy
  <2>6. ShortBy(chart, d, r) = Total(Amounts({s \in C : s.out})) - Total(Amounts({s \in C : ~ s.out}))
    BY DEF ShortBy
  <2> HIDE DEF A, C
  <2> QED
    BY <2>4, <2>5, <2>6
<1> QED
  BY <1>8, <1>9 DEF B

\* What is missing at the end of a day is what fifo_result would report.
LEMMA DeficitOfTheDay ==
  ASSUME ChartInv, OrderInv, ChartShort, EndDay, NEW d \in Depots, ~ FeeTie(UpTo(Cutoff), d)
  PROVE  LET B == UpTo(Cutoff)
         IN  /\ Deficit(B, d) \in Nat
             /\ total[d] = CameIn(chart, d, Undone) - WentOut(chart, d, Undone) + Deficit(B, d)
<1> DEFINE B == UpTo(Cutoff)
           S == Shorts(chart, d, Undone)
           came == CameIn(chart, d, Undone)
           went == WentOut(chart, d, Undone)
<1>1. /\ debt = NoDebt /\ chart \in SUBSET Entry /\ IsFiniteSet(chart) /\ total[d] \in Nat
  BY ChartRows DEF EndDay, Between, ChartInv, ChartTypeOK
<1>2. ~ FeeTie(UpTo(asOf), d)
  <2>1. UpTo(asOf)' = UpTo(Cutoff)
    BY DEF EndDay, UpTo
  <2> QED
    BY <2>1, TiesStay DEF ChartNext
<1>3. WorstIs(S, Lacks(d))
  BY <1>2 DEF ChartShort
<1>4. S \in SUBSET Int /\ came \in Nat /\ went \in Nat /\ 0 \in S
  BY <1>1, ShortsAreInts, RowSumsAreNat DEF Shorts
<1>5. Lacks(d) = total[d] - (came - went)
  BY <1>1 DEF Lacks, Owed, LeftAfter
<1>6. Deficit(B, d) = Max(S)
  <2>1. RowsOf(B, d) = RowsOf(chart, d) \ Undone
        /\ \A r \in RowsOf(B, d) : ShortBy(B, d, r) = ShortBy(chart, d, r)
    BY RowsOfTheDay
  <2> HIDE DEF B
  <2>2. {ShortBy(B, d, r) : r \in RowsOf(B, d)} = {ShortBy(chart, d, r) : r \in RowsOf(chart, d) \ Undone}
    BY <2>1
  <2>3. {0} \cup {ShortBy(B, d, r) : r \in RowsOf(B, d)} = S
    BY <2>2 DEF Shorts
  <2> QED
    BY <2>3 DEF Deficit
<1> HIDE DEF B, S, came, went
<1>7. Max(S) = Lacks(d)
  BY <1>3, <1>4, MaxIs DEF WorstIs
<1>8. Lacks(d) >= 0 /\ Lacks(d) \in Int
  BY <1>3, <1>4 DEF WorstIs
<1>9. Deficit(B, d) \in Nat /\ total[d] = came - went + Deficit(B, d)
  BY <1>1, <1>4, <1>5, <1>6, <1>7, <1>8
<1> QED
  BY <1>9 DEF B, came, went

\* What is left at the end of a day, by instant, is what fifo_result leaves open.
LEMMA OpenOfTheDay ==
  ASSUME ChartInv, OrderInv, ChartAges, ChartShort, EndDay,
         NEW d \in Depots, ~ FeeTie(UpTo(Cutoff), d), NEW t \in Int
  PROVE  LeftUpTo(chartLots[d], t) = StillOpen(UpTo(Cutoff), d, t)
<1> DEFINE B == UpTo(Cutoff)
           L == chartLots[d]
           u == Undone
<1>1. chart \in SUBSET Entry /\ IsFiniteSet(chart)
  BY ChartRows
<1>2. Lotted(L) /\ total[d] = Total(Lefts(L))
  BY ChartLotsAreLotted DEF ChartInv, ChartTypeOK, ChartSums, SumsAre
<1>3. OldestGone(L, chart, d, u)
  BY DEF ChartAges
<1>4. RowsOf(B, d) = RowsOf(chart, d) \ u
  BY RowsOfTheDay
<1>5. /\ Deficit(B, d) \in Nat
      /\ total[d] = CameIn(chart, d, u) - WentOut(chart, d, u) + Deficit(B, d)
  BY DeficitOfTheDay
<1> HIDE DEF B, L, u
<1>6. \A z \in Int : Received(B, d, z) = CameBy(chart, d, u, z)
  <2>1. \A z \in Int : {r \in RowsOf(B, d) : ~ r.out /\ r.at <= z} = RowsBy(chart, d, u, z)
    BY <1>4 DEF RowsBy, InRows
  <2> QED
    BY <2>1 DEF Received, CameBy
<1>7. Spent(B, d) = WentOut(chart, d, u)
  <2>1. {r \in RowsOf(B, d) : r.out} = OutRows(chart, d, u)
    BY <1>4 DEF OutRows
  <2> QED
    BY <2>1 DEF Spent, WentOut
<1>8. Total(Lefts(L)) = CameIn(chart, d, u) - WentOut(chart, d, u) + Deficit(B, d)
  BY <1>2, <1>5
<1>9. LeftUpTo(L, t) = StillOpen(B, d, t)
  BY <1>1, <1>2, <1>3, <1>5, <1>6, <1>7, <1>8, OpenIsLatest
<1> QED
  BY <1>9 DEF B, L

\* At the end of a day the long-term lots are those old enough, and all lots
\* were acquired by then.
LEMMA ClassesOfTheDay ==
  ASSUME ChartInv, EndDay, NEW d \in Depots
  PROVE  /\ total[d] = LeftUpTo(chartLots[d], Cutoff)
         /\ longTerm[d] = LeftUpTo(chartLots[d], Cutoff - Threshold)
         /\ Cutoff \in Int /\ Cutoff - Threshold \in Int
<1> DEFINE L == chartLots[d]
           t == TRUE
<1>1. /\ Between /\ Day <= Len(DayEnds) /\ ~ RipeAt(Cutoff)
  BY DEF EndDay, Between
<1>2. /\ Cutoff \in Nat /\ asOf <= Cutoff /\ asOf \in Nat /\ Threshold \in Nat
      /\ position \in Nat
  BY <1>1, DayProperties, DayAssumption DEF ChartInv, TimeOK, ChartTypeOK
<1>3. /\ L \in Seq(ChartLot) /\ total[d] = Total(Lefts(L)) /\ longTerm[d] = LeftIn(L, t)
  BY DEF ChartInv, ChartTypeOK, ChartSums, SumsAre
<1>4. Lotted(L) /\ \A i \in 1 .. Len(L) : L[i] \in ChartLot
  BY <1>3, ChartLotsAreLotted
<1>5. ASSUME NEW i \in 1 .. Len(L) PROVE L[i].at <= Cutoff
  <2>1. L[i].at <= asOf /\ L[i].at \in Nat
    BY <1>4 DEF ChartInv, TimeOK, NotAfter, ChartLot
  <2> QED
    BY <1>2, <2>1
<1>6. ASSUME NEW i \in 1 .. Len(L) PROVE L[i].long = t <=> L[i].at <= Cutoff - Threshold
  <2>1. PICK n \in 1 .. Len(due) : due[n].depot = d /\ due[n].lot = i
    BY DEF ChartInv, QueueOK, QueueFits
  <2>2. due[n].at = L[i].at + Threshold /\ (L[i].long <=> n < position)
    BY <2>1 DEF ChartInv, QueueOK, QueueFits
  <2>3. n >= position => Cutoff < due[n].at
    BY <1>1, <1>2, NoneRipe
  <2>4. n < position => due[n].at <= Cutoff
    BY <1>1 DEF ChartInv, TimeOK
  <2>5. due[n].at \in Nat /\ L[i].at \in Nat /\ L[i].long \in BOOLEAN
    BY <1>4, DueIn DEF ChartLot
  <2>6. n < position <=> due[n].at <= Cutoff
    BY <1>2, <2>3, <2>4, <2>5
  <2>7. due[n].at <= Cutoff <=> L[i].at <= Cutoff - Threshold
    BY <1>2, <2>2, <2>5
  <2>8. L[i].long = t <=> L[i].long
    BY <2>5
  <2> QED
    BY <2>2, <2>6, <2>7, <2>8
<1>7. LeftIn(L, t) = LeftUpTo(L, Cutoff - Threshold)
  <2> HIDE DEF L, t
  <2>1. LeftsIn(L, t) = LeftsUpTo(L, Cutoff - Threshold)
    BY <1>6 DEF LeftsIn, LeftsUpTo
  <2> QED
    BY <2>1 DEF LeftIn, LeftUpTo, LeftsIn, LeftsUpTo
<1>8. LeftUpTo(L, Cutoff) = Total(Lefts(L))
  BY <1>2, <1>4, <1>5, AgesAtEnds
<1>9. Cutoff \in Int /\ Cutoff - Threshold \in Int
  BY <1>2
<1>10. longTerm[d] = LeftUpTo(L, Cutoff - Threshold)
  BY <1>3, <1>7
<1>11. total[d] = LeftUpTo(L, Cutoff)
  BY ONLY <1>3, <1>8
<1> HIDE DEF t
<1> QED
  BY <1>9, <1>10, <1>11

\* Every step keeps the snapshots exact.
LEMMA SnapshotsStay ==
  ASSUME ChartInv, OrderInv, ChartAges, ChartShort, ExactWithoutFeeTie,
         [ChartNext]_chartVars
  PROVE  ExactWithoutFeeTie'
<1>1. chart' = chart
  BY ChartTypeStays
<1>2. CASE shots' = shots
  BY <1>1, <1>2 DEF ExactWithoutFeeTie, UpTo
<1>3. CASE EndDay
  <2> DEFINE x == [d \in Depots |-> [total |-> total[d], long |-> longTerm[d]]]
  <2>1. shots' = Append(shots, x) /\ x \in Shot /\ shots \in Seq(Shot)
    BY <1>3 DEF EndDay, Shot, ChartInv, ChartTypeOK
  <2>2. \A d \in Depots : x[d].total = total[d] /\ x[d].long = longTerm[d]
                          /\ x[d] = [total |-> total[d], long |-> longTerm[d]]
    OBVIOUS
  <2> HIDE DEF x
  <2>3. /\ Len(shots') = Len(shots) + 1 /\ Len(shots) \in Nat
        /\ \A i \in 1 .. Len(shots) : shots'[i] = shots[i]
        /\ shots'[Len(shots) + 1] = x
    BY <2>1, AppendProperties, LenProperties
  <2>4. \A t : UpTo(t)' = UpTo(t)
    BY <1>1 DEF UpTo
  <2>5. SUFFICES ASSUME NEW day \in 1 .. Len(shots) + 1, NEW d \in Depots,
                        ~ FeeTie(UpTo(DayEnds[day]), d)
                 PROVE  shots'[day][d] =
                          [total |-> StillOpen(UpTo(DayEnds[day]), d, DayEnds[day]),
                           long |-> StillOpen(UpTo(DayEnds[day]), d, DayEnds[day] - Threshold)]
    BY <1>1, <2>3 DEF ExactWithoutFeeTie, UpTo
  <2>6. CASE day \in 1 .. Len(shots)
    BY <2>3, <2>5, <2>6 DEF ExactWithoutFeeTie
  <2>7. CASE day = Len(shots) + 1
    <3>1. DayEnds[day] = Cutoff
      BY <2>7 DEF Cutoff, Day
    <3>2. /\ total[d] = LeftUpTo(chartLots[d], Cutoff)
          /\ longTerm[d] = LeftUpTo(chartLots[d], Cutoff - Threshold)
          /\ Cutoff \in Int /\ Cutoff - Threshold \in Int
      BY <1>3, ClassesOfTheDay
    <3>3. total[d] = StillOpen(UpTo(Cutoff), d, Cutoff)
      BY <1>3, <2>5, <3>1, <3>2, OpenOfTheDay
    <3>4. longTerm[d] = StillOpen(UpTo(Cutoff), d, Cutoff - Threshold)
      BY <1>3, <2>5, <3>1, <3>2, OpenOfTheDay
    <3> QED
      BY <2>2, <2>3, <2>7, <3>1, <3>3, <3>4
  <2> QED
    BY <2>3, <2>6, <2>7
<1> QED
  BY <1>2, <1>3 DEF ChartNext, Mature, Process, StartFee, TakeFromLot, EndDisposal, chartVars

\* Order, ages, shortfalls and snapshots hold in every state.
LEMMA SnapshotsInductive ==
  ChartSpec => [](ChartInv /\ OrderInv /\ ChartAges /\ ChartShort /\ ExactWithoutFeeTie)
<1> DEFINE All == ChartInv /\ OrderInv /\ ChartAges /\ ChartShort /\ ExactWithoutFeeTie
<1>1. ChartInit => All
  <2> SUFFICES ASSUME ChartInit PROVE All
    OBVIOUS
  <2>1. shots = <<>> /\ Len(shots) = 0
    BY DEF ChartInit
  <2>2. ExactWithoutFeeTie
    BY <2>1 DEF ExactWithoutFeeTie
  <2> QED
    BY <2>2, ChartAtFirst, OrderAtFirst, ShortAtFirst
<1>2. All /\ [ChartNext]_chartVars => All'
  BY ChartStays, OrderStays, ChartAgesStay, ChartShortStays, SnapshotsStay
<1> QED
  BY <1>1, <1>2, PTL DEF ChartSpec

\* For every chart: the types of the one pass over the ledger.
THEOREM ChartTyped == ChartSpec => []ChartTypeOK
<1>1. ChartInv => ChartTypeOK
  BY DEF ChartInv
<1> QED
  BY <1>1, ChartInductive, PTL

\* For every set of depots and every chart: running totals, maturities and
\* snapshots are what building the lots anew would give.
THEOREM SnapshotsAreExact == ChartSpec => []SnapshotsExact
<1>1. ChartInv /\ ExactWithoutFeeTie => SnapshotsExact
  BY SumsAndMaturities DEF SnapshotsExact
<1> QED
  BY <1>1, SnapshotsInductive, PTL

-----------------------------------------------------------------------------
(* RateLimiter.                                                            *)
(*                                                                         *)
(* The deque of a key is the tail of the calls admitted so far, and the    *)
(* calls before the tail are older than the window: a new call then is     *)
(* Limit places after one of those.                                        *)

\* The invariant of one key: e its deque, g its history, w its notice, t now.
Shape(k, e, g, w, t) ==
    /\ e \in Seq(Nat) /\ g \in Seq(Nat) /\ w \in Nat \cup {None}
    /\ Len(e) <= Limit[k] /\ Len(e) <= Len(g)
    /\ \A i \in 1 .. Len(e) : e[i] = g[Len(g) - Len(e) + i]
    /\ \A i \in 1 .. Len(g) - Len(e) : g[i] + Window[k] <= t
    /\ \A i \in 1 .. Len(g) : g[i] <= t
    /\ \A i \in 1 .. Len(g) : i > Limit[k] => g[i] - g[i - Limit[k]] >= Window[k]
    /\ w # None => /\ Len(e) = Limit[k]
                   /\ e[1] + Window[k] <= w
                   /\ w <= e[1] + Window[k] + Second

LimiterInv ==
    /\ LimiterTypeOK
    /\ \A k \in Keys : Shape(k, events[k], granted[k], notice[k], now)

\* What is left of a deque after its n oldest events are dropped.
LEMMA KeptProperties ==
    ASSUME NEW e \in Seq(Nat), NEW n \in 0 .. Len(e)
    PROVE  /\ SubSeq(e, n + 1, Len(e)) \in Seq(Nat)
           /\ Len(SubSeq(e, n + 1, Len(e))) = Len(e) - n
           /\ \A i \in 1 .. Len(e) - n : SubSeq(e, n + 1, Len(e))[i] = e[n + i]
  <1>1. Len(e) \in Nat /\ \A i \in 1 .. Len(e) : e[i] \in Nat
    BY ElementOfSeq, LenProperties
  <1>2. \A i \in n + 1 .. Len(e) : e[i] \in Nat
    BY <1>1
  <1>3. n + 1 \in Int /\ Len(e) \in Int
    BY <1>1
  <1> DEFINE kept == SubSeq(e, n + 1, Len(e))
             size == IF n + 1 <= Len(e) THEN Len(e) - (n + 1) + 1 ELSE 0
  <1>4. /\ kept \in Seq(Nat) /\ Len(kept) = size
        /\ \A i \in 1 .. size : kept[i] = e[(n + 1) + i - 1]
    BY <1>2, <1>3, SubSeqProperties
  <1>5. size = Len(e) - n
    BY <1>1
  <1>6. \A i \in 1 .. Len(e) - n : (n + 1) + i - 1 = n + i
    BY <1>1
  <1> HIDE DEF kept, size
  <1>7. \A i \in 1 .. Len(e) - n : kept[i] = e[n + i]
    BY <1>4, <1>5, <1>6
  <1> QED BY <1>4, <1>5, <1>7 DEF kept

\* The rounding of retry_after: never too early, never a second too late.
LEMMA Rounding ==
    ASSUME NEW x \in Nat
    PROVE  /\ x \div Second \in Nat
           /\ x < Second * (x \div Second + 1)
           /\ Second * (x \div Second) <= x
  <1>1. Second \in Nat \ {0}
    BY ClockAssumption
  <1> QED BY <1>1

\* RetryAfter waits until the oldest event leaves the window, and no second more.
LEMMA RetryAfterProperties ==
    ASSUME NEW k \in Keys, NEW old \in Nat, now \in Nat,
           old <= now, old > now - Window[k]
    PROVE  /\ now + Second * RetryAfter(k, old) \in Nat
           /\ old + Window[k] <= now + Second * RetryAfter(k, old)
           /\ now + Second * RetryAfter(k, old) <= old + Window[k] + Second
  <1> DEFINE x == Window[k] - (now - old)
  <1>1. Window[k] \in Nat \ {0} /\ Second \in Nat \ {0}
    BY RuleAssumption, ClockAssumption
  <1>2. x \in Nat
    BY <1>1
  <1>3. /\ x \div Second \in Nat
        /\ x < Second * (x \div Second + 1)
        /\ Second * (x \div Second) <= x
    BY <1>2, Rounding
  <1>4. RetryAfter(k, old) = x \div Second + 1
    BY <1>3 DEF RetryAfter
  <1>5. Second * (x \div Second + 1) = Second * (x \div Second) + Second
    BY <1>1, <1>3
  <1> HIDE DEF x
  <1>6. Second * (x \div Second + 1) \in Nat
    BY <1>1, <1>3
  <1> QED BY <1>1, <1>2, <1>3, <1>4, <1>5, <1>6 DEF x

\* The indices of an admission, without sequences: e (of length q) is the tail
\* of g (of length p), its n first are too old, l and win are the rule.
Admitted(p, q, n, l, win, t, e, g, e1, g1) ==
    /\ p \in Nat /\ q \in Nat /\ n \in 0 .. q /\ l \in Nat /\ win \in Nat
    /\ t \in Nat /\ q <= p /\ q - n < l
    /\ \A i \in 1 .. p : g[i] \in Nat
    /\ \A i \in 1 .. q : e[i] = g[p - q + i]
    /\ \A i \in 1 .. n : e[i] <= t - win
    /\ \A i \in 1 .. p - q : g[i] + win <= t
    /\ \A i \in 1 .. p : g[i] <= t
    /\ \A i \in 1 .. p : i > l => g[i] - g[i - l] >= win
    /\ \A i \in 1 .. q - n : e1[i] = e[n + i]
    /\ e1[q - n + 1] = t
    /\ \A i \in 1 .. p : g1[i] = g[i]
    /\ g1[p + 1] = t

LEMMA AdmitIndices ==
    ASSUME NEW p, NEW q, NEW n, NEW l, NEW win, NEW t,
           NEW e, NEW g, NEW e1, NEW g1,
           Admitted(p, q, n, l, win, t, e, g, e1, g1)
    PROVE  /\ \A i \in 1 .. q - n + 1 : e1[i] = g1[p - (q - n) + i]
           /\ \A i \in 1 .. p - (q - n) : g1[i] + win <= t
           /\ \A i \in 1 .. p + 1 : g1[i] <= t
           /\ \A i \in 1 .. p + 1 : i > l => g1[i] - g1[i - l] >= win
  <1> USE DEF Admitted
  <1>1. ASSUME NEW i \in 1 .. q - n + 1
        PROVE  e1[i] = g1[p - (q - n) + i]
    <2>1. CASE i = q - n + 1
      <3>1. p - (q - n) + i = p + 1
        BY <2>1
      <3> QED BY <2>1, <3>1
    <2>2. CASE i \in 1 .. q - n
      <3>1. n + i \in 1 .. q /\ p - q + (n + i) \in 1 .. p
        BY <2>2
      <3>2. e1[i] = g[p - q + (n + i)]
        BY <2>2, <3>1
      <3>3. p - (q - n) + i = p - q + (n + i)
        OBVIOUS
      <3> QED BY <3>1, <3>2, <3>3
    <2> QED BY <2>1, <2>2
  <1>2. ASSUME NEW i \in 1 .. p - (q - n)
        PROVE  i \in 1 .. p /\ g[i] + win <= t
    <2>1. i \in 1 .. p
      OBVIOUS
    <2>2. CASE i \in 1 .. p - q
      BY <2>1, <2>2
    <2>3. CASE i - (p - q) \in 1 .. n
      <3>1. i - (p - q) \in 1 .. q /\ p - q + (i - (p - q)) = i
        BY <2>3
      <3>2. e[i - (p - q)] = g[i] /\ e[i - (p - q)] <= t - win
        BY <2>3, <3>1
      <3>3. g[i] \in Nat
        BY <2>1
      <3> QED BY <2>1, <3>2, <3>3
    <2> QED BY <2>2, <2>3
  <1>3. ASSUME NEW i \in 1 .. p - (q - n)
        PROVE  g1[i] + win <= t
    <2>1. i \in 1 .. p /\ g[i] + win <= t
      BY <1>2
    <2> QED BY <2>1
  <1>4. ASSUME NEW i \in 1 .. p + 1
        PROVE  g1[i] <= t
    <2>1. CASE i = p + 1
      BY <2>1
    <2>2. CASE i \in 1 .. p
      BY <2>2
    <2> QED BY <2>1, <2>2
  <1>5. ASSUME NEW i \in 1 .. p + 1, i > l
        PROVE  g1[i] - g1[i - l] >= win
    <2>1. CASE i \in 1 .. p
      <3>1. i - l \in 1 .. p
        BY <1>5, <2>1
      <3>2. g1[i] = g[i] /\ g1[i - l] = g[i - l]
        BY <2>1, <3>1
      <3>3. g[i] - g[i - l] >= win
        BY <1>5, <2>1
      <3> QED BY <3>2, <3>3
    <2>2. CASE i = p + 1
      <3>1. i - l \in 1 .. p - (q - n)
        BY <1>5, <2>2
      <3>2. i - l \in 1 .. p /\ g[i - l] + win <= t
        BY <3>1, <1>2
      <3>3. g1[i - l] = g[i - l] /\ g[i - l] \in Nat
        BY <3>2
      <3> QED BY <3>2, <3>3, <2>2
    <2> QED BY <2>1, <2>2
  <1> QED BY <1>1, <1>3, <1>4, <1>5

\* Admit: the new call goes to the end of the deque and of the history.
LEMMA ShapeAfterAdmit ==
    ASSUME NEW k \in Keys, NEW e, NEW g, NEW w, NEW t \in Nat,
           Shape(k, e, g, w, t),
           NEW n \in 0 .. Len(e), Len(e) - n < Limit[k],
           \A i \in 1 .. n : e[i] <= t - Window[k]
    PROVE  Shape(k, Append(SubSeq(e, n + 1, Len(e)), t), Append(g, t), None, t)
  <1> DEFINE kept == SubSeq(e, n + 1, Len(e))
             e1 == Append(kept, t)
             g1 == Append(g, t)
             p == Len(g)
             q == Len(e)
  <1>1. e \in Seq(Nat) /\ g \in Seq(Nat)
    BY DEF Shape
  <1>2. p \in Nat /\ q \in Nat /\ Limit[k] \in Nat /\ Window[k] \in Nat
    BY <1>1, RuleAssumption, LenProperties
  <1>3. /\ kept \in Seq(Nat) /\ Len(kept) = q - n
        /\ \A i \in 1 .. q - n : kept[i] = e[n + i]
    BY <1>1, KeptProperties
  <1>4. q - n \in Nat
    BY <1>2
  <1>5. /\ e1 \in Seq(Nat) /\ Len(e1) = q - n + 1
        /\ \A i \in 1 .. q - n : e1[i] = kept[i]
        /\ e1[q - n + 1] = t
    BY <1>3, AppendProperties
  <1>6. /\ g1 \in Seq(Nat) /\ Len(g1) = p + 1
        /\ \A i \in 1 .. p : g1[i] = g[i]
        /\ g1[p + 1] = t
    BY <1>1, AppendProperties
  <1>7. \A i \in 1 .. p : g[i] \in Nat
    BY <1>1, ElementOfSeq
  <1>8. \A i \in 1 .. q - n : e1[i] = e[n + i]
    BY <1>3, <1>5
  <1>9. q <= p
    BY DEF Shape
  <1>10. /\ \A i \in 1 .. q : e[i] = g[p - q + i]
         /\ \A i \in 1 .. p - q : g[i] + Window[k] <= t
         /\ \A i \in 1 .. p : g[i] <= t
         /\ \A i \in 1 .. p : i > Limit[k] => g[i] - g[i - Limit[k]] >= Window[k]
    BY DEF Shape
  <1> HIDE DEF kept, e1, g1, p, q
  <1>11. q - n < Limit[k] /\ n \in 0 .. q /\ \A i \in 1 .. n : e[i] <= t - Window[k]
    BY DEF q
  <1>12. /\ \A i \in 1 .. q - n + 1 : e1[i] = g1[p - (q - n) + i]
         /\ \A i \in 1 .. p - (q - n) : g1[i] + Window[k] <= t
         /\ \A i \in 1 .. p + 1 : g1[i] <= t
         /\ \A i \in 1 .. p + 1 : i > Limit[k] => g1[i] - g1[i - Limit[k]] >= Window[k]
    <2>1. Admitted(p, q, n, Limit[k], Window[k], t, e, g, e1, g1)
      BY <1>2, <1>5, <1>6, <1>7, <1>8, <1>9, <1>10, <1>11 DEF Admitted
    <2> QED BY <2>1, AdmitIndices
  <1>13. Len(g1) - Len(e1) = p - (q - n)
    <2>1. Len(e1) = q - n + 1 /\ Len(g1) = p + 1
      BY <1>5, <1>6
    <2>2. p \in Int /\ q \in Int /\ n \in Int
      BY <1>2, <1>11
    <2> QED BY <2>1, <2>2
  <1>14. Len(e1) <= Limit[k] /\ Len(e1) <= Len(g1)
    <2>1. Len(e1) = q - n + 1 /\ Len(g1) = p + 1
      BY <1>5, <1>6
    <2>2. q - n + 1 <= Limit[k] /\ q - n + 1 <= p + 1
      BY <1>2, <1>4, <1>9, <1>11
    <2> QED BY <2>1, <2>2
  <1>15. \A i \in 1 .. Len(e1) : e1[i] = g1[Len(g1) - Len(e1) + i]
    BY <1>5, <1>12, <1>13
  <1>16. \A i \in 1 .. Len(g1) - Len(e1) : g1[i] + Window[k] <= t
    BY <1>12, <1>13
  <1>17. /\ \A i \in 1 .. Len(g1) : g1[i] <= t
         /\ \A i \in 1 .. Len(g1) : i > Limit[k] => g1[i] - g1[i - Limit[k]] >= Window[k]
    BY <1>6, <1>12
  <1>18. Shape(k, e1, g1, None, t)
    BY <1>5, <1>6, <1>14, <1>15, <1>16, <1>17 DEF Shape
  <1> QED BY <1>18 DEF e1, g1, kept, q

\* Time passes: what was old stays old.
LEMMA ShapeAfterTick ==
    ASSUME NEW k \in Keys, NEW e, NEW g, NEW w, NEW t \in Nat,
           Shape(k, e, g, w, t)
    PROVE  Shape(k, e, g, w, t + 1)
  <1>1. Len(g) \in Nat /\ Len(e) \in Nat /\ Window[k] \in Nat
    BY RuleAssumption, LenProperties DEF Shape
  <1>2. \A i \in 1 .. Len(g) : g[i] \in Nat
    BY ElementOfSeq DEF Shape
  <1>3. \A i \in 1 .. Len(g) - Len(e) : i \in 1 .. Len(g)
    BY <1>1
  <1>4. \A i \in 1 .. Len(g) - Len(e) : g[i] + Window[k] <= t + 1
    BY <1>1, <1>2, <1>3 DEF Shape
  <1>5. \A i \in 1 .. Len(g) : g[i] <= t + 1
    BY <1>1, <1>2 DEF Shape
  <1> QED BY <1>4, <1>5 DEF Shape

\* A key without events.
LEMMA ShapeEmpty ==
    ASSUME NEW k \in Keys, NEW t \in Nat
    PROVE  Shape(k, <<>>, <<>>, None, t)
  BY RuleAssumption, NoneAssumption DEF Shape

\* Refuse drops nothing: the deque holds at most Limit events, and Limit remain.
LEMMA RefuseKeepsAll ==
    ASSUME NEW k \in Keys, NEW n \in 0 .. Len(events[k]),
           Shape(k, events[k], granted[k], notice[k], now), Full(k, n)
    PROVE  /\ n = 0 /\ Len(events[k]) = Limit[k]
           /\ Kept(k, n) = events[k]
  <1>1. events[k] \in Seq(Nat)
    BY DEF Shape
  <1>2. Len(events[k]) \in Nat /\ Limit[k] \in Nat \ {0}
    BY <1>1, RuleAssumption, LenProperties
  <1>3. Len(events[k]) - n >= Limit[k] /\ Len(events[k]) <= Limit[k]
    BY DEF Full, Shape
  <1>4. n = 0 /\ Len(events[k]) = Limit[k]
    BY <1>2, <1>3
  <1>5. SubSeq(events[k], 1, Len(events[k])) = events[k]
    BY <1>1, SubSeqFull
  <1> QED BY <1>4, <1>5 DEF Kept

\* Refuse: the deque and the history stay, the notice is honest and tight.
LEMMA ShapeAfterRefuse ==
    ASSUME NEW k \in Keys, NEW n \in 0 .. Len(events[k]), now \in Nat,
           Shape(k, events[k], granted[k], notice[k], now),
           Drops(k, n), Full(k, n)
    PROVE  Shape(k, Kept(k, n), granted[k],
                 now + Second * RetryAfter(k, events[k][n + 1]), now)
  <1> DEFINE w == now + Second * RetryAfter(k, events[k][n + 1])
  <1>1. n = 0 /\ Len(events[k]) = Limit[k] /\ Kept(k, n) = events[k]
    BY RefuseKeepsAll
  <1>2. Len(events[k]) > 0 /\ n + 1 = 1
    BY <1>1, RuleAssumption
  <1>3. events[k][1] > now - Window[k]
    BY <1>1, <1>2 DEF Drops
  <1>4. events[k] \in Seq(Nat) /\ granted[k] \in Seq(Nat)
    BY DEF Shape
  <1>5. events[k][1] \in Nat
    BY <1>2, <1>4, ElementOfSeq
  <1>6. events[k][1] <= now
    <2> DEFINE p == Len(granted[k])
               q == Len(events[k])
    <2>1. p \in Nat /\ q \in Nat /\ q <= p /\ q > 0
      BY <1>2, <1>4, LenProperties DEF Shape
    <2> HIDE DEF p, q
    <2>2. 1 \in 1 .. q /\ p - q + 1 \in 1 .. p
      BY <2>1
    <2>3. events[k][1] = granted[k][p - q + 1]
      BY <2>2 DEF Shape, p, q
    <2>4. granted[k][p - q + 1] <= now
      BY <2>2 DEF Shape, p, q
    <2> QED BY <2>3, <2>4
  <1>7. /\ w \in Nat /\ events[k][1] + Window[k] <= w
        /\ w <= events[k][1] + Window[k] + Second
    BY <1>2, <1>3, <1>5, <1>6, RetryAfterProperties
  <1> HIDE DEF w
  <1>8. Shape(k, events[k], granted[k], w, now)
    BY <1>1, <1>7 DEF Shape
  <1> QED BY <1>1, <1>8 DEF w

\* The three properties of a state, of the invariant.
LEMMA IInvImplies ==
    ASSUME LimiterInv
    PROVE  WindowRespected /\ RetryHonest /\ RetryTight
  <1>1. WindowRespected
    BY DEF LimiterInv, Shape, WindowRespected
  <1>2. RetryTight
    BY DEF LimiterInv, Shape, RetryTight
  <1>3. RetryHonest
    <2> SUFFICES ASSUME NEW k \in Keys, notice[k] # None, now >= notice[k],
                        NEW n \in 0 .. Len(events[k]), Drops(k, n), Full(k, n)
                 PROVE  FALSE
      BY DEF RetryHonest, WouldRefuse
    <2>1. Shape(k, events[k], granted[k], notice[k], now) /\ now \in Nat
      BY DEF LimiterInv, LimiterTypeOK
    <2>2. n = 0 /\ Len(events[k]) = Limit[k]
      BY <2>1, RefuseKeepsAll
    <2>3. events[k][1] > now - Window[k]
      BY <2>2, RuleAssumption DEF Drops
    <2>4. events[k][1] + Window[k] <= notice[k] /\ notice[k] \in Nat
      BY <2>1 DEF Shape
    <2>5. events[k][1] \in Nat
      BY <2>1, <2>2, RuleAssumption, ElementOfSeq DEF Shape
    <2>6. Window[k] \in Nat
      BY RuleAssumption
    <2> QED BY <2>1, <2>3, <2>4, <2>5, <2>6
  <1> QED BY <1>1, <1>2, <1>3

\* The invariant holds initially and every action keeps it.
LEMMA Invariance == LimiterSpec => []LimiterInv
  <1>1. LimiterInit => LimiterInv
    <2> SUFFICES ASSUME LimiterInit PROVE LimiterInv
      OBVIOUS
    <2>1. LimiterTypeOK
      BY DEF LimiterInit, LimiterTypeOK
    <2>2. ASSUME NEW k \in Keys
          PROVE  Shape(k, events[k], granted[k], notice[k], now)
      BY ShapeEmpty DEF LimiterInit
    <2> QED BY <2>1, <2>2 DEF LimiterInv
  <1>2. LimiterInv /\ [LimiterNext]_limiterVars => LimiterInv'
    <2> SUFFICES ASSUME LimiterInv, [LimiterNext]_limiterVars PROVE LimiterInv'
      OBVIOUS
    <2>1. /\ now \in Nat
          /\ events \in [Keys -> Seq(Nat)] /\ granted \in [Keys -> Seq(Nat)]
          /\ notice \in [Keys -> Nat \cup {None}]
          /\ \A k \in Keys : Shape(k, events[k], granted[k], notice[k], now)
      BY DEF LimiterInv, LimiterTypeOK
    <2>2. ASSUME NEW k \in Keys, now' = now,
                 NEW e, NEW g, NEW w, Shape(k, e, g, w, now),
                 events' = [events EXCEPT ![k] = e],
                 granted' = [granted EXCEPT ![k] = g],
                 notice' = [notice EXCEPT ![k] = w]
          PROVE  LimiterInv'
      <3>1. e \in Seq(Nat) /\ g \in Seq(Nat) /\ w \in Nat \cup {None}
        BY <2>2 DEF Shape
      <3>2. LimiterTypeOK'
        BY <2>1, <2>2, <3>1 DEF LimiterTypeOK
      <3>3. ASSUME NEW j \in Keys
            PROVE  Shape(j, events'[j], granted'[j], notice'[j], now')
        <4>1. CASE j = k
          <5>1. events'[j] = e /\ granted'[j] = g /\ notice'[j] = w
            BY <2>1, <2>2, <4>1
          <5> QED BY <5>1, <4>1, <2>2
        <4>2. CASE j # k
          <5>1. /\ events'[j] = events[j] /\ granted'[j] = granted[j]
                /\ notice'[j] = notice[j]
            BY <2>1, <2>2, <4>2
          <5> QED BY <5>1, <2>1, <2>2
        <4> QED BY <4>1, <4>2
      <3> QED BY <3>2, <3>3 DEF LimiterInv, Shape
    <2>3. ASSUME NEW k \in Keys, Admit(k)
          PROVE  LimiterInv'
      <3>1. PICK n \in 0 .. Len(events[k]) :
               /\ Drops(k, n) /\ ~ Full(k, n)
               /\ events' = [events EXCEPT ![k] = Append(Kept(k, n), now)]
               /\ granted' = [granted EXCEPT ![k] = Append(@, now)]
               /\ notice' = [notice EXCEPT ![k] = None]
               /\ now' = now
        BY <2>3 DEF Admit
      <3>2. Shape(k, events[k], granted[k], notice[k], now)
        BY <2>1
      <3>3. Len(events[k]) - n < Limit[k]
        <4>1. Len(events[k]) \in Nat /\ Limit[k] \in Nat
          BY <2>1, RuleAssumption, LenProperties
        <4> QED BY <3>1, <4>1 DEF Full
      <3>4. \A i \in 1 .. n : events[k][i] <= now - Window[k]
        BY <3>1 DEF Drops
      <3>5. Shape(k, Append(Kept(k, n), now), Append(granted[k], now), None, now)
        BY <2>1, <3>2, <3>3, <3>4, ShapeAfterAdmit DEF Kept
      <3>6. granted' = [granted EXCEPT ![k] = Append(granted[k], now)]
        BY <3>1
      <3> QED BY <2>2, <3>1, <3>5, <3>6
    <2>4. ASSUME NEW k \in Keys, Refuse(k)
          PROVE  LimiterInv'
      <3> DEFINE w(n) == now + Second * RetryAfter(k, events[k][n + 1])
      <3>1. PICK n \in 0 .. Len(events[k]) :
               /\ Drops(k, n) /\ Full(k, n)
               /\ events' = [events EXCEPT ![k] = Kept(k, n)]
               /\ notice' = [notice EXCEPT ![k] = w(n)]
               /\ now' = now /\ granted' = granted
        BY <2>4 DEF Refuse
      <3>2. Shape(k, Kept(k, n), granted[k], w(n), now)
        BY <2>1, <3>1, ShapeAfterRefuse
      <3> HIDE DEF w
      <3>3. granted' = [granted EXCEPT ![k] = granted[k]]
        BY <2>1, <3>1
      <3> QED BY <2>2, <3>1, <3>2, <3>3
    <2>5. ASSUME NEW k \in Unlocks, ClearUser(k)
          PROVE  LimiterInv'
      <3>1. k \in Keys /\ Shape(k, <<>>, <<>>, None, now)
        BY <2>1, ShapeEmpty, RuleAssumption
      <3> QED BY <2>2, <2>5, <3>1 DEF ClearUser
    <2>6. CASE Restart
      <3>1. LimiterTypeOK'
        BY <2>1, <2>6 DEF Restart, LimiterTypeOK
      <3>2. ASSUME NEW k \in Keys
            PROVE  Shape(k, events'[k], granted'[k], notice'[k], now')
        BY <2>1, <2>6, ShapeEmpty DEF Restart
      <3> QED BY <3>1, <3>2 DEF LimiterInv, Shape
    <2>7. CASE Tick
      <3>1. LimiterTypeOK'
        BY <2>1, <2>7 DEF Tick, LimiterTypeOK
      <3>2. ASSUME NEW k \in Keys
            PROVE  Shape(k, events'[k], granted'[k], notice'[k], now')
        <4>1. Shape(k, events[k], granted[k], notice[k], now + 1)
          BY <2>1, ShapeAfterTick
        <4> QED BY <4>1, <2>7 DEF Tick
      <3> QED BY <3>1, <3>2 DEF LimiterInv, Shape
    <2>8. CASE UNCHANGED limiterVars
      BY <2>1, <2>8 DEF limiterVars, LimiterInv, LimiterTypeOK, Shape
    <2> QED BY <2>3, <2>4, <2>5, <2>6, <2>7, <2>8 DEF LimiterNext
  <1> QED BY <1>1, <1>2, PTL DEF LimiterSpec

\* Every variable keeps its type, for every set of keys and every rule.
THEOREM LimiterTyped == LimiterSpec => []LimiterTypeOK
  <1>1. LimiterInv => LimiterTypeOK
    BY DEF LimiterInv
  <1> QED BY <1>1, Invariance, PTL

\* No window of time admits more calls than the rule allows, although check
\* forgets the events it drops.
THEOREM WindowIsRespected == LimiterSpec => []WindowRespected
  <1>1. LimiterInv => WindowRespected
    BY IInvImplies
  <1> QED BY <1>1, Invariance, PTL

\* Who waits the seconds it was told is admitted, and is told to wait at most a
\* second longer than it has to.
THEOREM RetryIsRight == LimiterSpec => []RetryRight
  <1>1. LimiterInv => RetryRight
    BY IInvImplies DEF RetryRight
  <1> QED BY <1>1, Invariance, PTL

=============================================================================
