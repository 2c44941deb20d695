------------------------- MODULE FrameParser_proofs -------------------------
(***************************************************************************)
(* For every width of a byte, every limit of the receiver below it and     *)
(* every set of requests: the parser never copies more than its buffer     *)
(* holds, its checksum loop ends, one damaged byte never gets a command    *)
(* run, and no transmission of a frame runs two.                           *)
(***************************************************************************)
EXTENDS FrameParser, TLAPS, NaturalsInduction, WellFoundedInduction,
        SequenceTheorems

-----------------------------------------------------------------------------
(* Induction over the natural numbers, for sets.                           *)
Less == OpToRel(<, Nat)

LEMMA LeastNumber ==
    ASSUME NEW T, T \subseteq Nat, T # {}
    PROVE  \E x \in T : \A y \in T : x <= y
<1>1. IsWellFoundedOn(Less, Nat)
  BY NatLessThanWellFounded DEF Less
<1>2. PICK x \in T : \A y \in T : ~(<<y, x>> \in Less)
  BY <1>1, WFMin
<1>3. \A y \in T : y \in Nat /\ x \in Nat /\ ~(y < x)
  BY <1>2 DEF Less, OpToRel
<1> QED
  BY <1>3

-----------------------------------------------------------------------------
(* The checksum.                                                           *)

(* The partial sums that TotalUpTo is the last of.                         *)
Totals(s) ==
    CHOOSE t : t = [n \in 0..Len(s) |->
                      IF n = 0 THEN 0 ELSE (t[n - 1] + s[n]) % Width]

LEMMA TotalsExist ==
    ASSUME NEW s \in Seq(Byte)
    PROVE  Totals(s) = [n \in 0..Len(s) |->
                          IF n = 0 THEN 0 ELSE (Totals(s)[n - 1] + s[n]) % Width]
<1> DEFINE Sums(m, t) == t = [n \in 0..m |->
                                IF n = 0 THEN 0 ELSE (t[n - 1] + s[n]) % Width]
           Without == {m \in Nat : ~ \E t : Sums(m, t)}
<1>1. Without = {}
  <2> SUFFICES ASSUME Without # {} PROVE FALSE
    OBVIOUS
  <2>1. PICK m \in Without : \A y \in Without : m <= y
    BY LeastNumber
  <2>2. m \in Nat /\ \A t : ~Sums(m, t)
    BY <2>1
  <2>3. CASE m = 0
    <3> DEFINE t == [n \in 0..0 |-> 0]
    <3>1. t = [n \in 0..0 |-> IF n = 0 THEN 0 ELSE (t[n - 1] + s[n]) % Width]
      OBVIOUS
    <3> QED
      BY <2>2, <2>3, <3>1
  <2>4. CASE m # 0
    <3>1. m - 1 \in Nat /\ m - 1 \notin Without
      <4>1. m - 1 \in Nat /\ ~(m <= m - 1)
        BY <2>2, <2>4
      <4> QED
        BY <2>1, <4>1
    <3>2. PICK t : Sums(m - 1, t)
      BY <3>1
    <3> DEFINE u == [n \in 0..m |-> IF n = m THEN (t[m - 1] + s[m]) % Width
                                             ELSE t[n]]
    <3>3. \A n \in 0..(m - 1) : u[n] = t[n]
      BY <2>2
    <3>4. \A n \in 0..(m - 1) :
            t[n] = IF n = 0 THEN 0 ELSE (t[n - 1] + s[n]) % Width
      BY <3>2
    <3>5. ASSUME NEW n \in 0..m
          PROVE  u[n] = IF n = 0 THEN 0 ELSE (u[n - 1] + s[n]) % Width
      <4>1. CASE n = m
        <5>1. m - 1 \in 0..(m - 1) /\ m \in 0..m
          BY <3>1
        <5>2. u[m] = (t[m - 1] + s[m]) % Width /\ u[m - 1] = t[m - 1]
          BY <3>3, <5>1
        <5> QED
          BY <2>4, <4>1, <5>2
      <4>2. CASE n # m
        <5>1. n \in 0..(m - 1) /\ (n # 0 => n - 1 \in 0..(m - 1))
          BY <2>2, <4>2
        <5> QED
          BY <3>3, <3>4, <5>1
      <4> QED
        BY <4>1, <4>2
    <3>6. Sums(m, u)
      BY <3>5
    <3> QED
      BY <2>2, <3>6
  <2> QED
    BY <2>3, <2>4
<1>2. Len(s) \in Nat
  OBVIOUS
<1>3. \E t : Sums(Len(s), t)
  BY <1>1, <1>2
<1> QED
  BY <1>3 DEF Totals

LEMMA Quotient ==
    ASSUME NEW n \in Nat, NEW m \in Nat \ {0}
    PROVE  /\ n \div m \in Nat /\ n % m \in 0..(m - 1)
           /\ (n \div m) * m + (n % m) = n
BY Z3

(* A sum of two bytes, and what it is as a byte.                           *)
LEMMA ByteSum ==
    ASSUME NEW x \in Byte, NEW y \in Byte
    PROVE  (x + y) % Width = IF x + y < Width THEN x + y ELSE x + y - Width
<1>1. /\ x + y \in Nat /\ Width \in Nat \ {0} /\ x + y < 2 * Width
  BY WidthAssumption DEF Byte
<1> DEFINE q == (x + y) \div Width
           r == (x + y) % Width
<1>2. q \in Nat /\ r \in 0..(Width - 1) /\ q * Width + r = x + y
  BY <1>1, Quotient
<1> HIDE DEF q, r
<1>3. q < 2
  <2>1. q >= 2 => q * Width >= 2 * Width
    BY <1>1, <1>2, Z3
  <2> QED
    BY <1>1, <1>2, <2>1, Z3
<1>4. CASE q = 0
  <2>1. q * Width = 0
    BY <1>1, <1>4
  <2>2. \A z \in Nat : 0 + z = z
    OBVIOUS
  <2>3. r = x + y
    BY <1>2, <2>1, <2>2
  <2> QED
    BY <1>1, <1>2, <2>3 DEF r
<1>5. CASE q = 1
  <2>1. q * Width = Width
    BY <1>1, <1>5
  <2>2. Width + r = x + y
    <3>1. \A p : p = Width /\ p + r = x + y => Width + r = x + y
      OBVIOUS
    <3> QED
      BY <1>2, <2>1, <3>1
  <2>3. r = x + y - Width /\ ~(x + y < Width)
    BY <1>1, <1>2, <2>2 DEF Byte
  <2> QED
    BY <2>3 DEF r
<1>6. q = 0 \/ q = 1
  BY <1>2, <1>3
<1> QED
  BY <1>4, <1>5, <1>6

LEMMA TotalsAre ==
    ASSUME NEW s \in Seq(Byte)
    PROVE  /\ TotalUpTo(s) = Totals(s)[Len(s)]
           /\ Totals(s)[0] = 0
           /\ \A n \in 1..Len(s) : Totals(s)[n] = (Totals(s)[n - 1] + s[n]) % Width
           /\ \A n \in 0..Len(s) : Totals(s)[n] \in Byte
<1> DEFINE T == Totals(s)
           Wrong == {n \in 0..Len(s) : T[n] \notin Byte}
<1>0. Len(s) \in Nat
  OBVIOUS
<1>1. T = [n \in 0..Len(s) |-> IF n = 0 THEN 0 ELSE (T[n - 1] + s[n]) % Width]
  BY TotalsExist
<1>2. TotalUpTo(s) = T[Len(s)]
  BY DEF TotalUpTo, Totals
<1> HIDE DEF T
<1>3. T[0] = 0 /\ \A n \in 1..Len(s) : T[n] = (T[n - 1] + s[n]) % Width
  <2>1. 0 \in 0..Len(s) /\ \A n \in 1..Len(s) : n \in 0..Len(s) /\ n # 0
    BY <1>0
  <2>2. \A n \in 0..Len(s) :
          T[n] = IF n = 0 THEN 0 ELSE (T[n - 1] + s[n]) % Width
    BY <1>1
  <2> QED
    BY <2>1, <2>2
<1>4. Wrong = {}
  <2> SUFFICES ASSUME Wrong # {} PROVE FALSE
    OBVIOUS
  <2>0. Wrong \subseteq Nat
    BY <1>0
  <2>1. PICK n \in Wrong : \A y \in Wrong : n <= y
    <3> HIDE DEF Wrong
    <3> QED
      BY <2>0, LeastNumber
  <2>2. n \in 0..Len(s) /\ T[n] \notin Byte /\ n # 0
    BY <1>3, <2>1, WidthAssumption DEF Byte
  <2>3. n - 1 \in 0..Len(s) /\ ~(n <= n - 1) /\ n \in 1..Len(s)
    BY <1>0, <2>2
  <2>4. T[n - 1] \in Byte /\ s[n] \in Byte
    BY <2>1, <2>3
  <2>5. T[n] \in Byte
    <3>1. T[n] = IF T[n - 1] + s[n] < Width THEN T[n - 1] + s[n]
                                           ELSE T[n - 1] + s[n] - Width
      BY <1>3, <2>3, <2>4, ByteSum
    <3>2. \A x, y \in Byte :
             (IF x + y < Width THEN x + y ELSE x + y - Width) \in Byte
      BY ONLY WidthAssumption DEF Byte
    <3> HIDE DEF T
    <3> QED
      BY ONLY <2>4, <3>1, <3>2
  <2> QED
    BY <2>2, <2>5
<1> QED
  BY <1>2, <1>3, <1>4 DEF T

LEMMA SameByteAdded ==
    ASSUME NEW x \in Byte, NEW y \in Byte, NEW c \in Byte,
           \/ (x + c) % Width = (y + c) % Width
           \/ (c + x) % Width = (c + y) % Width
    PROVE  x = y
<1>1. /\ (x + c) % Width = IF x + c < Width THEN x + c ELSE x + c - Width
      /\ (y + c) % Width = IF y + c < Width THEN y + c ELSE y + c - Width
      /\ (c + x) % Width = IF c + x < Width THEN c + x ELSE c + x - Width
      /\ (c + y) % Width = IF c + y < Width THEN c + y ELSE c + y - Width
  BY ByteSum
<1> QED
  BY <1>1, WidthAssumption DEF Byte

(* Sums of equal bytes are equal; if one byte differs, so do the sums.     *)
LEMMA OneByteShows ==
    ASSUME NEW a \in Seq(Byte), NEW f \in Seq(Byte), Len(a) = Len(f),
           NEW i \in 1..Len(a), a[i] # f[i],
           \A k \in 1..Len(a) : k # i => a[k] = f[k]
    PROVE  TotalUpTo(a) # TotalUpTo(f)
<1> DEFINE A == Totals(a)
           F == Totals(f)
           Wrong == {k \in 0..Len(a) : (A[k] = F[k]) # (k < i)}
<1>0. Len(a) \in Nat /\ i \in Nat /\ i >= 1 /\ i <= Len(a)
  OBVIOUS
<1>1. /\ TotalUpTo(a) = A[Len(a)] /\ TotalUpTo(f) = F[Len(a)]
      /\ A[0] = 0 /\ F[0] = 0
      /\ \A n \in 1..Len(a) : /\ A[n] = (A[n - 1] + a[n]) % Width
                             /\ F[n] = (F[n - 1] + f[n]) % Width
      /\ \A n \in 0..Len(a) : A[n] \in Byte /\ F[n] \in Byte
  BY TotalsAre
<1> HIDE DEF A, F
<1>2. Wrong = {}
  <2> SUFFICES ASSUME Wrong # {} PROVE FALSE
    OBVIOUS
  <2>1. Wrong \subseteq Nat
    BY <1>0
  <2>2. PICK k \in Wrong : \A y \in Wrong : k <= y
    <3> HIDE DEF Wrong
    <3> QED
      BY <2>1, LeastNumber
  <2>3. k \in 0..Len(a) /\ (A[k] = F[k]) # (k < i) /\ k # 0
    BY <1>0, <1>1, <2>2
  <2>4. k \in 1..Len(a) /\ k - 1 \in 0..Len(a) /\ ~(k <= k - 1)
    BY <1>0, <2>3
  <2>5. (A[k - 1] = F[k - 1]) = (k - 1 < i)
    BY <2>2, <2>4
  <2>6. /\ A[k] = (A[k - 1] + a[k]) % Width
        /\ F[k] = (F[k - 1] + f[k]) % Width
        /\ A[k - 1] \in Byte /\ F[k - 1] \in Byte
        /\ a[k] \in Byte /\ f[k] \in Byte
    BY <1>1, <2>4
  <2>7. CASE k = i
    <3>1. A[k - 1] = F[k - 1]
      BY <1>0, <2>5, <2>7
    <3>2. A[k] # F[k]
      BY <2>6, <2>7, <3>1, SameByteAdded
    <3> QED
      BY <1>0, <2>3, <2>7, <3>2
  <2>8. CASE k # i
    <3>1. a[k] = f[k]
      BY <2>4, <2>8
    <3>2. A[k] = F[k] <=> A[k - 1] = F[k - 1]
      BY <2>6, <3>1, SameByteAdded
    <3>3. k < i <=> k - 1 < i
      BY <1>0, <2>4, <2>8
    <3> QED
      BY <2>3, <2>5, <3>2, <3>3
  <2> QED
    BY <2>7, <2>8
<1>3. Len(a) \in 0..Len(a) /\ ~(Len(a) < i)
  BY <1>0
<1> QED
  BY <1>1, <1>2, <1>3

-----------------------------------------------------------------------------
(* What the host sends.                                                    *)
LEMMA FrameIs ==
    ASSUME NEW r \in Requests
    PROVE  LET f == Frame(r)
           IN  /\ f \in Seq(Byte)
               /\ Len(f) = HeaderSize + Len(r.data) + 1
               /\ f[1] = Marker /\ f[LengthAt] = Len(r.data)
               /\ Checksum(f, Len(f) - 1) = f[Len(f)]
<1> DEFINE head == <<Marker, r.command, Req, Len(r.data)>>
           body == head \o r.data
           f == Frame(r)
<1>1. r.command \in Byte /\ r.data \in Seq(Byte) /\ Len(r.data) \in Byte
      /\ Marker \in Byte /\ Req \in Byte
  BY RequestsAssumption, MarkerAssumption, WidthAssumption DEF Byte, Req
<1>2. head \in Seq(Byte) /\ Len(head) = 4 /\ head[1] = Marker
      /\ head[4] = Len(r.data)
  BY <1>1
<1>3. Len(r.data) \in Nat
  BY <1>1
<1> HIDE DEF head
<1>4. /\ body \in Seq(Byte) /\ Len(body) = 4 + Len(r.data)
      /\ body[1] = Marker /\ body[4] = Len(r.data)
  <2>1. ASSUME NEW d \in Seq(Byte)
        PROVE  /\ head \o d \in Seq(Byte) /\ Len(head \o d) = 4 + Len(d)
               /\ (head \o d)[1] = head[1] /\ (head \o d)[4] = head[4]
    <3>1. /\ head \o d \in Seq(Byte) /\ Len(head \o d) = Len(head) + Len(d)
          /\ \A i \in 1..(Len(head) + Len(d)) :
               (head \o d)[i] = IF i <= Len(head) THEN head[i]
                                                 ELSE d[i - Len(head)]
      <4>1. head \in Seq(Byte)
        BY <1>2
      <4> QED
        BY ONLY <4>1, d \in Seq(Byte), ConcatProperties, Zenon
    <3>2. Len(d) \in Nat
      OBVIOUS
    <3>3. 1 \in 1..(4 + Len(d)) /\ 4 \in 1..(4 + Len(d))
      BY <3>2
    <3> QED
      BY <1>2, <3>1, <3>3
  <2> QED
    BY <1>1, <1>2, <2>1
<1>5. f = Append(body, Checksum(body, Len(body)))
  BY DEF Frame, head
<1> HIDE DEF body
<1>6. SubSeq(body, 2, Len(body)) \in Seq(Byte)
  BY <1>3, <1>4
<1>7. Checksum(body, Len(body)) \in Byte
  <2>1. \A s \in Seq(Byte) : TotalUpTo(s) \in Byte
    BY TotalsAre
  <2> QED
    BY <1>6, <2>1 DEF Checksum
<1> DEFINE c == Checksum(body, Len(body))
<1> HIDE DEF f, c
<1>8. /\ f \in Seq(Byte) /\ Len(f) = 5 + Len(r.data)
      /\ \A i \in 1..Len(body) : f[i] = body[i]
      /\ f[Len(f)] = c
  BY <1>3, <1>4, <1>5, <1>7 DEF c
<1>9. SubSeq(f, 2, Len(f) - 1) = SubSeq(body, 2, Len(body))
  BY <1>3, <1>4, <1>8
<1>10. Checksum(f, Len(f) - 1) = f[Len(f)]
  BY <1>8, <1>9 DEF Checksum, c
<1> QED
  BY <1>3, <1>4, <1>8, <1>10 DEF f, HeaderSize, LengthAt

(* The receiver keeps to its limit, and expected_len goes with the state.  *)
Limits ==
    /\ Len(buf) <= MaxRx
    /\ state = "waiting" => expected = 1
    /\ state = "marker done" => expected = HeaderSize

ParserInv == TypeOK /\ Limits

(* What one received byte does to the receive buffer.                      *)
LEMMA StoreKeepsBuffer ==
    ASSUME buf \in Seq(Byte), Len(buf) <= MaxRx, NEW b \in Byte, Store(b)
    PROVE  buf' \in Seq(Byte) /\ Len(buf') <= MaxRx
<1>1. CASE rxOn /\ Len(buf) < MaxRx
  <2>1. buf' = Append(buf, b)
    BY <1>1 DEF Store
  <2> QED
    BY <2>1, <1>1, MaxRxAssumption, WidthAssumption
<1>2. CASE ~(rxOn /\ Len(buf) < MaxRx)
  BY <1>2 DEF Store
<1> QED
  BY <1>1, <1>2

(* Bytes the host sends are bytes, and its position stays in the frame.    *)
LEMMA NextByte ==
    ASSUME TypeOK, NEW whole \in BOOLEAN, Leaves(whole)
    PROVE  /\ frame[at] \in Byte
           /\ at' \in 1..(Len(frame') + 1)
           /\ fresh' \in BOOLEAN /\ inStep' \in BOOLEAN
           /\ UNCHANGED <<request, frame, rxOn, state, expected, phase>>
<1>1. frame \in Seq(Byte) /\ at \in 1..(Len(frame) + 1) /\ at # Len(frame) + 1
  BY DEF TypeOK, Leaves, AllSent
<1>2. at \in 1..Len(frame)
  BY <1>1
<1>3. UNCHANGED <<request, frame, rxOn, state, expected, phase>>
  BY DEF Leaves, hostVars, parserVars
<1>4. at' = at + 1 /\ fresh' \in BOOLEAN /\ inStep' \in BOOLEAN
  BY DEF Leaves, TypeOK
<1> QED
  BY <1>1, <1>2, <1>3, <1>4

LEMMA InitParserInv == Init => ParserInv
<1> SUFFICES ASSUME Init PROVE ParserInv
  OBVIOUS
<1>1. frame = <<>> /\ buf = <<>> /\ Len(frame) = 0 /\ Len(buf) = 0
  BY DEF Init
<1>2. frame \in Seq(Byte) /\ buf \in Seq(Byte)
  BY <1>1
<1>3. at \in 1..(Len(frame) + 1)
  BY <1>1 DEF Init
<1>4. faults \in 0..MaxFaults
  BY MaxFaultsAssumption DEF Init
<1>5. expected \in 1..(HeaderSize + Width)
  BY WidthAssumption DEF Init, HeaderSize
<1>6. TypeOK
  BY <1>2, <1>3, <1>4, <1>5 DEF Init, TypeOK, States, Phases
<1>7. Limits
  BY <1>1, MaxRxAssumption, WidthAssumption DEF Init, Limits
<1> QED
  BY <1>6, <1>7 DEF ParserInv

(* Every step keeps the types and the limits.                              *)
LEMMA NextParserInv == ParserInv /\ [Next]_vars => ParserInv'
<1> SUFFICES ASSUME ParserInv, [Next]_vars PROVE ParserInv'
  OBVIOUS
<1>t. TypeOK /\ Limits
  BY DEF ParserInv
<1>n. <<>> \in Seq(Byte) /\ Len(<<>>) <= MaxRx
  BY MaxRxAssumption, WidthAssumption
<1>e. 1 \in 1..(HeaderSize + Width) /\ HeaderSize \in 1..(HeaderSize + Width)
  BY WidthAssumption DEF HeaderSize
<1>1. CASE Send
  <2>1. PICK r \in Requests : request' = r /\ frame' = Frame(r)
    BY <1>1 DEF Send
  <2>2. frame' \in Seq(Byte)
    BY <2>1, FrameIs
  <2>3. at' \in 1..(Len(frame') + 1)
    BY <1>1, <2>2 DEF Send
  <2> QED
    BY <1>1, <1>t, <2>1, <2>2, <2>3
       DEF Send, parserVars, ParserInv, TypeOK, Limits
<1>2. CASE Retry
  <2>1. at' \in 1..(Len(frame') + 1)
    BY <1>2, <1>t DEF Retry, TypeOK, hostVars
  <2> QED
    BY <1>2, <1>t, <2>1
       DEF Retry, hostVars, parserVars, ParserInv, TypeOK, Limits
<1>3. CASE Arrive
  <2>1. Leaves(TRUE) /\ Store(frame[at])
    BY <1>3 DEF Arrive
  <2>2. frame[at] \in Byte
    BY <2>1, <1>t, NextByte
  <2>3. buf' \in Seq(Byte) /\ Len(buf') <= MaxRx
    BY <2>1, <2>2, <1>t, StoreKeepsBuffer DEF TypeOK, Limits
  <2>4. UNCHANGED <<request, frame, rxOn, state, expected, phase>>
        /\ at' \in 1..(Len(frame') + 1) /\ fresh' \in BOOLEAN /\ inStep' \in BOOLEAN
    BY <2>1, <1>t, NextByte
  <2> QED
    BY <1>3, <1>t, <2>3, <2>4 DEF Arrive, ParserInv, TypeOK, Limits
<1>4. CASE LoseByte
  <2>1. UNCHANGED <<request, frame, rxOn, state, expected, phase>>
        /\ at' \in 1..(Len(frame') + 1) /\ fresh' \in BOOLEAN /\ inStep' \in BOOLEAN
    BY <1>4, <1>t, NextByte DEF LoseByte
  <2>2. faults' \in 0..MaxFaults
    BY <1>4, <1>t, MaxFaultsAssumption DEF LoseByte, TypeOK
  <2> QED
    BY <1>4, <1>t, <2>1, <2>2 DEF LoseByte, ParserInv, TypeOK, Limits
<1>5. CASE DamageByte
  <2>1. UNCHANGED <<request, frame, rxOn, state, expected, phase>>
        /\ at' \in 1..(Len(frame') + 1) /\ fresh' \in BOOLEAN /\ inStep' \in BOOLEAN
    BY <1>5, <1>t, NextByte DEF DamageByte
  <2>2. PICK b \in Byte : Store(b)
    BY <1>5 DEF DamageByte
  <2>3. buf' \in Seq(Byte) /\ Len(buf') <= MaxRx
    BY <2>2, <1>t, StoreKeepsBuffer DEF TypeOK, Limits
  <2>4. faults' \in 0..MaxFaults
    BY <1>5, <1>t, MaxFaultsAssumption DEF DamageByte, TypeOK
  <2> QED
    BY <1>5, <1>t, <2>1, <2>3, <2>4 DEF DamageByte, ParserInv, TypeOK, Limits
<1>6. CASE NothingReceived
  BY <1>6, <1>t, <1>e DEF NothingReceived, ParserInv, TypeOK, Limits, States,
     hostVars, lineVars
<1>7. CASE MarkerMatches
  BY <1>7, <1>t, <1>e DEF MarkerMatches, ParserInv, TypeOK, Limits, States,
     hostVars, lineVars
<1>8. CASE NoMarker
  BY <1>8, <1>t, <1>n DEF NoMarker, Restart, ParserInv, TypeOK, Limits,
     hostVars, lineVars, parserVars
<1>9. CASE ReadHeader
  <2>1. Len(buf) >= HeaderSize
    BY <1>9, <1>t DEF ReadHeader, ParserBusy, Limits
  <2>2. buf[LengthAt] \in Byte
    BY <2>1, <1>t DEF TypeOK, LengthAt, HeaderSize
  <2>3. expected' = HeaderSize + buf[LengthAt] + 1
    BY <1>9 DEF ReadHeader
  <2>4. expected' \in 1..(HeaderSize + Width)
    BY <2>2, <2>3, WidthAssumption DEF Byte, HeaderSize
  <2> QED
    BY <1>9, <1>t, <2>4 DEF ReadHeader, ParserInv, TypeOK, Limits, States,
       hostVars, lineVars
<1>10. CASE Accept
  BY <1>10, <1>t DEF Accept, ParserInv, TypeOK, Limits, Phases,
     hostVars, lineVars
<1>11. CASE Reject
  BY <1>11, <1>t, <1>n, <1>e DEF Reject, Restart, ParserInv, TypeOK, Limits,
     States, hostVars, lineVars
<1>12. CASE RunCommand
  <2>1. request' \in Requests \cup {None}
    BY <1>12, <1>t DEF RunCommand, Answers, TypeOK
  <2>2. faults' \in 0..MaxFaults
    <3>1. faults' = faults \/ (faults < MaxFaults /\ faults' = faults + 1)
      BY <1>12 DEF RunCommand
    <3>2. faults \in 0..MaxFaults
      BY <1>t DEF TypeOK
    <3> QED
      BY <3>1, <3>2, MaxFaultsAssumption
  <2>3. phase' \in Phases /\ fresh' \in BOOLEAN
        /\ UNCHANGED <<frame, at, inStep, rxOn, buf, state, expected>>
    BY <1>12 DEF RunCommand, Phases
  <2> QED
    BY <1>t, <2>1, <2>2, <2>3 DEF ParserInv, TypeOK, Limits
<1>13. CASE NotARequest
  BY <1>13, <1>t DEF NotARequest, ParserInv, TypeOK, Limits, Phases,
     hostVars, lineVars
<1>14. CASE Rearm
  BY <1>14, <1>t, <1>n, <1>e DEF Rearm, Restart, ParserInv, TypeOK, Limits,
     Phases, States, hostVars, lineVars
<1>15. CASE UNCHANGED vars
  BY <1>15, <1>t DEF vars, hostVars, lineVars, parserVars, ParserInv, TypeOK,
     Limits
<1> QED
  BY <1>1, <1>2, <1>3, <1>4, <1>5, <1>6, <1>7, <1>8, <1>9, <1>10, <1>11,
     <1>12, <1>13, <1>14, <1>15 DEF Next, Parse, Poll, Host, Line

(* Type correctness of the parser, its host and its line.                  *)
THEOREM ParserTypes == Spec => []TypeOK
<1>1. ParserInv => TypeOK
  BY DEF ParserInv
<1> QED
  BY InitParserInv, NextParserInv, <1>1, PTL DEF Spec

(* No length byte, damaged or not, makes the parser copy more than its     *)
(* buffer holds or count past its eight-bit counter.                       *)
THEOREM CopyAlwaysFits == Spec => []CopyFits
<1>1. ParserInv => CopyFits
  <2> SUFFICES ASSUME ParserInv, Len(buf) >= expected
               PROVE  expected <= Width /\ expected - 1 < Width
    BY DEF CopyFits, ParserBusy
  <2>1. buf \in Seq(Byte) /\ Len(buf) <= MaxRx
    BY DEF ParserInv, TypeOK, Limits
  <2>2. expected \in 1..(HeaderSize + Width)
    BY DEF ParserInv, TypeOK
  <2>3. expected \in Int /\ Len(buf) \in Nat
    BY <2>1, <2>2, WidthAssumption DEF HeaderSize
  <2> QED
    BY <2>1, <2>3, WidthAssumption, MaxRxAssumption
<1> QED
  BY InitParserInv, NextParserInv, <1>1, PTL DEF Spec

-----------------------------------------------------------------------------
(* What the host sends is a frame of its requests; the receiver runs only  *)
(* while the parser parses; a command is run from a complete frame.        *)
Order ==
    /\ rxOn <=> phase = "parse"
    /\ buf = <<>> => state = "waiting" /\ phase = "parse"
    /\ phase # "parse" => /\ state = "header done"
                          /\ expected <= Len(buf) /\ ChecksumOK
    /\ request # None => frame = Frame(request)
    /\ frame = <<>> \/ \E r \in Requests : frame = Frame(r)

LineInv == ParserInv /\ Order

LEMMA InitLineInv == Init => LineInv
BY InitParserInv DEF Init, LineInv, Order

(* A byte that is stored changes nothing of a complete frame.              *)
LEMMA StoredBehind ==
    ASSUME ParserInv, NEW b \in Byte, Store(b)
    PROVE  /\ Len(buf') = IF rxOn /\ Len(buf) < MaxRx THEN Len(buf) + 1
                                                    ELSE Len(buf)
           /\ \A k \in 1..Len(buf) : buf'[k] = buf[k]
           /\ rxOn /\ Len(buf) < MaxRx => buf'[Len(buf) + 1] = b
           /\ ~rxOn => buf' = buf
           /\ buf = <<>> \/ buf' # <<>>
<1>1. buf \in Seq(Byte) /\ Len(buf) \in Nat
  BY DEF ParserInv, TypeOK
<1>2. CASE rxOn /\ Len(buf) < MaxRx
  <2>1. buf' = Append(buf, b)
    BY <1>2 DEF Store
  <2>2. Len(buf') = Len(buf) + 1 /\ buf' # <<>>
    BY <1>1, <2>1
  <2>3. (\A k \in 1..Len(buf) : buf'[k] = buf[k]) /\ buf'[Len(buf) + 1] = b
    BY <1>1, <2>1
  <2> QED
    BY <1>2, <2>2, <2>3
<1>3. CASE ~(rxOn /\ Len(buf) < MaxRx)
  BY <1>3 DEF Store
<1> QED
  BY <1>2, <1>3

(* No byte on the line disturbs the order.                                 *)
LEMMA LineOrder ==
    ASSUME LineInv, NEW whole \in BOOLEAN, Leaves(whole),
           buf' = buf \/ \E b \in Byte : Store(b)
    PROVE  Order'
<1>1. UNCHANGED <<request, frame, rxOn, state, expected, phase>>
  BY DEF Leaves, hostVars, parserVars
<1>2. ~rxOn => buf' = buf
  BY StoredBehind DEF LineInv
<1>3. buf' = <<>> => buf = <<>>
  BY StoredBehind DEF LineInv
<1>4. Order
  BY DEF LineInv
<1>5. phase # "parse" => buf' = buf
  BY <1>2, <1>4 DEF Order
<1>6. phase' # "parse" => /\ state' = "header done"
                          /\ expected' <= Len(buf') /\ ChecksumOK'
  BY <1>1, <1>4, <1>5 DEF Order, ChecksumOK
<1> QED
  BY <1>1, <1>3, <1>4, <1>6 DEF Order

LEMMA NextOrder == LineInv /\ [Next]_vars => Order'
<1> SUFFICES ASSUME LineInv, [Next]_vars PROVE Order'
  OBVIOUS
<1>o. Order
  BY DEF LineInv
<1>t. TypeOK /\ Limits
  BY DEF LineInv, ParserInv
<1>1. CASE Send
  <2>1. PICK r \in Requests : request' = r /\ frame' = Frame(r)
    BY <1>1 DEF Send
  <2>2. UNCHANGED <<rxOn, buf, state, expected, phase>>
    BY <1>1 DEF Send, parserVars
  <2> QED
    BY <1>o, <2>1, <2>2 DEF Order, ChecksumOK
<1>2. CASE Retry
  BY <1>2, <1>o DEF Retry, hostVars, parserVars, Order, ChecksumOK
<1>3. CASE Arrive
  BY <1>3, <1>t, LineOrder, NextByte DEF Arrive
<1>4. CASE LoseByte
  BY <1>4, LineOrder DEF LoseByte
<1>5. CASE DamageByte
  <2>1. PICK b \in Byte : Store(b)
    BY <1>5 DEF DamageByte
  <2> QED
    BY <1>5, <2>1, LineOrder DEF DamageByte
<1>6. CASE NothingReceived
  BY <1>6, <1>o DEF NothingReceived, Order, ChecksumOK, hostVars, lineVars
<1>7. CASE MarkerMatches
  <2>1. Len(buf) >= 1 /\ Len(<<>>) = 0
    BY <1>7, <1>t DEF MarkerMatches, ParserBusy, Limits
  <2>2. buf # <<>>
    BY <2>1
  <2> QED
    BY <1>7, <1>o, <2>2
       DEF MarkerMatches, ParserBusy, Order, hostVars, lineVars
<1>8. CASE NoMarker
  BY <1>8, <1>o DEF NoMarker, ParserBusy, Restart, Order, hostVars, lineVars,
     parserVars
<1>9. CASE ReadHeader
  <2>1. buf # <<>>
    BY <1>9, <1>o DEF ReadHeader, Order
  <2> QED
    BY <1>9, <1>o, <2>1
       DEF ReadHeader, ParserBusy, Order, hostVars, lineVars
<1>10. CASE Accept
  <2>1. expected <= Len(buf)
    BY <1>10, <1>t DEF Accept, ParserBusy, TypeOK, HeaderSize
  <2>2. buf # <<>>
    BY <1>10, <1>o DEF Accept, Order
  <2> QED
    BY <1>10, <1>o, <2>1, <2>2
       DEF Accept, Order, ChecksumOK, hostVars, lineVars
<1>11. CASE Reject
  BY <1>11, <1>o DEF Reject, ParserBusy, Restart, Order, hostVars, lineVars
<1>12. CASE RunCommand
  <2>1. UNCHANGED <<frame, rxOn, buf, state, expected>> /\ phase = "run"
        /\ phase' = "rearm"
    BY <1>12 DEF RunCommand
  <2>2. request' # None => request' = request
    BY <1>12 DEF RunCommand, Answers
  <2> QED
    BY <1>o, <2>1, <2>2 DEF Order, ChecksumOK
<1>13. CASE NotARequest
  BY <1>13, <1>o DEF NotARequest, Order, ChecksumOK, hostVars, lineVars
<1>14. CASE Rearm
  BY <1>14, <1>o DEF Rearm, Restart, Order, hostVars, lineVars
<1>15. CASE UNCHANGED vars
  BY <1>15, <1>o DEF vars, hostVars, lineVars, parserVars, Order, ChecksumOK
<1> QED
  BY <1>1, <1>2, <1>3, <1>4, <1>5, <1>6, <1>7, <1>8, <1>9, <1>10, <1>11,
     <1>12, <1>13, <1>14, <1>15 DEF Next, Parse, Poll, Host, Line

LEMMA NextLineInv == LineInv /\ [Next]_vars => LineInv'
BY NextParserInv, NextOrder DEF LineInv

-----------------------------------------------------------------------------
(* After a command was run, and until a first byte is sent again, nothing  *)
(* in the buffer can be taken for the start of a frame.                    *)
MarkerFree == /\ phase = "parse" /\ state = "waiting"
              /\ \A k \in 1..Len(buf) : buf[k] # Marker

FreshInv == LineInv /\ (~fresh => phase = "rearm" \/ MarkerFree)

(* A damaged byte does not become a marker.                                *)
DamageMakesNoMarker == DamageByte => buf' # Append(buf, Marker)

(* The step of the line: a byte that is not the first is no marker.        *)
LEMMA LineMarkerFree ==
    ASSUME FreshInv, ~fresh', NEW whole \in BOOLEAN, Leaves(whole),
           \/ buf' = buf
           \/ \E b \in Byte : Store(b) /\ buf' # Append(buf, Marker)
    PROVE  phase' = "rearm" \/ MarkerFree'
<1>1. /\ UNCHANGED <<request, frame, rxOn, state, expected, phase>>
      /\ ~fresh /\ at # 1
  BY DEF Leaves, hostVars, parserVars
<1>2. SUFFICES ASSUME MarkerFree PROVE MarkerFree'
  BY <1>1 DEF FreshInv
<1>3. ASSUME NEW b \in Byte, Store(b), buf' # Append(buf, Marker)
      PROVE  \A k \in 1..Len(buf') : buf'[k] # Marker
  <2>1. CASE rxOn /\ Len(buf) < MaxRx
    <3>1. buf' = Append(buf, b) /\ b # Marker
      BY <1>3, <2>1 DEF Store
    <3>2. buf \in Seq(Byte)
      BY DEF FreshInv, LineInv, ParserInv, TypeOK
    <3>3. \A k \in 1..Len(buf) : buf[k] # Marker
      BY <1>2 DEF MarkerFree
    <3> QED
      BY <3>1, <3>2, <3>3
  <2>2. CASE ~(rxOn /\ Len(buf) < MaxRx)
    BY <1>2, <1>3, <2>2 DEF Store, MarkerFree
  <2> QED
    BY <2>1, <2>2
<1>4. \A k \in 1..Len(buf') : buf'[k] # Marker
  BY <1>2, <1>3 DEF MarkerFree
<1> QED
  BY <1>1, <1>2, <1>4 DEF MarkerFree

LEMMA NextFreshInv ==
    ASSUME \A r \in Requests : MarkerOnlyInFront(r),
           FreshInv, [Next]_vars, [DamageMakesNoMarker]_vars
    PROVE  FreshInv' /\ (RunCommand => fresh)
<1>o. LineInv /\ TypeOK /\ Limits /\ Order
  BY DEF FreshInv, LineInv, ParserInv
<1>l. LineInv'
  BY <1>o, NextLineInv
<1>m. ~fresh => phase = "rearm" \/ MarkerFree
  BY DEF FreshInv
<1>b. ASSUME ~fresh, ParserBusy PROVE state = "waiting" /\ buf[1] # Marker
  <2>1. MarkerFree
    BY <1>m, <1>b DEF ParserBusy
  <2>2. Len(buf) >= 1
    BY <1>o, <1>b, <2>1 DEF ParserBusy, MarkerFree, Limits
  <2>3. Len(buf) \in Nat
    BY <1>o DEF TypeOK
  <2>4. 1 \in 1..Len(buf)
    BY <2>2, <2>3
  <2> QED
    BY <2>1, <2>4 DEF MarkerFree
<1>f. SUFFICES /\ ~fresh' => phase' = "rearm" \/ MarkerFree'
               /\ RunCommand => fresh
  BY <1>l DEF FreshInv
<1>r. RunCommand => fresh
  BY <1>m DEF RunCommand, MarkerFree
<1>s. SUFFICES ASSUME ~fresh' PROVE phase' = "rearm" \/ MarkerFree'
  BY <1>r
<1>1. CASE Send
  BY <1>1, <1>m, <1>s DEF Send, parserVars, MarkerFree
<1>2. CASE Retry
  BY <1>2, <1>m, <1>s DEF Retry, hostVars, parserVars, MarkerFree
<1>3. CASE Arrive
  <2>1. Leaves(TRUE) /\ Store(frame[at]) /\ frame[at] \in Byte
    BY <1>3, <1>o, NextByte DEF Arrive
  <2>2. at # 1 /\ ~AllSent
    BY <1>s, <2>1 DEF Leaves
  <2>3. at \in 1..(Len(frame) + 1) /\ frame \in Seq(Byte)
    BY <1>o DEF TypeOK
  <2>4. at \in 2..Len(frame)
    BY <2>2, <2>3 DEF AllSent
  <2>5. frame[at] # Marker
    <3>1. frame # <<>>
      BY <2>4
    <3>2. PICK r \in Requests : frame = Frame(r)
      BY <1>o, <3>1 DEF Order
    <3> QED
      BY <2>4, <3>2 DEF MarkerOnlyInFront
  <2>6. buf' # Append(buf, Marker)
    <3>1. CASE rxOn /\ Len(buf) < MaxRx
      <4>1. buf' = Append(buf, frame[at]) /\ buf \in Seq(Byte)
        BY <1>o, <2>1, <3>1 DEF Store, TypeOK
      <4> QED
        BY <2>1, <2>5, <4>1
    <3>2. CASE ~(rxOn /\ Len(buf) < MaxRx)
      <4>1. buf' = buf /\ buf \in Seq(Byte)
        BY <1>o, <2>1, <3>2 DEF Store, TypeOK
      <4> QED
        BY <4>1
    <3> QED
      BY <3>1, <3>2
  <2> QED
    BY <1>s, <2>1, <2>6, LineMarkerFree
<1>4. CASE LoseByte
  BY <1>4, <1>s, LineMarkerFree DEF LoseByte
<1>5. CASE DamageByte
  <2>1. PICK b \in Byte : Store(b)
    BY <1>5 DEF DamageByte
  <2>2. vars' # vars
    <3>1. at' = at + 1 /\ at \in Int
      BY <1>5, <1>o DEF DamageByte, Leaves, TypeOK
    <3>2. at' # at
      BY <3>1
    <3> QED
      BY <3>2 DEF vars, lineVars
  <2>3. buf' # Append(buf, Marker)
    BY <1>5, <2>2 DEF DamageMakesNoMarker
  <2> QED
    BY <1>5, <1>s, <2>1, <2>3, LineMarkerFree DEF DamageByte
<1>6. CASE NothingReceived
  BY <1>6, <1>o, <1>m, <1>s
     DEF NothingReceived, MarkerFree, hostVars, lineVars
<1>7. CASE MarkerMatches
  BY <1>7, <1>b, <1>s DEF MarkerMatches, lineVars
<1>8. CASE NoMarker
  <2>1. Len(<<>>) = 0 /\ \A k \in 1..0 : FALSE
    OBVIOUS
  <2> QED
    BY <1>8, <1>b, <1>s, <2>1
       DEF NoMarker, ParserBusy, Restart, MarkerFree, lineVars, parserVars
<1>9. CASE ReadHeader
  BY <1>9, <1>b, <1>s DEF ReadHeader, lineVars
<1>10. CASE Accept
  BY <1>10, <1>b, <1>s DEF Accept, lineVars
<1>11. CASE Reject
  BY <1>11, <1>b, <1>s DEF Reject, lineVars
<1>12. CASE RunCommand
  BY <1>12 DEF RunCommand
<1>13. CASE NotARequest
  BY <1>13 DEF NotARequest
<1>14. CASE Rearm
  <2>1. Len(<<>>) = 0 /\ \A k \in 1..0 : FALSE
    OBVIOUS
  <2> QED
    BY <1>14, <2>1 DEF Rearm, Restart, MarkerFree
<1>15. CASE UNCHANGED vars
  BY <1>15, <1>m, <1>s DEF vars, hostVars, lineVars, parserVars, MarkerFree
<1> QED
  BY <1>1, <1>2, <1>3, <1>4, <1>5, <1>6, <1>7, <1>8, <1>9, <1>10, <1>11,
     <1>12, <1>13, <1>14, <1>15 DEF Next, Parse, Poll, Host, Line

(* If no frame holds the marker value but in front, and no damaged byte    *)
(* becomes one, no transmission of a frame runs two commands, whatever     *)
(* else the line damages, whatever bytes and answers it loses and however  *)
(* often the host sends again.                                             *)
THEOREM OneRunPerSend ==
    ASSUME \A r \in Requests : MarkerOnlyInFront(r)
    PROVE  Spec /\ [][DamageMakesNoMarker]_vars => RunsOncePerSend
<1>1. Init => FreshInv
  <2>1. Len(<<>>) = 0 /\ \A k \in 1..0 : FALSE
    OBVIOUS
  <2> QED
    BY <2>1, InitLineInv DEF Init, FreshInv, MarkerFree
<1>2. FreshInv /\ [Next]_vars /\ [DamageMakesNoMarker]_vars
        => FreshInv' /\ [RunCommand => fresh]_vars
  BY NextFreshInv
<1> QED
  BY <1>1, <1>2, PTL DEF Spec, RunsOncePerSend

-----------------------------------------------------------------------------
LEMMA InnerBytes ==
    ASSUME NEW s \in Seq(Byte), NEW n \in Nat, n >= 2, n <= Len(s)
    PROVE  /\ SubSeq(s, 2, n - 1) \in Seq(Byte)
           /\ Len(SubSeq(s, 2, n - 1)) = n - 2
           /\ \A k \in 1..(n - 2) : SubSeq(s, 2, n - 1)[k] = s[k + 1]
<1>1. n - 1 \in 1..Len(s) /\ 2 \in 1..(Len(s) + 1)
      /\ 2 \in 1..(n - 1 + 1)
  OBVIOUS
<1>2. SubSeq(s, 2, n - 1) \in Seq(Byte)
  <2>1. \A k \in 2..(n - 1) : s[k] \in Byte
    BY <1>1
  <2> QED
    BY <1>1, <2>1
<1> QED
  BY <1>1, <1>2

(* A checksum shows one damaged byte.                                      *)
LEMMA ChecksumShows ==
    ASSUME NEW f \in Seq(Byte), NEW b \in Seq(Byte),
           Len(f) >= 2, Len(f) <= Len(b),
           Checksum(f, Len(f) - 1) = f[Len(f)],
           Checksum(b, Len(f) - 1) = b[Len(f)],
           b[1] = f[1],
           \A i, j \in 1..Len(f) : b[i] # f[i] /\ b[j] # f[j] => i = j
    PROVE  SubSeq(b, 1, Len(f)) = f
<1> DEFINE n == Len(f)
           bs == SubSeq(b, 2, n - 1)
           fs == SubSeq(f, 2, n - 1)
<1>0. n \in Nat /\ n >= 2 /\ Len(b) \in Nat /\ n <= Len(b)
  OBVIOUS
<1>1. /\ bs \in Seq(Byte) /\ fs \in Seq(Byte)
      /\ Len(bs) = n - 2 /\ Len(fs) = n - 2
      /\ \A k \in 1..(n - 2) : bs[k] = b[k + 1] /\ fs[k] = f[k + 1]
  <2>1. \A s \in Seq(Byte) : Len(s) \in Nat /\ n <= Len(s) =>
          /\ SubSeq(s, 2, n - 1) \in Seq(Byte)
          /\ Len(SubSeq(s, 2, n - 1)) = n - 2
          /\ \A k \in 1..(n - 2) : SubSeq(s, 2, n - 1)[k] = s[k + 1]
    BY <1>0, InnerBytes
  <2> QED
    BY <1>0, <2>1
<1>2. TotalUpTo(bs) = b[n] /\ TotalUpTo(fs) = f[n]
  BY DEF Checksum
<1> HIDE DEF bs, fs
<1>3. ASSUME NEW i \in 1..n, b[i] # f[i]
      PROVE  FALSE
  <2>1. i # 1 /\ \A k \in 1..n : k # i => b[k] = f[k]
    BY <1>3
  <2>2. CASE i = n
    <3>1. \A k \in 1..(n - 2) : k + 1 \in 1..n /\ k + 1 # n
      BY <1>0
    <3>2. \A k \in 1..(n - 2) : bs[k] = fs[k]
      BY <1>1, <2>1, <2>2, <3>1
    <3>3. bs = fs
      BY <1>1, <3>2, SeqEqual
    <3> QED
      BY <1>2, <1>3, <2>2, <3>3
  <2>3. CASE i # n
    <3>1. i - 1 \in 1..(n - 2) /\ (i - 1) + 1 = i
      BY <1>0, <2>1, <2>3
    <3>2. bs[i - 1] # fs[i - 1]
      BY <1>1, <1>3, <3>1
    <3>3. ASSUME NEW k \in 1..(n - 2), k # i - 1 PROVE bs[k] = fs[k]
      <4>1. k + 1 \in 1..n /\ k + 1 # i
        BY <1>0, <3>3
      <4> QED
        BY <1>1, <2>1, <4>1
    <3>4. TotalUpTo(bs) # TotalUpTo(fs)
      <4>1. /\ bs \in Seq(Byte) /\ fs \in Seq(Byte) /\ Len(bs) = Len(fs)
            /\ i - 1 \in 1..Len(bs) /\ bs[i - 1] # fs[i - 1]
            /\ \A k \in 1..Len(bs) : k # i - 1 => bs[k] = fs[k]
        BY <1>1, <3>1, <3>2, <3>3
      <4> QED
        BY ONLY <4>1, OneByteShows
    <3>5. b[n] = f[n] /\ n \in 1..n
      BY <1>0, <2>1, <2>3
    <3> QED
      BY <1>2, <3>4, <3>5
  <2> QED
    BY <2>2, <2>3
<1>4. \A i \in 1..n : b[i] = f[i]
  BY <1>3
<1>5. /\ SubSeq(b, 1, n) \in Seq(Byte) /\ Len(SubSeq(b, 1, n)) = n
      /\ \A i \in 1..n : SubSeq(b, 1, n)[i] = b[i]
  BY <1>0
<1> QED
  BY <1>4, <1>5, SeqEqual

-----------------------------------------------------------------------------
(* Bytes of the frame the line has carried: of the copy that is on it, or  *)
(* all of them while none is.                                              *)
Sent == IF at = 1 THEN Len(frame) ELSE at - 1

(* Bytes in the buffer that are not those of the frame.                    *)
Damaged == {k \in 1..Len(buf) : buf[k] # frame[k]}

(* The receiver holds what the line has carried, with one byte damaged at  *)
(* most, which is neither the marker nor the length.                       *)
Held ==
    /\ \E r \in Requests : frame = Frame(r)
    /\ buf # <<>>
    /\ Len(buf) = IF Sent <= MaxRx THEN Sent ELSE MaxRx
    /\ 1 \notin Damaged /\ LengthAt \notin Damaged
    /\ \A i, j \in Damaged : i = j
    /\ faults = 0 => Damaged = {}
    /\ state = "header done" => expected = Len(frame)

(* It holds nothing, and no copy of the frame is under way.                *)
Between == buf = <<>> /\ (at = 1 \/ AllSent)

InStepInv == LineInv /\ (inStep => Held \/ Between)

LEMMA SentFrame ==
    ASSUME NEW r \in Requests, frame = Frame(r)
    PROVE  /\ frame \in Seq(Byte) /\ Len(frame) \in Nat /\ Len(frame) >= 5
           /\ frame[1] = Marker
           /\ Len(frame) = HeaderSize + frame[LengthAt] + 1
           /\ Checksum(frame, Len(frame) - 1) = frame[Len(frame)]
<1>1. /\ frame \in Seq(Byte) /\ Len(frame) = HeaderSize + Len(r.data) + 1
      /\ frame[1] = Marker /\ frame[LengthAt] = Len(r.data)
      /\ Checksum(frame, Len(frame) - 1) = frame[Len(frame)]
  BY FrameIs
<1>2. Len(r.data) \in Nat /\ Len(r.data) >= 0
  BY RequestsAssumption
<1>3. Len(frame) \in Nat /\ Len(frame) >= 5
  <2>1. \A d \in Nat : HeaderSize + d + 1 \in Nat /\ HeaderSize + d + 1 >= 5
    BY DEF HeaderSize
  <2> QED
    BY <1>1, <1>2, <2>1
<1> QED
  BY <1>1, <1>3

(* The first byte reaches an empty buffer.                                 *)
LEMMA FirstByte ==
    ASSUME InStepInv, Leaves(TRUE), inStep', at = 1,
           Store(frame[at]), faults' = faults
    PROVE  Held'
<1>o. TypeOK /\ Limits /\ Order
  BY DEF InStepInv, LineInv, ParserInv
<1>1. /\ UNCHANGED <<request, frame, rxOn, state, expected, phase>>
      /\ buf = <<>> /\ rxOn /\ at' = 2
  <2>1. UNCHANGED <<request, frame, rxOn, state, expected, phase>>
    BY DEF Leaves, hostVars, parserVars
  <2>2. inStep' => rxOn /\ buf = <<>>
    BY DEF Leaves
  <2>3. at' = 1 + 1
    BY DEF Leaves
  <2> QED
    BY <2>1, <2>2, <2>3
<1>2. PICK r \in Requests : frame = Frame(r)
  <2>1. Len(<<>>) = 0
    OBVIOUS
  <2>2. frame # <<>>
    BY <2>1 DEF Leaves, AllSent
  <2> QED
    BY <1>o, <2>2 DEF Order
<1>3. buf' = <<frame[1]>>
  <2>1. Len(<<>>) = 0 /\ Append(<<>>, frame[1]) = <<frame[1]>>
    OBVIOUS
  <2>2. 0 < MaxRx
    BY MaxRxAssumption, WidthAssumption
  <2> QED
    BY <1>1, <2>1, <2>2 DEF Store
<1>4. Len(buf') = 1 /\ buf'[1] = frame[1] /\ buf' # <<>>
  BY <1>3
<1>5. Damaged' = {}
  <2>1. \A k \in 1..1 : k = 1
    OBVIOUS
  <2> QED
    BY <1>1, <1>4, <2>1 DEF Damaged
<1>6. Sent' = 1
  BY <1>1 DEF Sent
<1>7. Len(buf') = IF Sent' <= MaxRx THEN Sent' ELSE MaxRx
  BY <1>4, <1>6, MaxRxAssumption, WidthAssumption
<1>8. state' = "waiting"
  BY <1>1, <1>o DEF Order
<1> QED
  BY <1>1, <1>2, <1>4, <1>5, <1>7, <1>8 DEF Held

(* A later byte is appended, or does not fit any more.                     *)
LEMMA LaterByte ==
    ASSUME InStepInv, Held, NEW whole \in BOOLEAN, Leaves(whole), at # 1, rxOn,
           NEW b \in Byte, Store(b),
           \/ b = frame[at] /\ faults' = faults
           \/ faults = 0 /\ faults' # 0 /\ at # LengthAt
    PROVE  Held'
<1>o. TypeOK /\ Limits /\ Order /\ ParserInv
  BY DEF InStepInv, LineInv, ParserInv
<1>1. /\ UNCHANGED <<request, frame, rxOn, state, expected, phase>>
      /\ at' = at + 1 /\ ~AllSent
  BY DEF Leaves, hostVars, parserVars
<1>2. /\ at \in Nat /\ at >= 2 /\ Len(buf) \in Nat /\ MaxRx \in Nat
  BY <1>o, MaxRxAssumption, WidthAssumption DEF TypeOK
<1>3. Sent = at - 1 /\ Sent' = at
  BY <1>1, <1>2 DEF Sent
<1>4. /\ Len(buf) = IF at - 1 <= MaxRx THEN at - 1 ELSE MaxRx
      /\ 1 \notin Damaged /\ LengthAt \notin Damaged
      /\ \A i, j \in Damaged : i = j
      /\ faults = 0 => Damaged = {}
      /\ buf # <<>>
  BY <1>3 DEF Held
<1>5. /\ Len(buf') = IF Len(buf) < MaxRx THEN Len(buf) + 1 ELSE Len(buf)
      /\ \A k \in 1..Len(buf) : buf'[k] = buf[k]
      /\ Len(buf) < MaxRx => buf'[Len(buf) + 1] = b
      /\ buf' # <<>>
  BY <1>o, <1>4, StoredBehind
<1>6. Len(buf') = IF Sent' <= MaxRx THEN Sent' ELSE MaxRx
  BY <1>2, <1>3, <1>4, <1>5
<1>7. Damaged' \subseteq Damaged \cup {at} /\ (b = frame[at] => Damaged' \subseteq Damaged)
  <2> SUFFICES ASSUME NEW k \in 1..Len(buf'), buf'[k] # frame[k]
               PROVE  k \in Damaged \/ (k = at /\ b # frame[at])
    BY <1>1 DEF Damaged
  <2>1. CASE k \in 1..Len(buf)
    BY <1>5, <2>1 DEF Damaged
  <2>2. CASE k \notin 1..Len(buf)
    <3>1. Len(buf) < MaxRx /\ k = Len(buf) + 1
      BY <1>2, <1>5, <2>2
    <3>2. Len(buf) = at - 1
      BY <1>2, <1>4, <3>1
    <3>3. k = at
      BY <1>2, <3>1, <3>2
    <3> QED
      BY <1>5, <3>1, <3>3
  <2> QED
    BY <2>1, <2>2
<1>8. /\ 1 \notin Damaged' /\ LengthAt \notin Damaged'
      /\ \A i, j \in Damaged' : i = j
      /\ faults' = 0 => Damaged' = {}
  <2>1. CASE b = frame[at] /\ faults' = faults
    BY <1>4, <1>7, <2>1
  <2>2. CASE faults = 0 /\ faults' # 0 /\ at # LengthAt
    BY <1>4, <1>7, <2>2
  <2> QED
    BY <2>1, <2>2
<1>9. \E r \in Requests : frame' = Frame(r)
  BY <1>1 DEF Held
<1>10. state' = "header done" => expected' = Len(frame')
  BY <1>1 DEF Held
<1> QED
  BY <1>5, <1>6, <1>8, <1>9, <1>10 DEF Held

(* The parser takes all bytes from the buffer only when no byte of the     *)
(* frame it holds is still to come.                                        *)
LEMMA TakenWhole ==
    ASSUME LineInv, Held, state = "header done", expected <= Len(buf)
    PROVE  at = 1 \/ AllSent
<1>1. frame \in Seq(Byte) /\ at \in 1..(Len(frame) + 1)
  BY DEF LineInv, ParserInv, TypeOK
<1>2. Len(frame) <= Len(buf) /\ Len(buf) = IF Sent <= MaxRx THEN Sent ELSE MaxRx
  BY DEF Held
<1>3. Len(frame) \in Nat /\ MaxRx \in Nat
  BY ONLY <1>1, MaxRxAssumption, WidthAssumption
<1>a. at \in Nat /\ at <= Len(frame) + 1
  BY ONLY <1>1, <1>3
<1>4. Sent \in Int
  BY ONLY <1>3, <1>a DEF Sent
<1>5. Len(frame) <= Sent
  BY ONLY <1>2, <1>3, <1>4
<1>6. at # 1 => Len(frame) <= at - 1
  BY <1>5 DEF Sent
<1>7. at # 1 => at = Len(frame) + 1
  BY ONLY <1>3, <1>a, <1>6
<1> QED
  BY <1>7 DEF AllSent

(* A byte of the frame the receiver holds that was not lost.               *)
LEMMA ByteInStep ==
    ASSUME InStepInv, NEW whole \in BOOLEAN, Leaves(whole), inStep',
           NEW b \in Byte, Store(b),
           \/ b = frame[at] /\ faults' = faults
           \/ faults = 0 /\ faults' # 0 /\ (whole => at \notin {1, LengthAt})
    PROVE  Held'
<1>1. whole /\ rxOn
  BY DEF Leaves
<1>2. CASE at = 1
  BY <1>1, <1>2, FirstByte
<1>3. CASE at # 1
  <2>1. inStep
    BY <1>3 DEF Leaves
  <2>2. Held
    BY <1>3, <2>1 DEF InStepInv, Between, Leaves
  <2> QED
    BY <1>1, <1>3, <2>2, LaterByte
<1> QED
  BY <1>2, <1>3

LEMMA InitInStepInv == Init => InStepInv
BY InitLineInv DEF Init, InStepInv, Between

LEMMA NextInStepInv ==
    ASSUME MaxFaults <= 1, InStepInv, [Next]_vars
    PROVE  InStepInv'
<1>o. LineInv /\ TypeOK /\ Limits /\ Order
  BY DEF InStepInv, LineInv, ParserInv
<1>l. LineInv'
  BY <1>o, NextLineInv
<1>h. inStep => Held \/ Between
  BY DEF InStepInv
<1>s. SUFFICES ASSUME inStep' PROVE Held' \/ Between'
  BY <1>l DEF InStepInv
<1>f. faults < MaxFaults => faults = 0
  BY <1>o, MaxFaultsAssumption DEF TypeOK
<1>1. CASE Send
  BY <1>1, <1>s DEF Send
<1>2. CASE Retry
  <2>1. /\ UNCHANGED <<frame, inStep, faults, buf, state, expected>>
        /\ AllSent /\ at' = 1 /\ request # None
    BY <1>2 DEF Retry, hostVars, parserVars
  <2>2. Sent' = Len(frame)
    BY <2>1 DEF Sent
  <2>3. Sent = Len(frame)
    <3>1. frame \in Seq(Byte)
      BY <1>o DEF TypeOK
    <3>2. Len(frame) \in Nat
      BY <3>1
    <3> QED
      BY <2>1, <3>2 DEF Sent, AllSent
  <2>4. Held => Held'
    BY <2>1, <2>2, <2>3 DEF Held, Damaged
  <2>5. Between => Between'
    BY <2>1 DEF Between
  <2> QED
    BY <1>h, <1>s, <2>1, <2>4, <2>5
<1>3. CASE Arrive
  <2>1. Leaves(TRUE) /\ Store(frame[at]) /\ faults' = faults /\ frame[at] \in Byte
    BY <1>3, <1>o, NextByte DEF Arrive
  <2> QED
    BY <1>s, <2>1, ByteInStep
<1>4. CASE LoseByte
  BY <1>4, <1>s DEF LoseByte, Leaves
<1>5. CASE DamageByte
  <2>1. PICK b \in Byte : Store(b)
    BY <1>5 DEF DamageByte
  <2>2. Leaves(at \notin {1, LengthAt}) /\ faults = 0 /\ faults' = faults + 1
    BY <1>5, <1>f DEF DamageByte
  <2>3. faults' # 0
    BY <2>2
  <2> DEFINE whole == at \notin {1, LengthAt}
  <2>4. whole \in BOOLEAN /\ Leaves(whole) /\ (whole => at \notin {1, LengthAt})
    BY <2>2
  <2> HIDE DEF whole
  <2> QED
    BY <1>s, <2>1, <2>2, <2>3, <2>4, ByteInStep
<1>6. CASE NothingReceived
  <2>1. UNCHANGED <<frame, at, inStep, faults, buf>> /\ state' = "waiting"
    BY <1>6 DEF NothingReceived, hostVars, lineVars
  <2> QED
    BY <1>h, <1>s, <2>1 DEF Held, Between, Damaged, Sent, AllSent
<1>7. CASE MarkerMatches
  <2>1. UNCHANGED <<frame, at, inStep, faults, buf>> /\ state' = "marker done"
    BY <1>7 DEF MarkerMatches, hostVars, lineVars
  <2> QED
    BY <1>h, <1>s, <2>1 DEF Held, Between, Damaged, Sent, AllSent
<1>8. CASE NoMarker
  <2>1. /\ UNCHANGED <<inStep>> /\ buf[1] # Marker
        /\ Len(buf) >= 1
    BY <1>8, <1>o DEF NoMarker, ParserBusy, Limits, lineVars
  <2>2. Len(<<>>) = 0 /\ Len(buf) \in Nat
    BY <1>o DEF TypeOK
  <2>3. 1 \in 1..Len(buf) /\ buf # <<>>
    BY <2>1, <2>2
  <2>4. Held
    BY <1>h, <1>s, <2>1, <2>3 DEF Between
  <2>5. frame[1] = Marker
    BY <2>4, SentFrame DEF Held
  <2>6. 1 \in Damaged
    BY <2>1, <2>3, <2>5 DEF Damaged
  <2> QED
    BY <2>4, <2>6 DEF Held
<1>9. CASE ReadHeader
  <2>1. /\ UNCHANGED <<frame, at, inStep, faults, buf>>
        /\ expected' = HeaderSize + buf[LengthAt] + 1
        /\ Len(buf) >= HeaderSize /\ state = "marker done"
    BY <1>9, <1>o DEF ReadHeader, ParserBusy, Limits, hostVars, lineVars
  <2>2. Held
    BY <1>h, <1>o, <1>s, <2>1 DEF Between, Order
  <2>3. Len(frame) = HeaderSize + frame[LengthAt] + 1
    BY <2>2, SentFrame DEF Held
  <2>4. LengthAt \in 1..Len(buf)
    <3>1. Len(buf) \in Nat
      BY <1>o DEF TypeOK
    <3>2. Len(buf) >= HeaderSize
      BY <2>1
    <3> QED
      BY ONLY <3>1, <3>2 DEF LengthAt, HeaderSize
  <2>5. buf[LengthAt] = frame[LengthAt]
    BY <2>2, <2>4 DEF Held, Damaged
  <2>6. expected' = Len(frame')
    BY <2>1, <2>3, <2>5
  <2>7. Sent' = Sent /\ Damaged' = Damaged
    BY <2>1 DEF Sent, Damaged
  <2> QED
    BY <2>1, <2>2, <2>6, <2>7 DEF Held
<1>10. CASE Accept
  <2>1. UNCHANGED <<frame, at, inStep, faults, buf, state, expected>>
    BY <1>10 DEF Accept, hostVars, lineVars
  <2> QED
    BY <1>h, <1>s, <2>1 DEF Held, Between, Damaged, Sent, AllSent
<1>11. CASE Reject
  <2>1. /\ UNCHANGED <<frame, at, inStep>> /\ buf' = <<>>
        /\ state = "header done" /\ Len(buf) >= expected
    BY <1>11 DEF Reject, ParserBusy, Restart, hostVars, lineVars
  <2>2. expected <= Len(buf)
    BY <1>o, <2>1 DEF TypeOK, HeaderSize
  <2>3. at = 1 \/ AllSent
    <3>1. CASE Held
      BY <1>o, <2>1, <2>2, <3>1, TakenWhole
    <3>2. CASE Between
      BY <3>2 DEF Between
    <3> QED
      BY <1>h, <1>s, <2>1, <3>1, <3>2
  <2> QED
    BY <2>1, <2>3 DEF Between, AllSent
<1>12. CASE RunCommand
  <2>1. UNCHANGED <<frame, at, inStep, buf, state, expected>>
    BY <1>12 DEF RunCommand
  <2>2. faults' = 0 => faults = 0
    <3>1. faults' = faults \/ faults' = faults + 1
      BY <1>12 DEF RunCommand
    <3> QED
      BY <1>o, <3>1, MaxFaultsAssumption DEF TypeOK
  <2>3. Sent' = Sent /\ Damaged' = Damaged
    BY <2>1 DEF Sent, Damaged
  <2>4. Held => Held'
    BY <2>1, <2>2, <2>3 DEF Held
  <2>5. Between => Between'
    BY <2>1 DEF Between, AllSent
  <2> QED
    BY <1>h, <1>s, <2>1, <2>4, <2>5
<1>13. CASE NotARequest
  <2>1. UNCHANGED <<frame, at, inStep, faults, buf, state, expected>>
    BY <1>13 DEF NotARequest, hostVars, lineVars
  <2> QED
    BY <1>h, <1>s, <2>1 DEF Held, Between, Damaged, Sent, AllSent
<1>14. CASE Rearm
  <2>1. /\ UNCHANGED <<frame, at, inStep>> /\ buf' = <<>> /\ phase = "rearm"
    BY <1>14 DEF Rearm, Restart, hostVars, lineVars
  <2>2. state = "header done" /\ expected <= Len(buf)
    BY <1>o, <2>1 DEF Order
  <2>3. at = 1 \/ AllSent
    BY <1>h, <1>o, <1>s, <2>1, <2>2, TakenWhole DEF Between
  <2> QED
    BY <2>1, <2>3 DEF Between, AllSent
<1>15. CASE UNCHANGED vars
  <2>1. UNCHANGED <<frame, at, inStep, faults, buf, state, expected>>
    BY <1>15 DEF vars, hostVars, lineVars, parserVars
  <2> QED
    BY <1>h, <1>s, <2>1 DEF Held, Between, Damaged, Sent, AllSent
<1> QED
  BY <1>1, <1>2, <1>3, <1>4, <1>5, <1>6, <1>7, <1>8, <1>9, <1>10, <1>11,
     <1>12, <1>13, <1>14, <1>15 DEF Next, Parse, Poll, Host, Line

(* What is run in step is what was sent.                                   *)
LEMMA RunsWhatWasSent ==
    ASSUME InStepInv, RunCommand, inStep
    PROVE  SubSeq(buf, 1, expected) = frame
<1>1. LineInv /\ TypeOK /\ Order /\ phase = "run"
  BY DEF InStepInv, LineInv, ParserInv, RunCommand
<1>2. state = "header done" /\ expected <= Len(buf) /\ ChecksumOK /\ buf # <<>>
  BY <1>1 DEF Order
<1>3. Held
  BY <1>2 DEF InStepInv, Between
<1>4. expected = Len(frame)
  BY <1>2, <1>3 DEF Held
<1>5. /\ frame \in Seq(Byte) /\ Len(frame) \in Nat /\ Len(frame) >= 5
      /\ frame[1] = Marker
      /\ Checksum(frame, Len(frame) - 1) = frame[Len(frame)]
  BY <1>3, SentFrame DEF Held
<1>6. buf \in Seq(Byte) /\ Len(buf) \in Nat /\ Len(frame) <= Len(buf)
  <2>1. buf \in Seq(Byte)
    BY <1>1 DEF TypeOK
  <2>2. Len(frame) <= Len(buf)
    BY <1>2, <1>4
  <2> QED
    BY ONLY <2>1, <2>2
<1>7. Checksum(buf, Len(frame) - 1) = buf[Len(frame)]
  BY <1>2, <1>4 DEF ChecksumOK
<1>8. \A i \in 1..Len(frame) : i \in 1..Len(buf)
  BY ONLY <1>5, <1>6
<1>9. \A i, j \in 1..Len(frame) :
        buf[i] # frame[i] /\ buf[j] # frame[j] => i = j
  BY <1>3, <1>8 DEF Held, Damaged
<1>10. buf[1] = frame[1]
  <2>1. 1 \in 1..Len(buf)
    BY ONLY <1>5, <1>6
  <2> QED
    BY <1>3, <2>1 DEF Held, Damaged
<1>11. Len(frame) >= 2
  BY ONLY <1>5
<1>12. SubSeq(buf, 1, Len(frame)) = frame
  BY ONLY <1>5, <1>6, <1>7, <1>9, <1>10, <1>11, ChecksumShows
<1> QED
  BY <1>4, <1>12

(* With one fault on the line, whatever the frames are and whenever the    *)
(* host sends them again: a frame the parser sees from its first byte is   *)
(* run as it was sent or not at all.                                       *)
THEOREM OneDamageDetected ==
    ASSUME MaxFaults <= 1
    PROVE  Spec => DamageDetected
<1>1. InStepInv /\ [Next]_vars => InStepInv'
  BY NextInStepInv
<1>2. InStepInv =>
        [RunCommand /\ inStep => SubSeq(buf, 1, expected) = frame]_vars
  BY RunsWhatWasSent
<1> QED
  BY InitInStepInv, <1>1, <1>2, PTL DEF Spec, DamageDetected
=============================================================================
