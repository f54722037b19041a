--------------------------- MODULE BlockAckProofs ---------------------------
(***************************************************************************)
(* Proofs about BlockAck: the packets of the originator are tracked, the   *)
(* recipient passes packets up in sequence, and the two ends agree, for    *)
(* every number of MSDUs and of sequence numbers and for every window.     *)
(***************************************************************************)
EXTENDS BlockAck, FiniteSetTheorems, SequenceTheorems, WellFoundedInduction, TLAPS

-----------------------------------------------------------------------------
(* Arithmetic *)

\* A number is a multiple of S and the remainder.
LEMMA DivMod == ASSUME NEW S \in Nat \ {0}, NEW x \in Int PROVE x = S * (x \div S) + (x % S)
  OBVIOUS

\* The remainder is the only one.
LEMMA ModUnique ==
  ASSUME NEW S \in Nat \ {0}, NEW x \in Int, NEW q \in Int, NEW r \in 0 .. S - 1, x = S * q + r
  PROVE  x % S = r
  OBVIOUS

\* Multiples of S do not count.
LEMMA ModShift ==
  ASSUME NEW S \in Nat \ {0}, NEW x \in Int, NEW q \in Int
  PROVE  (x + S * q) % S = x % S
<1> DEFINE d == x \div S
           r == x % S
<1>1. d \in Int /\ r \in 0 .. S - 1 /\ x = S * d + r
  BY DivMod
<1>2. x + S * q = S * (d + q) + r
  BY <1>1
<1>3. d + q \in Int /\ x + S * q \in Int
  BY <1>1
<1> HIDE DEF d, r
<1>4. (x + S * q) % S = r
  BY <1>1, <1>2, <1>3, ModUnique
<1> QED BY <1>4 DEF r

\* Differences and sums of remainders.
LEMMA ModMinus ==
  ASSUME NEW S \in Nat \ {0}, NEW x \in Int, NEW y \in Int
  PROVE  ((x % S) - (y % S)) % S = (x - y) % S
<1> DEFINE q == (y \div S) - (x \div S)
<1>1. q \in Int /\ x - y \in Int
  OBVIOUS
<1>2. (x % S) - (y % S) = (x - y) + S * q
  BY DivMod
<1> HIDE DEF q
<1> QED BY <1>1, <1>2, ModShift

LEMMA ModPlus ==
  ASSUME NEW S \in Nat \ {0}, NEW x \in Int, NEW y \in Int
  PROVE  ((x % S) + y) % S = (x + y) % S
<1> DEFINE q == -(x \div S)
<1>1. q \in Int /\ x + y \in Int
  OBVIOUS
<1>2. (x % S) + y = (x + y) + S * q
  BY DivMod
<1> HIDE DEF q
<1> QED BY <1>1, <1>2, ModShift

\* Remainders of small numbers.
LEMMA ModSmall ==
  ASSUME NEW S \in Nat \ {0}, NEW x \in Int
  PROVE  /\ 0 <= x /\ x < S => x % S = x
         /\ -S <= x /\ x < 0 => x % S = x + S
         /\ x % S \in 0 .. S - 1
<1>1. ASSUME -S <= x, x < 0 PROVE x % S = x + S
  <2>1. x + S \in 0 .. S - 1 /\ x = S * (-1) + (x + S)
    BY <1>1
  <2> QED BY <2>1, ModUnique
<1> QED BY <1>1

Numbers == 0 .. SeqSpace - 1

\* What the assumptions say of the sizes.
LEMMA Sizes ==
  /\ MaxMsdus \in Nat /\ SeqSpace \in Nat \ {0} /\ Half \in Nat
  /\ Window \in Nat \ {0} /\ BufferSize \in Nat
  /\ 2 * Window < Half /\ Window <= BufferSize /\ BufferSize < Half
  /\ 2 * Half <= SeqSpace /\ SeqSpace <= 2 * Half + 1
BY SizesAssumption DEF Half

\* The remainder of a number that is no further from 0 than the sequence numbers.
LEMMA ModNear ==
  ASSUME NEW d \in Int, -SeqSpace <= d, d < SeqSpace
  PROVE  d % SeqSpace = IF d < 0 THEN d + SeqSpace ELSE d
<1>1. SeqSpace \in Nat \ {0}
  BY Sizes
<1>2. CASE d < 0
  BY <1>1, <1>2, ModSmall
<1>3. CASE 0 <= d
  BY <1>1, <1>3
<1> QED BY <1>2, <1>3

\* The sequence number of a later or earlier packet, and its distance.
LEMMA SnNumber == ASSUME first \in Numbers, NEW n \in Int PROVE Sn(n) \in Numbers
<1> DEFINE x == first + n - 1
<1>1. x \in Int
  BY Sizes DEF Numbers
<1> HIDE DEF x
<1> QED BY <1>1, Sizes, ModSmall DEF x, Sn, Numbers

LEMMA SnPlus ==
  ASSUME first \in Numbers, NEW n \in Int, NEW k \in Int
  PROVE  (Sn(n) + k) % SeqSpace = Sn(n + k)
<1>1. first + n - 1 \in Int
  BY Sizes DEF Numbers
<1>2. (((first + n - 1) % SeqSpace) + k) % SeqSpace = (first + n - 1 + k) % SeqSpace
  BY <1>1, Sizes, ModPlus
<1>3. first + n - 1 + k = first + (n + k) - 1
  BY Sizes DEF Numbers
<1> QED BY <1>1, <1>2, <1>3, Sizes, ModSmall DEF Sn, Numbers

LEMMA SnMinus ==
  ASSUME first \in Numbers, NEW n \in Int, NEW m \in Int
  PROVE  (Sn(n) - Sn(m)) % SeqSpace = (n - m) % SeqSpace
<1> DEFINE x == first + n - 1
           y == first + m - 1
<1>1. x \in Int /\ y \in Int /\ x - y = n - m
  BY Sizes DEF Numbers
<1>2. Sn(n) = x % SeqSpace /\ Sn(m) = y % SeqSpace
  BY DEF Sn
<1> HIDE DEF x, y
<1>3. ((x % SeqSpace) - (y % SeqSpace)) % SeqSpace = (x - y) % SeqSpace
  BY <1>1, Sizes, ModMinus
<1> QED BY <1>1, <1>2, <1>3

\* The remainder of the distance, if that is less than the sequence numbers.
LEMMA SnDistance ==
  ASSUME first \in Numbers, NEW a \in Int, NEW m \in Int, m - a < SeqSpace, a - m <= SeqSpace
  PROVE  (Sn(m) - Sn(a)) % SeqSpace = IF m < a THEN m - a + SeqSpace ELSE m - a
<1> DEFINE d == m - a
<1>1. d \in Int /\ d < SeqSpace /\ -SeqSpace <= d /\ (d < 0 <=> m < a)
  BY Sizes
<1>2. (Sn(m) - Sn(a)) % SeqSpace = d % SeqSpace
  BY SnMinus
<1> HIDE DEF d
<1>3. d % SeqSpace = IF d < 0 THEN d + SeqSpace ELSE d
  BY <1>1, ModNear
<1> QED BY <1>1, <1>2, <1>3 DEF d

\* The comparison of sequence numbers is that of the packets, if they are less than half
\* the numbers apart.
LEMMA OldIsLess ==
  ASSUME first \in Numbers, NEW a \in Int, NEW m \in Int, m - a < Half, a - m <= Half
  PROVE  IsOld(Sn(a), Sn(m)) <=> m < a
<1>1. m - a < SeqSpace /\ a - m <= SeqSpace
  BY Sizes
<1> QED BY <1>1, SnDistance, Sizes DEF IsOld

\* So is the comparison with a window.
LEMMA InWindowIsBetween ==
  ASSUME first \in Numbers, NEW a \in Int, NEW m \in Int, NEW size \in Nat,
         m - a < SeqSpace, a - m <= SeqSpace - size
  PROVE  IsInWindow(Sn(m), Sn(a), size) <=> a <= m /\ m < a + size
<1>1. m - a < SeqSpace /\ a - m <= SeqSpace
  BY Sizes
<1> QED BY <1>1, SnDistance, Sizes DEF IsInWindow

\* Packets that are less than the sequence numbers apart have different ones.
LEMMA SnDiffers ==
  ASSUME first \in Numbers, NEW a \in Int, NEW m \in Int, m - a < SeqSpace, a - m < SeqSpace
  PROVE  Sn(a) = Sn(m) <=> a = m
<1> DEFINE d == Sn(m) - Sn(a)
<1>1. d \in Int /\ -SeqSpace <= d /\ d < SeqSpace /\ (Sn(a) = Sn(m) => d = 0)
  BY SnNumber, Sizes DEF Numbers
<1>2. d % SeqSpace = IF m < a THEN m - a + SeqSpace ELSE m - a
  BY SnDistance, Sizes
<1> HIDE DEF d
<1>3. d % SeqSpace = IF d < 0 THEN d + SeqSpace ELSE d
  BY <1>1, ModNear
<1>4. Sn(a) = Sn(m) => a = m
  BY <1>1, <1>2, <1>3, Sizes
<1> QED BY <1>4

\* Before the numbers come round they are in the order of the packets.
LEMMA SnPlain ==
  ASSUME first \in Numbers, NEW n \in 1 .. MaxMsdus + 1, first + MaxMsdus < SeqSpace
  PROVE  Sn(n) = first + n - 1
<1> DEFINE x == first + n - 1
<1>1. x \in Int /\ 0 <= x /\ x < SeqSpace
  BY Sizes DEF Numbers
<1> HIDE DEF x
<1>2. x % SeqSpace = x
  BY <1>1, Sizes, ModSmall
<1> QED BY <1>2 DEF x, Sn

(* Induction, and the loops of the model *)

\* A set of numbers has a least one.  The intervals up to a number of the set are
\* finite, and one is in none of the others.
LEMMA LeastNatural ==
  ASSUME NEW T \in SUBSET Nat, T # {}
  PROVE  \E m \in T : \A n \in T : m <= n
<1>1. PICK t \in T : TRUE
  OBVIOUS
<1> DEFINE Upto == {0 .. m : m \in {n \in T : n <= t}}
           R == StrictSubsetOrdering(0 .. t)
<1>2. IsFiniteSet(0 .. t)
  BY FS_Interval
<1>3. IsWellFoundedOn(R, SUBSET (0 .. t))
  BY <1>2, FS_FiniteSubsetsOfFinite, FS_StrictSubsetOrderingWellFounded
<1>4. Upto \subseteq SUBSET (0 .. t) /\ 0 .. t \in Upto
  OBVIOUS
<1> HIDE DEF R, Upto
<1>5. PICK least \in Upto : \A other \in Upto : <<other, least>> \notin R
  <2>1. Upto # {}
    BY <1>4
  <2> QED BY <1>3, <1>4, <2>1, WFMin, Zenon
<1>6. PICK m \in {n \in T : n <= t} : least = 0 .. m
  BY <1>5 DEF Upto
<1>7. ASSUME NEW n \in T, ~(m <= n) PROVE FALSE
  <2>1. n < m /\ n <= t /\ 0 .. n \in Upto
    BY <1>6, <1>7 DEF Upto
  <2>2. 0 .. n \subseteq 0 .. m /\ m \in 0 .. m /\ m \notin 0 .. n
    BY <2>1
  <2>3. 0 .. n \in SUBSET (0 .. t) /\ 0 .. m \in SUBSET (0 .. t)
    BY <1>6, <2>1
  <2>4. <<0 .. n, 0 .. m>> \in R
    BY <2>2, <2>3 DEF R, StrictSubsetOrdering
  <2> QED BY <1>5, <1>6, <2>1, <2>4
<1> QED BY <1>6, <1>7

\* Induction with a set.
LEMMA Induction ==
  ASSUME NEW S, 0 \in S, \A n \in Nat : n \in S => n + 1 \in S
  PROVE  Nat \subseteq S
<1> SUFFICES ASSUME Nat \ S # {} PROVE FALSE
  OBVIOUS
<1>1. PICK m \in Nat \ S : \A n \in Nat \ S : m <= n
  BY LeastNatural
<1>2. m # 0 /\ m - 1 \in Nat /\ m - 1 \in S
  BY <1>1
<1>3. m - 1 + 1 \in S
  BY <1>2
<1> QED BY <1>1, <1>3

\* A loop over 1 .. n with the given step has a result after each turn.
Loops(D, base, n, step) ==
  \E f \in [0 .. n -> D] : f[0] = base /\ \A i \in 1 .. n : f[i] = step[i][f[i - 1]]

LEMMA LoopExists ==
  ASSUME NEW D, NEW base \in D, NEW n \in Nat, NEW step \in [1 .. n -> [D -> D]]
  PROVE  Loops(D, base, n, step)
<1> DEFINE Upto(f, j) == f[0] = base /\ \A i \in 1 .. j : f[i] = step[i][f[i - 1]]
           S == {j \in Nat : j <= n => \E f \in [0 .. j -> D] : Upto(f, j)}
<1>1. 0 \in S
  <2> DEFINE f == [i \in 0 .. 0 |-> base]
  <2>1. f \in [0 .. 0 -> D] /\ Upto(f, 0)
    OBVIOUS
  <2> QED BY <2>1
<1>2. ASSUME NEW j \in Nat, j \in S PROVE j + 1 \in S
  <2> SUFFICES ASSUME j + 1 <= n PROVE \E f \in [0 .. j + 1 -> D] : Upto(f, j + 1)
    OBVIOUS
  <2>1. PICK f \in [0 .. j -> D] : Upto(f, j)
    BY <1>2
  <2> DEFINE last == step[j + 1][f[j]]
             g == [i \in 0 .. j + 1 |-> IF i = j + 1 THEN last ELSE f[i]]
  <2>2. last \in D
    BY <2>1
  <2> HIDE DEF last
  <2>3. g \in [0 .. j + 1 -> D]
    BY <2>1, <2>2
  <2>4. g[0] = base /\ \A i \in 0 .. j : g[i] = f[i]
    BY <2>1
  <2>5. g[j + 1] = last
    OBVIOUS
  <2> HIDE DEF g
  <2>6. ASSUME NEW i \in 1 .. j + 1 PROVE g[i] = step[i][g[i - 1]]
    <3>1. CASE i = j + 1
      BY <2>4, <2>5, <3>1 DEF last
    <3>2. CASE i # j + 1
      <4>1. i \in 1 .. j /\ i - 1 \in 0 .. j
        BY <3>2
      <4> QED BY <2>1, <2>4, <4>1
    <3> QED BY <3>1, <3>2
  <2> QED BY <2>3, <2>4, <2>6
<1> HIDE DEF S
<1>3. n \in S
  BY <1>1, <1>2, Induction
<1> QED BY <1>3 DEF S, Loops

(* Sequences *)

\* The number of elements at the front that are in a set.
LEMMA LeadingFacts ==
  ASSUME NEW D, NEW s \in Seq(D), NEW S
  PROVE  /\ Leading(s, S) \in 0 .. Len(s)
         /\ \A i \in 1 .. Leading(s, S) : s[i] \in S
         /\ Leading(s, S) < Len(s) => s[Leading(s, S) + 1] \notin S
<1> DEFINE Ends(k) == (\A i \in 1 .. k : s[i] \in S) /\ (k < Len(s) => s[k + 1] \notin S)
           N == {k \in 1 .. Len(s) : s[k] \notin S}
<1>1. \E k \in 0 .. Len(s) : Ends(k)
  <2>1. CASE N = {}
    <3>1. Len(s) \in 0 .. Len(s) /\ Ends(Len(s))
      BY <2>1
    <3> QED BY <3>1
  <2>2. CASE N # {}
    <3>1. N \in SUBSET Nat
      OBVIOUS
    <3>2. PICK m \in N : \A k \in N : m <= k
      BY <2>2, <3>1, LeastNatural
    <3>3. m - 1 \in 0 .. Len(s) /\ m \in 1 .. Len(s) /\ s[m] \notin S
      BY <3>2
    <3>4. \A i \in 1 .. m - 1 : s[i] \in S
      BY <3>2, <3>3
    <3>5. Ends(m - 1)
      BY <3>3, <3>4
    <3> QED BY <3>3, <3>5
  <2> QED BY <2>1, <2>2
<1>2. Leading(s, S) = CHOOSE k \in 0 .. Len(s) : Ends(k)
  BY DEF Leading
<1> HIDE DEF Ends
<1>3. Leading(s, S) \in 0 .. Len(s) /\ Ends(Leading(s, S))
  BY <1>1, <1>2
<1> QED BY <1>3 DEF Ends

\* The elements of a sequence.
LEMMA ToSetFacts ==
  ASSUME NEW D, NEW s \in Seq(D)
  PROVE  /\ Len(s) \in Nat /\ DOMAIN s = 1 .. Len(s)
         /\ ToSet(s) \subseteq D
         /\ \A x : x \in ToSet(s) <=> \E i \in 1 .. Len(s) : x = s[i]
         /\ s = <<>> <=> Len(s) = 0
         /\ s = <<>> <=> ToSet(s) = {}
         /\ s # <<>> => s[1] \in ToSet(s)
<1>1. Len(s) \in Nat /\ DOMAIN s = 1 .. Len(s) /\ \A i \in 1 .. Len(s) : s[i] \in D
  BY LenProperties, ElementOfSeq
<1>2. s = <<>> <=> Len(s) = 0
  BY EmptySeq
<1>3. \A x : x \in ToSet(s) <=> \E i \in 1 .. Len(s) : x = s[i]
  BY <1>1 DEF ToSet
<1>4. s # <<>> => 1 \in 1 .. Len(s)
  BY <1>1, <1>2
<1>5. s = <<>> => ToSet(s) = {}
  BY <1>2, <1>3
<1>6. ToSet(s) \subseteq D
  BY <1>1, <1>3
<1>7. s # <<>> => s[1] \in ToSet(s)
  BY <1>3, <1>4
<1> QED BY <1>1, <1>2, <1>3, <1>5, <1>6, <1>7

\* In strictly ascending order.
Sorted(s) == \A i, j \in DOMAIN s : i < j => s[i] < s[j]

LEMMA ConcatFacts ==
  ASSUME NEW D, NEW s \in Seq(D), NEW t \in Seq(D)
  PROVE  /\ s \o t \in Seq(D)
         /\ ToSet(s \o t) = ToSet(s) \cup ToSet(t)
         /\ Sorted(s) /\ Sorted(t) /\ (\A x \in ToSet(s), y \in ToSet(t) : x < y) => Sorted(s \o t)
<1> DEFINE u == s \o t
<1>1. /\ u \in Seq(D) /\ Len(u) = Len(s) + Len(t)
      /\ \A i \in 1 .. Len(s) + Len(t) : u[i] = IF i <= Len(s) THEN s[i] ELSE t[i - Len(s)]
  BY ConcatProperties
<1>2. /\ Len(s) \in Nat /\ Len(t) \in Nat /\ DOMAIN s = 1 .. Len(s) /\ DOMAIN t = 1 .. Len(t)
      /\ \A x : x \in ToSet(s) <=> \E i \in 1 .. Len(s) : x = s[i]
      /\ \A x : x \in ToSet(t) <=> \E i \in 1 .. Len(t) : x = t[i]
  BY ToSetFacts
<1> HIDE DEF u
<1>3. DOMAIN u = 1 .. Len(s) + Len(t) /\ \A x : x \in ToSet(u) <=> \E i \in 1 .. Len(s) + Len(t) : x = u[i]
  BY <1>1, ToSetFacts
<1>4. ASSUME NEW x \in ToSet(u) PROVE x \in ToSet(s) \cup ToSet(t)
  <2>1. PICK i \in 1 .. Len(s) + Len(t) : x = u[i]
    BY <1>3
  <2>2. CASE i <= Len(s)
    BY <1>1, <1>2, <2>1, <2>2
  <2>3. CASE ~(i <= Len(s))
    <3>1. i - Len(s) \in 1 .. Len(t) /\ x = t[i - Len(s)]
      BY <1>1, <1>2, <2>1, <2>3
    <3> QED BY <1>2, <3>1
  <2> QED BY <2>2, <2>3
<1>5. ASSUME NEW x \in ToSet(s) PROVE x \in ToSet(u)
  <2>1. PICK i \in 1 .. Len(s) : x = s[i]
    BY <1>2
  <2>2. i \in 1 .. Len(s) + Len(t) /\ x = u[i]
    BY <1>1, <1>2, <2>1
  <2> QED BY <1>3, <2>2
<1>6. ASSUME NEW x \in ToSet(t) PROVE x \in ToSet(u)
  <2>1. PICK i \in 1 .. Len(t) : x = t[i]
    BY <1>2
  <2> DEFINE j == Len(s) + i
  <2>2. j \in 1 .. Len(s) + Len(t) /\ ~(j <= Len(s)) /\ j - Len(s) = i
    BY <1>2
  <2> HIDE DEF j
  <2>3. x = u[j]
    BY <1>1, <2>1, <2>2
  <2> QED BY <1>3, <2>2, <2>3
<1>7. ASSUME Sorted(s), Sorted(t), \A x \in ToSet(s), y \in ToSet(t) : x < y,
             NEW i \in DOMAIN u, NEW j \in DOMAIN u, i < j
      PROVE  u[i] < u[j]
  <2>1. CASE j <= Len(s)
    BY <1>1, <1>2, <1>3, <1>7, <2>1 DEF Sorted
  <2>2. CASE i <= Len(s) /\ ~(j <= Len(s))
    <3>1. u[i] = s[i] /\ i \in 1 .. Len(s) /\ u[j] = t[j - Len(s)] /\ j - Len(s) \in 1 .. Len(t)
      BY <1>1, <1>2, <1>3, <1>7, <2>2
    <3>2. u[i] \in ToSet(s) /\ u[j] \in ToSet(t)
      BY <1>2, <3>1
    <3> QED BY <1>7, <3>2
  <2>3. CASE ~(i <= Len(s))
    <3>1. /\ u[i] = t[i - Len(s)] /\ i - Len(s) \in 1 .. Len(t)
          /\ u[j] = t[j - Len(s)] /\ j - Len(s) \in 1 .. Len(t) /\ i - Len(s) < j - Len(s)
      BY <1>1, <1>2, <1>3, <1>7, <2>3
    <3> QED BY <1>2, <1>7, <3>1 DEF Sorted
  <2> QED BY <2>1, <2>2, <2>3, <1>2, <1>3
<1>8. Sorted(s) /\ Sorted(t) /\ (\A x \in ToSet(s), y \in ToSet(t) : x < y) => Sorted(u)
  BY <1>7 DEF Sorted
<1>9. ToSet(u) = ToSet(s) \cup ToSet(t)
  BY <1>4, <1>5, <1>6
<1> QED BY <1>1, <1>8, <1>9 DEF u

\* A part of a sequence.
LEMMA SubSeqFacts ==
  ASSUME NEW D, NEW s \in Seq(D), NEW m \in Nat, NEW n \in Nat, 1 <= m, n <= Len(s)
  PROVE  /\ SubSeq(s, m, n) \in Seq(D)
         /\ Len(SubSeq(s, m, n)) = IF m <= n THEN n - m + 1 ELSE 0
         /\ \A i \in 1 .. n - m + 1 : SubSeq(s, m, n)[i] = s[m + i - 1]
         /\ \A x : x \in ToSet(SubSeq(s, m, n)) <=> \E i \in m .. n : x = s[i]
         /\ Sorted(s) => Sorted(SubSeq(s, m, n))
<1> DEFINE u == SubSeq(s, m, n)
<1>1. Len(s) \in Nat /\ DOMAIN s = 1 .. Len(s) /\ \A i \in m .. n : s[i] \in D
  BY ToSetFacts, ElementOfSeq
<1>2. /\ u \in Seq(D) /\ Len(u) = IF m <= n THEN n - m + 1 ELSE 0
      /\ \A i \in 1 .. n - m + 1 : u[i] = s[m + i - 1]
  BY <1>1, SubSeqProperties
<1> HIDE DEF u
<1>3. DOMAIN u = 1 .. Len(u) /\ \A x : x \in ToSet(u) <=> \E i \in 1 .. Len(u) : x = u[i]
  BY <1>2, ToSetFacts
<1>4. DOMAIN u = 1 .. n - m + 1
  BY <1>2, <1>3
<1>5. ASSUME NEW i \in m .. n PROVE s[i] \in ToSet(u)
  <2>1. i - m + 1 \in 1 .. n - m + 1 /\ m + (i - m + 1) - 1 = i
    OBVIOUS
  <2>2. s[i] = u[i - m + 1]
    BY <1>2, <2>1
  <2> QED BY <1>3, <1>4, <2>1, <2>2
<1>6. ASSUME NEW x \in ToSet(u) PROVE \E i \in m .. n : x = s[i]
  <2>1. PICK i \in 1 .. n - m + 1 : x = u[i]
    BY <1>3, <1>4
  <2>2. m + i - 1 \in m .. n /\ x = s[m + i - 1]
    BY <1>2, <2>1
  <2> QED BY <2>2
<1>7. ASSUME Sorted(s), NEW i \in DOMAIN u, NEW j \in DOMAIN u, i < j PROVE u[i] < u[j]
  <2>1. /\ u[i] = s[m + i - 1] /\ u[j] = s[m + j - 1]
        /\ m + i - 1 \in 1 .. Len(s) /\ m + j - 1 \in 1 .. Len(s) /\ m + i - 1 < m + j - 1
    BY <1>1, <1>2, <1>4, <1>7
  <2> QED BY <1>1, <1>7, <2>1 DEF Sorted
<1>8. Sorted(s) => Sorted(u)
  BY <1>7 DEF Sorted
<1> QED BY <1>2, <1>5, <1>6, <1>8 DEF u

\* The elements of a sorted sequence are different, and the first is the least.
LEMMA SortedFacts ==
  ASSUME NEW s \in Seq(Msdus), Sorted(s)
  PROVE  /\ \A i, j \in 1 .. Len(s) : i <= j => s[i] <= s[j]
         /\ s # <<>> => s[1] \in ToSet(s) /\ \A x \in ToSet(s) : s[1] <= x
<1>1. /\ Len(s) \in Nat /\ DOMAIN s = 1 .. Len(s) /\ (s = <<>> <=> Len(s) = 0)
      /\ \A x : x \in ToSet(s) <=> \E i \in 1 .. Len(s) : x = s[i]
  BY ToSetFacts
<1>2. \A i \in 1 .. Len(s) : s[i] \in Int
  BY ElementOfSeq, Sizes DEF Msdus
<1>3. \A i, j \in 1 .. Len(s) : i <= j => s[i] <= s[j]
  BY <1>1, <1>2 DEF Sorted
<1> QED BY <1>1, <1>3

LEMMA TailFacts ==
  ASSUME NEW s \in Seq(Msdus), s # <<>>
  PROVE  /\ Tail(s) \in Seq(Msdus) /\ s[1] \in Msdus /\ Head(s) = s[1]
         /\ ToSet(s) = {s[1]} \cup ToSet(Tail(s))
         /\ Sorted(s) => Sorted(Tail(s)) /\ \A x \in ToSet(Tail(s)) : s[1] < x
<1> DEFINE u == Tail(s)
<1>1. /\ Len(s) \in Nat \ {0} /\ DOMAIN s = 1 .. Len(s)
      /\ \A x : x \in ToSet(s) <=> \E i \in 1 .. Len(s) : x = s[i]
      /\ \A i \in 1 .. Len(s) : s[i] \in Msdus
  BY ToSetFacts, ElementOfSeq
<1>2. u \in Seq(Msdus) /\ Len(u) = Len(s) - 1 /\ \A i \in 1 .. Len(u) : u[i] = s[i + 1]
  BY HeadTailProperties
<1> HIDE DEF u
<1>3. DOMAIN u = 1 .. Len(s) - 1 /\ \A x : x \in ToSet(u) <=> \E i \in 1 .. Len(s) - 1 : x = u[i]
  BY <1>2, ToSetFacts
<1>4. ASSUME NEW x \in ToSet(s), x # s[1] PROVE x \in ToSet(u)
  <2>1. PICK i \in 1 .. Len(s) : x = s[i]
    BY <1>1
  <2>2. i - 1 \in 1 .. Len(s) - 1 /\ u[i - 1] = s[i]
    BY <1>1, <1>2, <1>4, <2>1
  <2> QED BY <1>3, <2>1, <2>2
<1>5. ASSUME NEW x \in ToSet(u) PROVE \E i \in 1 .. Len(s) - 1 : x = s[i + 1]
  BY <1>2, <1>3
<1>6. ASSUME NEW x \in ToSet(u) PROVE x \in ToSet(s) /\ (Sorted(s) => s[1] < x)
  <2>1. PICK i \in 1 .. Len(s) - 1 : x = s[i + 1]
    BY <1>5
  <2> QED BY <1>1, <2>1 DEF Sorted
<1>7. ASSUME Sorted(s), NEW i \in DOMAIN u, NEW j \in DOMAIN u, i < j PROVE u[i] < u[j]
  <2>1. /\ u[i] = s[i + 1] /\ u[j] = s[j + 1]
        /\ i + 1 \in 1 .. Len(s) /\ j + 1 \in 1 .. Len(s) /\ i + 1 < j + 1
    BY <1>1, <1>2, <1>3, <1>7
  <2> QED BY <1>1, <1>7, <2>1 DEF Sorted
<1>8. Sorted(s) => Sorted(u)
  BY <1>7 DEF Sorted
<1>9. Head(s) = s[1] /\ 1 \in 1 .. Len(s)
  BY <1>1
<1>10. ToSet(s) = {s[1]} \cup ToSet(u)
  BY <1>1, <1>4, <1>6, <1>9
<1> QED BY <1>1, <1>2, <1>6, <1>8, <1>9, <1>10 DEF u

\* An insertion behind the elements at the front that are in S.
LEMMA InsertFacts ==
  ASSUME NEW s \in Seq(Msdus), NEW n \in Msdus, NEW S
  PROVE  /\ InsertAt(s, 1 + Leading(s, S), n) \in Seq(Msdus)
         /\ ToSet(InsertAt(s, 1 + Leading(s, S), n)) = ToSet(s) \cup {n}
         /\ Sorted(s) /\ n \notin ToSet(s) /\ (\A m \in ToSet(s) : m \in S <=> m < n) =>
              Sorted(InsertAt(s, 1 + Leading(s, S), n))
<1> DEFINE k == Leading(s, S)
           before == SubSeq(s, 1, k)
           after == SubSeq(s, k + 1, Len(s))
<1>1. /\ Len(s) \in Nat /\ DOMAIN s = 1 .. Len(s)
      /\ \A x : x \in ToSet(s) <=> \E i \in 1 .. Len(s) : x = s[i]
      /\ \A i \in 1 .. Len(s) : s[i] \in Msdus /\ s[i] \in Int
  BY ToSetFacts, ElementOfSeq, Sizes DEF Msdus
<1>2. /\ k \in 0 .. Len(s) /\ (\A i \in 1 .. k : s[i] \in S)
      /\ k < Len(s) => s[k + 1] \notin S
  BY LeadingFacts
<1> DEFINE one == <<n>>
<1>3. InsertAt(s, 1 + k, n) = (before \o one) \o after
  <2> HIDE DEF k
  <2>1. (1 + k) - 1 = k /\ 1 + k = k + 1
    BY <1>2
  <2>2. InsertAt(s, 1 + k, n) = (SubSeq(s, 1, (1 + k) - 1) \o one) \o SubSeq(s, 1 + k, Len(s))
    BY Zenon DEF InsertAt
  <2> QED BY <2>1, <2>2, Zenon
<1> HIDE DEF k
<1>4. /\ before \in Seq(Msdus) /\ (Sorted(s) => Sorted(before))
      /\ \A x : x \in ToSet(before) <=> \E i \in 1 .. k : x = s[i]
  BY <1>1, <1>2, SubSeqFacts
<1>5. /\ after \in Seq(Msdus) /\ (Sorted(s) => Sorted(after))
      /\ \A x : x \in ToSet(after) <=> \E i \in k + 1 .. Len(s) : x = s[i]
  BY <1>1, <1>2, SubSeqFacts
<1> HIDE DEF before, after
<1>6. one \in Seq(Msdus) /\ ToSet(one) = {n} /\ Sorted(one)
  <2>1. one \in Seq(Msdus) /\ Len(one) = 1 /\ one[1] = n
    OBVIOUS
  <2> HIDE DEF one
  <2>2. DOMAIN one = 1 .. 1 /\ \A x : x \in ToSet(one) <=> \E i \in 1 .. 1 : x = one[i]
    BY <2>1, ToSetFacts
  <2> QED BY <2>1, <2>2 DEF Sorted
<1> HIDE DEF one
<1>7. /\ before \o one \in Seq(Msdus) /\ ToSet(before \o one) = ToSet(before) \cup {n}
      /\ Sorted(before) /\ (\A x \in ToSet(before) : x < n) => Sorted(before \o one)
  BY <1>4, <1>6, ConcatFacts
<1>8. /\ (before \o one) \o after \in Seq(Msdus)
      /\ ToSet((before \o one) \o after) = ToSet(before) \cup {n} \cup ToSet(after)
      /\ Sorted(before \o one) /\ Sorted(after)
           /\ (\A x \in ToSet(before) \cup {n}, y \in ToSet(after) : x < y) =>
         Sorted((before \o one) \o after)
  <2> DEFINE front == before \o one
  <2>1. front \in Seq(Msdus) /\ ToSet(front) = ToSet(before) \cup {n}
    BY <1>7
  <2> HIDE DEF front
  <2>2. /\ front \o after \in Seq(Msdus)
        /\ ToSet(front \o after) = ToSet(before) \cup {n} \cup ToSet(after)
        /\ Sorted(front) /\ Sorted(after)
             /\ (\A x \in ToSet(before) \cup {n}, y \in ToSet(after) : x < y) =>
           Sorted(front \o after)
    BY <1>5, <2>1, ConcatFacts
  <2> QED BY <2>2 DEF front
<1>9. ToSet(before) \cup ToSet(after) = ToSet(s)
  <2>1. \A i \in 1 .. Len(s) : i \in 1 .. k \/ i \in k + 1 .. Len(s)
    BY <1>2
  <2>2. 1 .. k \subseteq 1 .. Len(s) /\ k + 1 .. Len(s) \subseteq 1 .. Len(s)
    BY <1>1, <1>2
  <2> QED BY <1>1, <1>4, <1>5, <2>1, <2>2
<1>10. ASSUME Sorted(s), n \notin ToSet(s), \A m \in ToSet(s) : m \in S <=> m < n
       PROVE  Sorted((before \o one) \o after)
  <2>1. ASSUME NEW x \in ToSet(before) PROVE x < n
    <3>1. PICK i \in 1 .. k : x = s[i]
      BY <1>4
    <3>2. x \in S /\ x \in ToSet(s)
      BY <1>2, <1>9, <3>1
    <3> QED BY <1>10, <3>2
  <2>2. ASSUME NEW y \in ToSet(after) PROVE n < y
    <3>1. PICK i \in k + 1 .. Len(s) : y = s[i]
      BY <1>5
    <3>2. k < Len(s) /\ k + 1 \in 1 .. Len(s) /\ s[k + 1] \in ToSet(s) /\ s[k + 1] \notin S
      BY <1>1, <1>2, <3>1
    <3>3. ~(s[k + 1] < n) /\ s[k + 1] # n /\ s[k + 1] \in Int /\ n \in Int
      BY <1>1, <1>10, <3>2 DEF Msdus
    <3>4. s[k + 1] <= y
      BY <1>1, <1>2, <1>10, <3>1, <3>2, SortedFacts
    <3>5. y \in Int
      BY <1>1, <1>2, <3>1
    <3> QED BY <3>3, <3>4, <3>5
  <2>3. \A x \in ToSet(before), y \in ToSet(after) : x < y
    <3>1. \A x \in ToSet(before) : x \in Int
      BY <1>9, <1>1
    <3>2. \A y \in ToSet(after) : y \in Int
      BY <1>9, <1>1
    <3> QED BY <2>1, <2>2, <3>1, <3>2 DEF Msdus
  <2>4. Sorted(before \o one)
    BY <1>4, <1>7, <1>10, <2>1
  <2> QED BY <1>5, <1>8, <1>10, <2>2, <2>3, <2>4
<1>11. ToSet((before \o one) \o after) = ToSet(s) \cup {n}
  BY <1>8, <1>9
<1> QED BY <1>3, <1>8, <1>10, <1>11 DEF k

\* InsertBySn is sorted if the packets are less than half the numbers apart.
LEMMA InsertBySnFacts ==
  ASSUME first \in Numbers, NEW s \in Seq(Msdus), NEW n \in Msdus
  PROVE  /\ InsertBySn(s, n) \in Seq(Msdus)
         /\ ToSet(InsertBySn(s, n)) = ToSet(s) \cup {n}
         /\ Sorted(s) /\ n \notin ToSet(s) /\ (\A m \in ToSet(s) : m - n < Half /\ n - m < Half) =>
              Sorted(InsertBySn(s, n))
<1> DEFINE S == {m \in Msdus : ~IsOld(Sn(m), Sn(n))}
<1>1. InsertBySn(s, n) = InsertAt(s, 1 + Leading(s, S), n)
  BY DEF InsertBySn
<1>2. ASSUME n \notin ToSet(s), NEW m \in ToSet(s), m - n < Half, n - m < Half
      PROVE  m \in S <=> m < n
  <2>1. m \in Msdus /\ m \in Int /\ n \in Int /\ m # n
    BY <1>2, ToSetFacts, Sizes DEF Msdus
  <2>2. IsOld(Sn(m), Sn(n)) <=> n < m
    BY <1>2, <2>1, OldIsLess, Sizes
  <2> QED BY <2>1, <2>2
<1> HIDE DEF S
<1> QED BY <1>1, <1>2, InsertFacts

\* The loop of Selected.
SelectedLoop(s, I, f) ==
  f = [i \in 0 .. Len(s) |-> IF i = 0 THEN <<>>
                             ELSE IF i \in I THEN Append(f[i - 1], s[i]) ELSE f[i - 1]]

LEMMA SelectedIsLoop ==
  ASSUME NEW D, NEW s \in Seq(D), NEW I
  PROVE  \E f : SelectedLoop(s, I, f) /\ Selected(s, I) = f[Len(s)]
<1> DEFINE g == CHOOSE f : f = [i \in 0 .. Len(s) |->
                  IF i = 0 THEN <<>> ELSE IF i \in I THEN Append(f[i - 1], s[i]) ELSE f[i - 1]]
           step == [i \in 1 .. Len(s) |-> [t \in Seq(D) |-> IF i \in I THEN Append(t, s[i]) ELSE t]]
<1>1. Len(s) \in Nat /\ <<>> \in Seq(D) /\ \A i \in 1 .. Len(s) : s[i] \in D
  BY ToSetFacts, ElementOfSeq, EmptySeq
<1>2. step \in [1 .. Len(s) -> [Seq(D) -> Seq(D)]]
  <2>1. \A i \in 1 .. Len(s), t \in Seq(D) : Append(t, s[i]) \in Seq(D)
    BY <1>1
  <2> QED BY <2>1
<1>3. \A i \in 1 .. Len(s), t \in Seq(D) : step[i][t] = IF i \in I THEN Append(t, s[i]) ELSE t
  OBVIOUS
<1> HIDE DEF step
<1>4. PICK f \in [0 .. Len(s) -> Seq(D)] :
        f[0] = <<>> /\ \A i \in 1 .. Len(s) : f[i] = step[i][f[i - 1]]
  <2>1. Loops(Seq(D), <<>>, Len(s), step)
    BY <1>1, <1>2, LoopExists
  <2> QED BY <2>1 DEF Loops
<1>5. ASSUME NEW i \in 0 .. Len(s)
      PROVE  f[i] = IF i = 0 THEN <<>> ELSE IF i \in I THEN Append(f[i - 1], s[i]) ELSE f[i - 1]
  <2>1. CASE i = 0
    BY <1>4, <2>1
  <2>2. CASE i # 0
    <3>1. i \in 1 .. Len(s) /\ f[i - 1] \in Seq(D)
      BY <1>1, <1>4, <2>2
    <3> QED BY <1>3, <1>4, <2>2, <3>1
  <2> QED BY <2>1, <2>2
<1>6. f = [i \in 0 .. Len(s) |-> f[i]]
  BY <1>4
<1>7. f = [i \in 0 .. Len(s) |-> IF i = 0 THEN <<>>
                             ELSE IF i \in I THEN Append(f[i - 1], s[i]) ELSE f[i - 1]]
  BY <1>5, <1>6, Zenon
<1>8. SelectedLoop(s, I, g)
  BY <1>7, Zenon DEF SelectedLoop
<1>9. Selected(s, I) = g[Len(s)]
  BY Zenon DEF Selected
<1> QED BY <1>8, <1>9

\* Selected has the elements at the places I, in their order.
LEMMA SelectedFacts ==
  ASSUME NEW s \in Seq(Msdus), NEW I
  PROVE  /\ Selected(s, I) \in Seq(Msdus)
         /\ \A x : x \in ToSet(Selected(s, I)) <=> \E i \in 1 .. Len(s) : i \in I /\ x = s[i]
         /\ Sorted(s) => Sorted(Selected(s, I))
<1>1. PICK f : SelectedLoop(s, I, f) /\ Selected(s, I) = f[Len(s)]
  BY SelectedIsLoop
<1>2. /\ Len(s) \in Nat /\ DOMAIN s = 1 .. Len(s)
      /\ \A i \in 1 .. Len(s) : s[i] \in Msdus /\ s[i] \in Int
  BY ToSetFacts, ElementOfSeq, Sizes DEF Msdus
<1>3. f[0] = <<>> /\ \A i \in 1 .. Len(s) : f[i] = IF i \in I THEN Append(f[i - 1], s[i]) ELSE f[i - 1]
  <2>1. \A i \in 0 .. Len(s) : f[i] = IF i = 0 THEN <<>>
                                   ELSE IF i \in I THEN Append(f[i - 1], s[i]) ELSE f[i - 1]
    BY <1>1, Zenon DEF SelectedLoop
  <2>2. 0 \in 0 .. Len(s) /\ \A i \in 1 .. Len(s) : i \in 0 .. Len(s) /\ i # 0
    BY <1>2
  <2> QED BY <2>1, <2>2, Zenon
<1> DEFINE Done(j) == /\ f[j] \in Seq(Msdus)
                      /\ \A x : x \in ToSet(f[j]) <=> \E i \in 1 .. j : i \in I /\ x = s[i]
                      /\ Sorted(s) => Sorted(f[j])
           S == {j \in Nat : j <= Len(s) => Done(j)}
<1>4. 0 \in S
  <2>1. <<>> \in Seq(Msdus) /\ ToSet(<<>>) = {} /\ Sorted(<<>>)
    BY EmptySeq DEF ToSet, Sorted
  <2>2. 1 .. 0 = {}
    OBVIOUS
  <2> QED BY <1>3, <2>1, <2>2
<1>5. ASSUME NEW j \in Nat, j \in S PROVE j + 1 \in S
  <2> SUFFICES ASSUME j + 1 <= Len(s) PROVE Done(j + 1)
    OBVIOUS
  <2>1. Done(j) /\ j + 1 \in 1 .. Len(s) /\ j + 1 - 1 = j
    BY <1>2, <1>5
  <2>2. \A i \in 1 .. j + 1 : i \in 1 .. j \/ i = j + 1
    OBVIOUS
  <2>3. CASE j + 1 \notin I
    <3>1. f[j + 1] = f[j]
      BY <1>3, <2>1, <2>3
    <3> QED BY <2>1, <2>2, <2>3, <3>1
  <2>4. CASE j + 1 \in I
    <3>1. f[j + 1] = Append(f[j], s[j + 1]) /\ s[j + 1] \in Msdus
      <4> DEFINE i == j + 1
      <4>1. i \in 1 .. Len(s) /\ i \in I /\ i - 1 = j
        BY <2>1, <2>4
      <4> HIDE DEF i
      <4>2. f[i] = Append(f[i - 1], s[i])
        BY <1>3, <4>1, Zenon
      <4> QED BY <1>2, <4>1, <4>2 DEF i
    <3> DEFINE n == s[j + 1]
               one == <<n>>
    <3> HIDE DEF n
    <3>2. f[j + 1] = f[j] \o one
      BY <2>1, <3>1, AppendIsConcat DEF n
    <3>3. one \in Seq(Msdus) /\ ToSet(one) = {n} /\ Sorted(one)
      <4>1. one \in Seq(Msdus) /\ Len(one) = 1 /\ one[1] = n
        BY <3>1 DEF n
      <4> HIDE DEF one
      <4>2. DOMAIN one = 1 .. 1 /\ \A x : x \in ToSet(one) <=> \E i \in 1 .. 1 : x = one[i]
        BY <4>1, ToSetFacts
      <4> QED BY <4>1, <4>2 DEF Sorted
    <3> HIDE DEF one
    <3>4. /\ f[j + 1] \in Seq(Msdus) /\ ToSet(f[j + 1]) = ToSet(f[j]) \cup {s[j + 1]}
          /\ Sorted(f[j]) /\ (\A x \in ToSet(f[j]) : x < s[j + 1]) => Sorted(f[j + 1])
      BY <2>1, <3>2, <3>3, ConcatFacts DEF n
    <3>5. ASSUME Sorted(s), NEW x \in ToSet(f[j]) PROVE x < s[j + 1]
      <4>1. PICK i \in 1 .. j : x = s[i]
        BY <2>1
      <4> QED BY <1>2, <2>1, <3>5, <4>1 DEF Sorted
    <3>6. ASSUME NEW x PROVE x \in ToSet(f[j + 1]) <=> \E i \in 1 .. j + 1 : i \in I /\ x = s[i]
      BY <2>1, <2>2, <2>4, <3>4
    <3> QED BY <2>1, <3>4, <3>5, <3>6
  <2> QED BY <2>3, <2>4
<1> HIDE DEF S
<1>6. Len(s) \in S
  BY <1>2, <1>4, <1>5, Induction
<1>7. Done(Len(s))
  BY <1>2, <1>6 DEF S
<1> QED BY <1>1, <1>7

\* Without takes out the elements of a set.
LEMMA WithoutFacts ==
  ASSUME NEW s \in Seq(Msdus), NEW S
  PROVE  /\ Without(s, S) \in Seq(Msdus)
         /\ ToSet(Without(s, S)) = ToSet(s) \ S
         /\ Sorted(s) => Sorted(Without(s, S))
<1> DEFINE I == {i \in DOMAIN s : s[i] \notin S}
<1>1. Without(s, S) = Selected(s, I)
  BY DEF Without
<1>2. DOMAIN s = 1 .. Len(s) /\ \A x : x \in ToSet(s) <=> \E i \in 1 .. Len(s) : x = s[i]
  BY ToSetFacts
<1>3. \A i \in 1 .. Len(s) : i \in I <=> s[i] \notin S
  BY <1>2
<1> HIDE DEF I
<1>4. \A x : x \in ToSet(Selected(s, I)) <=> \E i \in 1 .. Len(s) : i \in I /\ x = s[i]
  BY SelectedFacts
<1>5. ToSet(Selected(s, I)) = ToSet(s) \ S
  BY <1>2, <1>3, <1>4
<1> QED BY <1>1, <1>5, SelectedFacts

\* The loop of InsertAll.
InsertAllLoop(s, t, f) ==
  f = [i \in 0 .. Len(t) |-> IF i = 0 THEN s ELSE InsertBySn(f[i - 1], t[i])]

LEMMA InsertAllIsLoop ==
  ASSUME first \in Numbers, NEW s \in Seq(Msdus), NEW t \in Seq(Msdus)
  PROVE  \E f : InsertAllLoop(s, t, f) /\ InsertAll(s, t) = f[Len(t)]
<1> DEFINE g == CHOOSE f : f = [i \in 0 .. Len(t) |-> IF i = 0 THEN s ELSE InsertBySn(f[i - 1], t[i])]
           step == [i \in 1 .. Len(t) |-> [u \in Seq(Msdus) |-> InsertBySn(u, t[i])]]
<1>1. Len(t) \in Nat /\ \A i \in 1 .. Len(t) : t[i] \in Msdus
  BY ToSetFacts, ElementOfSeq
<1>2. step \in [1 .. Len(t) -> [Seq(Msdus) -> Seq(Msdus)]]
  <2>1. \A i \in 1 .. Len(t), u \in Seq(Msdus) : InsertBySn(u, t[i]) \in Seq(Msdus)
    BY <1>1, InsertBySnFacts
  <2> QED BY <2>1
<1>3. \A i \in 1 .. Len(t), u \in Seq(Msdus) : step[i][u] = InsertBySn(u, t[i])
  OBVIOUS
<1> HIDE DEF step
<1>4. PICK f \in [0 .. Len(t) -> Seq(Msdus)] :
        f[0] = s /\ \A i \in 1 .. Len(t) : f[i] = step[i][f[i - 1]]
  <2>1. Loops(Seq(Msdus), s, Len(t), step)
    BY <1>1, <1>2, LoopExists
  <2> QED BY <2>1 DEF Loops
<1>5. ASSUME NEW i \in 0 .. Len(t) PROVE f[i] = IF i = 0 THEN s ELSE InsertBySn(f[i - 1], t[i])
  <2>1. CASE i = 0
    BY <1>4, <2>1
  <2>2. CASE i # 0
    <3>1. i \in 1 .. Len(t) /\ f[i - 1] \in Seq(Msdus)
      BY <1>1, <1>4, <2>2
    <3> QED BY <1>3, <1>4, <2>2, <3>1
  <2> QED BY <2>1, <2>2
<1>6. f = [i \in 0 .. Len(t) |-> f[i]]
  BY <1>4
<1>7. f = [i \in 0 .. Len(t) |-> IF i = 0 THEN s ELSE InsertBySn(f[i - 1], t[i])]
  BY <1>5, <1>6, Zenon
<1>8. InsertAllLoop(s, t, g)
  BY <1>7, Zenon DEF InsertAllLoop
<1>9. InsertAll(s, t) = g[Len(t)]
  BY Zenon DEF InsertAll
<1> QED BY <1>8, <1>9

\* InsertAll merges two sequences of packets that are less than half the numbers apart.
LEMMA InsertAllFacts ==
  ASSUME first \in Numbers, NEW s \in Seq(Msdus), NEW t \in Seq(Msdus)
  PROVE  /\ InsertAll(s, t) \in Seq(Msdus)
         /\ ToSet(InsertAll(s, t)) = ToSet(s) \cup ToSet(t)
         /\ /\ Sorted(s) /\ Sorted(t) /\ ToSet(s) \cap ToSet(t) = {}
            /\ \A m, n \in ToSet(s) \cup ToSet(t) : m - n < Half
            => Sorted(InsertAll(s, t))
<1>1. PICK f : InsertAllLoop(s, t, f) /\ InsertAll(s, t) = f[Len(t)]
  BY InsertAllIsLoop
<1>2. /\ Len(t) \in Nat /\ DOMAIN t = 1 .. Len(t) /\ ToSet(s) \subseteq Msdus
      /\ \A i \in 1 .. Len(t) : t[i] \in Msdus /\ t[i] \in Int
      /\ \A x : x \in ToSet(t) <=> \E i \in 1 .. Len(t) : x = t[i]
  BY ToSetFacts, ElementOfSeq, Sizes DEF Msdus
<1>3. f[0] = s /\ \A i \in 1 .. Len(t) : f[i] = InsertBySn(f[i - 1], t[i])
  <2>1. \A i \in 0 .. Len(t) : f[i] = IF i = 0 THEN s ELSE InsertBySn(f[i - 1], t[i])
    BY <1>1, Zenon DEF InsertAllLoop
  <2>2. 0 \in 0 .. Len(t) /\ \A i \in 1 .. Len(t) : i \in 0 .. Len(t) /\ i # 0
    BY <1>2
  <2> QED BY <2>1, <2>2, Zenon
<1> DEFINE Close == /\ Sorted(s) /\ Sorted(t) /\ ToSet(s) \cap ToSet(t) = {}
                    /\ \A m, n \in ToSet(s) \cup ToSet(t) : m - n < Half
           Done(j) == /\ f[j] \in Seq(Msdus)
                      /\ \A x : x \in ToSet(f[j]) <=> x \in ToSet(s) \/ \E i \in 1 .. j : x = t[i]
                      /\ Close => Sorted(f[j])
           S == {j \in Nat : j <= Len(t) => Done(j)}
<1>4. 0 \in S
  <2>1. 1 .. 0 = {}
    OBVIOUS
  <2> QED BY <1>3, <2>1
<1>5. ASSUME NEW j \in Nat, j \in S PROVE j + 1 \in S
  <2> SUFFICES ASSUME j + 1 <= Len(t) PROVE Done(j + 1)
    OBVIOUS
  <2>1. Done(j) /\ j + 1 \in 1 .. Len(t) /\ j + 1 - 1 = j
    BY <1>2, <1>5
  <2>2. \A i \in 1 .. j + 1 : i \in 1 .. j \/ i = j + 1
    OBVIOUS
  <2>3. f[j + 1] = InsertBySn(f[j], t[j + 1]) /\ t[j + 1] \in Msdus
    BY <1>2, <1>3, <2>1
  <2>4. /\ f[j + 1] \in Seq(Msdus) /\ ToSet(f[j + 1]) = ToSet(f[j]) \cup {t[j + 1]}
        /\ /\ Sorted(f[j]) /\ t[j + 1] \notin ToSet(f[j])
           /\ \A m \in ToSet(f[j]) : m - t[j + 1] < Half /\ t[j + 1] - m < Half
           => Sorted(f[j + 1])
    BY <2>1, <2>3, InsertBySnFacts
  <2>5. ASSUME NEW x PROVE x \in ToSet(f[j + 1]) <=> x \in ToSet(s) \/ \E i \in 1 .. j + 1 : x = t[i]
    BY <2>1, <2>2, <2>4
  <2>6. ASSUME Close PROVE Sorted(f[j + 1])
    <3>1. t[j + 1] \notin ToSet(s) /\ t[j + 1] \in ToSet(t)
      BY <1>2, <2>1, <2>6
    <3>2. ASSUME NEW i \in 1 .. j PROVE t[i] # t[j + 1]
      BY <1>2, <2>1, <2>6 DEF Sorted
    <3>3. t[j + 1] \notin ToSet(f[j])
      BY <2>1, <3>1, <3>2
    <3>4. \A m \in ToSet(f[j]) : m \in ToSet(s) \cup ToSet(t)
      BY <1>2, <2>1
    <3>5. \A m \in ToSet(f[j]) : m - t[j + 1] < Half /\ t[j + 1] - m < Half
      BY <2>6, <3>1, <3>4
    <3> QED BY <2>1, <2>4, <2>6, <3>3, <3>5
  <2> QED BY <2>4, <2>5, <2>6
<1> HIDE DEF S
<1>6. Len(t) \in S
  BY <1>2, <1>4, <1>5, Induction
<1>7. Done(Len(t))
  BY <1>2, <1>6 DEF S
<1>8. ToSet(f[Len(t)]) = ToSet(s) \cup ToSet(t)
  BY <1>2, <1>7
<1> QED BY <1>1, <1>7, <1>8

-----------------------------------------------------------------------------
(* Types *)

Curs == {NoPacket} \cup {Data(n) : n \in Msdus} \cup {Bar(s) : s \in Numbers}
Origs == [next : 1 .. MaxMsdus + 1, start : Numbers, pkts : Seq(Msdus), retry : Seq(Msdus),
          cur : Curs, low : Seq(Msdus)]

Rcpts == [start : Numbers, buffer : Seq(Msdus), wstart : Numbers, bits : SUBSET Numbers,
          up : Seq(Msdus)]

Hists == [acked : SUBSET Msdus, failed : Nat, left : Nat]

\* The operations of the recipient keep its types.
LEMMA UpdateWithMpduTyped ==
  ASSUME NEW rc \in Rcpts, NEW s \in Numbers
  PROVE  UpdateWithMpdu(rc, s) \in Rcpts
<1> DEFINE delta == (s - (rc.wstart + Window - 1)) % SeqSpace
           entered == {((rc.wstart + Window - 1) + i) % SeqSpace : i \in 1 .. delta - 1}
           bits == (rc.bits \ entered) \cup {s}
           wstart == (rc.wstart + delta) % SeqSpace
<1>1. UpdateWithMpdu(rc, s) =
        IF IsOld(rc.wstart, s) THEN rc
        ELSE IF IsInWindow(s, rc.wstart, Window) THEN [rc EXCEPT !.bits = @ \cup {s}]
        ELSE [rc EXCEPT !.bits = bits, !.wstart = wstart]
  BY DEF UpdateWithMpdu
<1>2. s - (rc.wstart + Window - 1) \in Int
  BY Sizes DEF Rcpts, Numbers
<1>3. delta \in Int
  BY <1>2, Sizes, ModSmall
<1> HIDE DEF delta
<1>4. rc.wstart + delta \in Int
  BY <1>3, Sizes DEF Rcpts, Numbers
<1>5. wstart \in Numbers
  BY <1>4, Sizes, ModSmall DEF Numbers
<1>6. bits \in SUBSET Numbers /\ rc.bits \cup {s} \in SUBSET Numbers
  BY DEF Rcpts
<1> HIDE DEF bits, wstart
<1> QED BY <1>1, <1>5, <1>6 DEF Rcpts

LEMMA UpdateWithBlockAckReqTyped ==
  ASSUME NEW rc \in Rcpts, NEW s \in Numbers
  PROVE  UpdateWithBlockAckReq(rc, s) \in Rcpts
BY DEF UpdateWithBlockAckReq, Rcpts

LEMMA StoreMpduIfNeededTyped ==
  ASSUME first \in Numbers, NEW rc \in Rcpts, NEW n \in Msdus
  PROVE  StoreMpduIfNeeded(rc, n) \in Rcpts
<1> DEFINE before == {m \in Msdus : (Sn(m) - rc.start + Half) % SeqSpace
                                      < (Sn(n) - rc.start + Half) % SeqSpace}
           buffer == InsertAt(rc.buffer, 1 + Leading(rc.buffer, before), n)
           u == UpdateWithMpdu(rc, Sn(n))
<1>1. StoreMpduIfNeeded(rc, n) = [u EXCEPT !.buffer = InsertAt(@, 1 + Leading(rc.buffer, before), n)]
  BY DEF StoreMpduIfNeeded
<1>2. u.buffer = rc.buffer
  BY DEF UpdateWithMpdu, Rcpts
<1>3. u \in Rcpts
  BY SnNumber, UpdateWithMpduTyped, Sizes DEF Msdus
<1>4. buffer \in Seq(Msdus)
  <2> HIDE DEF before
  <2>1. rc.buffer \in Seq(Msdus)
    BY DEF Rcpts
  <2> QED BY <2>1, InsertFacts
<1> HIDE DEF before, u
<1>5. [u EXCEPT !.buffer = InsertAt(@, 1 + Leading(rc.buffer, before), n)] = [u EXCEPT !.buffer = buffer]
  BY <1>2, <1>3 DEF Rcpts
<1> HIDE DEF buffer
<1> QED BY <1>1, <1>3, <1>4, <1>5 DEF Rcpts

LEMMA ForwardSmallerTyped ==
  ASSUME NEW rc \in Rcpts
  PROVE  ForwardSmaller(rc) \in Rcpts
<1> DEFINE k == Leading(rc.buffer, {m \in Msdus : IsOld(rc.start, Sn(m))})
           once == {i \in 1 .. k : i = 1 \/ rc.buffer[i] # rc.buffer[i - 1]}
           up == rc.up \o Selected(rc.buffer, once)
           buffer == SubSeq(rc.buffer, k + 1, Len(rc.buffer))
<1>1. ForwardSmaller(rc) = [rc EXCEPT !.up = up, !.buffer = buffer]
  BY DEF ForwardSmaller, Rcpts
<1>2. rc.buffer \in Seq(Msdus) /\ rc.up \in Seq(Msdus)
  BY DEF Rcpts
<1>3. k \in 0 .. Len(rc.buffer) /\ Len(rc.buffer) \in Nat
  BY <1>2, LeadingFacts, ToSetFacts
<1> HIDE DEF k
<1>4. buffer \in Seq(Msdus)
  <2>1. k + 1 \in Nat /\ 1 <= k + 1
    BY <1>3
  <2> QED BY <1>2, <1>3, <2>1, SubSeqFacts
<1>5. up \in Seq(Msdus)
  <2> HIDE DEF once
  <2>1. Selected(rc.buffer, once) \in Seq(Msdus)
    BY <1>2, SelectedFacts
  <2> QED BY <1>2, <2>1, ConcatFacts
<1> HIDE DEF up, buffer
<1> QED BY <1>1, <1>4, <1>5 DEF Rcpts

LEMMA ForwardUntilFirstLostTyped ==
  ASSUME NEW rc \in Rcpts
  PROVE  ForwardUntilFirstLost(rc) \in Rcpts
<1> DEFINE inTurn == {i \in DOMAIN rc.buffer : Sn(rc.buffer[i]) = (rc.start + i - 1) % SeqSpace}
           places == [i \in DOMAIN rc.buffer |-> i]
           k == Leading(places, inTurn)
           up == rc.up \o SubSeq(rc.buffer, 1, k)
           buffer == SubSeq(rc.buffer, k + 1, Len(rc.buffer))
           start == (rc.start + k) % SeqSpace
<1>1. ForwardUntilFirstLost(rc) = [rc EXCEPT !.up = up, !.buffer = buffer, !.start = start]
  BY DEF ForwardUntilFirstLost, Rcpts
<1>2. rc.buffer \in Seq(Msdus) /\ rc.up \in Seq(Msdus)
  BY DEF Rcpts
<1>3. Len(rc.buffer) \in Nat /\ DOMAIN rc.buffer = 1 .. Len(rc.buffer)
  BY <1>2, ToSetFacts
<1>4. places \in Seq(Nat) /\ Len(places) = Len(rc.buffer)
  BY <1>3
<1> HIDE DEF places, inTurn
<1>5. k \in 0 .. Len(rc.buffer)
  BY <1>4, LeadingFacts
<1> HIDE DEF k
<1>6. SubSeq(rc.buffer, 1, k) \in Seq(Msdus)
  BY <1>2, <1>3, <1>5, SubSeqFacts
<1>7. buffer \in Seq(Msdus)
  <2>1. k + 1 \in Nat /\ 1 <= k + 1
    BY <1>5
  <2> QED BY <1>2, <1>3, <2>1, SubSeqFacts
<1>8. up \in Seq(Msdus)
  BY <1>2, <1>6, ConcatFacts
<1>9. start \in Numbers
  <2>1. rc.start + k \in Int
    BY <1>5, Sizes DEF Rcpts, Numbers
  <2> QED BY <2>1, Sizes, ModSmall DEF Numbers
<1> HIDE DEF up, buffer, start
<1> QED BY <1>1, <1>7, <1>8, <1>9 DEF Rcpts

LEMMA ReceiveMpduTyped ==
  ASSUME first \in Numbers, NEW rc \in Rcpts, NEW n \in Msdus
  PROVE  ReceiveMpdu(rc, n) \in Rcpts
<1> DEFINE s == Sn(n)
           stored == StoreMpduIfNeeded(rc, n)
           start == Abs(s - BufferSize + 1) % SeqSpace
           ahead == [stored EXCEPT !.start = start]
<1>1. s \in Numbers /\ stored \in Rcpts
  BY SnNumber, StoreMpduIfNeededTyped, Sizes DEF Msdus
<1>2. Abs(s - BufferSize + 1) \in Int
  BY <1>1, Sizes DEF Abs, Numbers
<1>3. start \in Numbers
  BY <1>2, Sizes, ModSmall DEF Numbers
<1> HIDE DEF s, stored, start
<1>4. ahead \in Rcpts
  BY <1>1, <1>3 DEF Rcpts
<1>5. ReceiveMpdu(rc, n) \in {rc, ForwardUntilFirstLost(stored), ForwardUntilFirstLost(ForwardSmaller(ahead))}
  BY DEF ReceiveMpdu, s, stored, start
<1> HIDE DEF ahead
<1> QED BY <1>1, <1>4, <1>5, ForwardSmallerTyped, ForwardUntilFirstLostTyped

-----------------------------------------------------------------------------
(* Recipient *)

Held(rc) == ToSet(rc.buffer)

\* Passed up, or left behind, or in the buffer.
Has(rc, r, n) == n < r \/ n \in Held(rc)

\* The number is marked as heard, and not since an earlier round of the numbers.
Bit(rc, w, n) == Sn(n) \in rc.bits /\ n < w + Window

NoWrap == first + MaxMsdus < SeqSpace

\* The windows of the cache and of the buffer start at the packets w and r; the packets
\* below next have been sent.
Windows(w, r, next) == w <= r /\ r <= next /\ next - w <= 2 * Window /\ r <= w + Window

\* In its window the cache knows what the recipient has.
Heard(rc, w, r) == \A n \in w .. w + Window - 1 : Sn(n) \in rc.bits <=> Has(rc, r, n)

\* The buffer may start at r: it has still to be passed up.
Stored(rc, w, r, next) ==
  /\ rc.start = Sn(r) /\ rc.wstart = Sn(w) /\ Windows(w, r, next)
  /\ Sorted(rc.buffer) /\ Sorted(rc.up)
  /\ \A n \in ToSet(rc.up) : n < r
  /\ \A n \in Held(rc) : r <= n /\ n < next /\ n < w + Window
  /\ Heard(rc, w, r)
  /\ NoWrap => \A n \in Msdus : Sn(n) \in rc.bits => n < w + Window

Recipient(rc, w, r, next) == Stored(rc, w, r, next) /\ r \notin Held(rc)

\* Everything before r has been passed up.
InTurn(rc, r) == Len(rc.up) = r - 1 /\ \A i \in 1 .. r - 1 : rc.up[i] = i

\* The places of a sorted sequence grow no faster than its elements.
LEMMA SortedGrows ==
  ASSUME NEW s \in Seq(Msdus), Sorted(s), NEW r \in Int, \A x \in ToSet(s) : r <= x
  PROVE  \A i \in 1 .. Len(s) : r + i - 1 <= s[i]
<1>1. /\ Len(s) \in Nat /\ DOMAIN s = 1 .. Len(s)
      /\ \A i \in 1 .. Len(s) : s[i] \in ToSet(s) /\ s[i] \in Int
  BY ToSetFacts, ElementOfSeq, Sizes DEF Msdus
<1> DEFINE N == {i \in 1 .. Len(s) : ~(r + i - 1 <= s[i])}
<1> SUFFICES ASSUME N # {} PROVE FALSE
  OBVIOUS
<1>2. N \in SUBSET Nat
  OBVIOUS
<1> HIDE DEF N
<1>3. PICK m \in N : \A i \in N : m <= i
  BY <1>2, LeastNatural
<1>4. m \in 1 .. Len(s) /\ ~(r + m - 1 <= s[m])
  BY DEF N
<1>5. CASE m = 1
  BY <1>1, <1>4, <1>5
<1>6. CASE m # 1
  <2>1. m - 1 \in 1 .. Len(s) /\ m - 1 \notin N
    BY <1>1, <1>3, <1>4, <1>6
  <2>2. r + (m - 1) - 1 <= s[m - 1]
    BY <2>1 DEF N
  <2>3. m - 1 \in DOMAIN s /\ m \in DOMAIN s /\ m - 1 < m
    BY <1>1, <1>4, <2>1
  <2>4. s[m - 1] < s[m]
    BY <2>3 DEF Sorted
  <2> QED BY <1>1, <1>4, <2>1, <2>2, <2>4
<1> QED BY <1>5, <1>6

\* RxCompleteBufferedPacketsUntilFirstLost passes up what follows r without a gap.
LEMMA ForwardUntilFirstLostFacts ==
  ASSUME first \in Numbers, NEW rc \in Rcpts, NEW next \in 1 .. MaxMsdus + 1,
         NEW w \in 1 .. next, NEW r \in 1 .. next, Stored(rc, w, r, next)
  PROVE  \E r2 \in r .. next :
           LET f == ForwardUntilFirstLost(rc) IN
           /\ Recipient(f, w, r2, next) /\ f.bits = rc.bits
           /\ \A n \in Int : Has(f, r2, n) <=> Has(rc, r, n)
           /\ InTurn(rc, r) => InTurn(f, r2)
<1> DEFINE len == Len(rc.buffer)
           inTurn == {i \in DOMAIN rc.buffer : Sn(rc.buffer[i]) = (rc.start + i - 1) % SeqSpace}
           places == [i \in DOMAIN rc.buffer |-> i]
           k == Leading(places, inTurn)
           now == SubSeq(rc.buffer, 1, k)
           up == rc.up \o now
           buffer == SubSeq(rc.buffer, k + 1, len)
           f == ForwardUntilFirstLost(rc)
           r2 == r + k
<1>1. rc.buffer \in Seq(Msdus) /\ rc.up \in Seq(Msdus) /\ Sorted(rc.buffer) /\ Sorted(rc.up)
  BY DEF Rcpts, Stored
<1>2. /\ len \in Nat /\ DOMAIN rc.buffer = 1 .. len
      /\ \A n : n \in Held(rc) <=> \E i \in 1 .. len : n = rc.buffer[i]
      /\ \A i \in 1 .. len : rc.buffer[i] \in Msdus /\ rc.buffer[i] \in Int
  <2>1. Msdus \subseteq Int
    BY Sizes DEF Msdus
  <2>2. /\ len \in Nat /\ DOMAIN rc.buffer = 1 .. len
        /\ \A n : n \in Held(rc) <=> \E i \in 1 .. len : n = rc.buffer[i]
    BY <1>1, ToSetFacts DEF Held
  <2>3. \A i \in 1 .. len : rc.buffer[i] \in Msdus
    BY <1>1, ElementOfSeq
  <2> QED BY <2>1, <2>2, <2>3
<1>3. \A i \in 1 .. len : r + i - 1 <= rc.buffer[i]
  <2>1. \A x \in ToSet(rc.buffer) : r <= x
    BY DEF Stored, Held
  <2> QED BY <1>1, <2>1, SortedGrows
<1>4. f = [rc EXCEPT !.up = up, !.buffer = buffer, !.start = (rc.start + k) % SeqSpace]
  BY DEF ForwardUntilFirstLost, Rcpts
<1>5. places \in Seq(Nat) /\ Len(places) = len /\ \A i \in 1 .. len : places[i] = i
  BY <1>2
<1>6. ASSUME NEW i \in 1 .. len PROVE i \in inTurn <=> rc.buffer[i] = r + i - 1
  <2>1. r <= rc.buffer[i] /\ rc.buffer[i] < next /\ next - r <= 2 * Window /\ rc.start = Sn(r)
    <3>1. rc.buffer[i] \in Held(rc)
      BY <1>2
    <3>2. next - w <= 2 * Window /\ w <= r
      BY DEF Stored, Windows
    <3>3. next - r <= 2 * Window
      BY <3>2, Sizes
    <3> QED BY <3>1, <3>3 DEF Stored
  <2>2. r + i - 1 <= rc.buffer[i]
    BY <1>3
  <2>3. (Sn(r) + (i - 1)) % SeqSpace = Sn(r + (i - 1))
    BY SnPlus
  <2>4. rc.start + i - 1 = Sn(r) + (i - 1) /\ r + (i - 1) = r + i - 1
    BY <2>1, SnNumber, Sizes DEF Numbers
  <2>5. Sn(rc.buffer[i]) = Sn(r + i - 1) <=> rc.buffer[i] = r + i - 1
    <3>1. rc.buffer[i] \in Int /\ r + i - 1 \in Int
      BY <1>2
    <3>2. rc.buffer[i] - (r + i - 1) < SeqSpace /\ (r + i - 1) - rc.buffer[i] < SeqSpace
      <4>1. rc.buffer[i] \in Int /\ i >= 1 /\ i \in Int
        BY <1>2
      <4> QED BY <2>1, <2>2, <4>1, Sizes
    <3> QED BY <3>1, <3>2, SnDiffers
  <2> QED BY <1>2, <2>3, <2>4, <2>5
<1> HIDE DEF places, inTurn
<1>7. /\ k \in 0 .. len
      /\ \A i \in 1 .. k : rc.buffer[i] = r + i - 1
      /\ k < len => rc.buffer[k + 1] # r + k
  <2>1. /\ k \in 0 .. len
        /\ \A i \in 1 .. k : places[i] \in inTurn
        /\ k < len => places[k + 1] \notin inTurn
    BY <1>5, LeadingFacts
  <2> HIDE DEF k
  <2>2. \A i \in 1 .. k : i \in 1 .. len /\ places[i] = i
    BY <1>5, <2>1
  <2>3. k < len => k + 1 \in 1 .. len /\ places[k + 1] = k + 1 /\ r + (k + 1) - 1 = r + k
    BY <1>2, <1>5, <2>1
  <2> QED BY <1>6, <2>1, <2>2, <2>3
<1> HIDE DEF k, f
<1>8. r2 \in r .. next /\ r2 <= w + Window
  <2>1. CASE k = 0
    BY <2>1 DEF Stored, Windows
  <2>2. CASE k # 0
    <3>1. k \in 1 .. k /\ k \in 1 .. len
      BY <1>7, <2>2
    <3>2. rc.buffer[k] = r + k - 1 /\ rc.buffer[k] \in Held(rc)
      BY <1>2, <1>7, <3>1
    <3>3. rc.buffer[k] < next /\ rc.buffer[k] < w + Window
      BY <3>2 DEF Stored
    <3> QED BY <1>7, <3>2, <3>3, Sizes
  <2> QED BY <2>1, <2>2
<1>9. now \in Seq(Msdus) /\ Len(now) = k /\ Sorted(now) /\ (\A i \in 1 .. k : now[i] = r + i - 1)
      /\ \A n : n \in ToSet(now) <=> \E i \in 1 .. k : n = rc.buffer[i]
  <2>1. /\ now \in Seq(Msdus) /\ Sorted(now)
        /\ Len(now) = IF 1 <= k THEN k - 1 + 1 ELSE 0
        /\ \A i \in 1 .. k - 1 + 1 : now[i] = rc.buffer[1 + i - 1]
        /\ \A n : n \in ToSet(now) <=> \E i \in 1 .. k : n = rc.buffer[i]
    <3>1. k \in Nat /\ k <= Len(rc.buffer) /\ 1 \in Nat /\ 1 <= 1
      BY <1>2, <1>7
    <3> QED BY <1>1, <3>1, SubSeqFacts
  <2>2. \A i \in 1 .. k : now[i] = rc.buffer[i]
    BY <1>7, <2>1
  <2> QED BY <1>7, <2>1, <2>2
<1>10. buffer \in Seq(Msdus) /\ Sorted(buffer)
      /\ \A n : n \in ToSet(buffer) <=> \E i \in k + 1 .. len : n = rc.buffer[i]
  <2>1. k + 1 \in Nat /\ 1 <= k + 1 /\ Len(rc.buffer) \in Nat /\ Len(rc.buffer) <= Len(rc.buffer)
    BY <1>2, <1>7
  <2>2. /\ SubSeq(rc.buffer, k + 1, Len(rc.buffer)) \in Seq(Msdus)
        /\ Sorted(rc.buffer) => Sorted(SubSeq(rc.buffer, k + 1, Len(rc.buffer)))
        /\ \A n : n \in ToSet(SubSeq(rc.buffer, k + 1, Len(rc.buffer))) <=>
                   \E i \in k + 1 .. Len(rc.buffer) : n = rc.buffer[i]
    BY <1>1, <2>1, SubSeqFacts
  <2> QED BY <1>1, <1>2, <2>2
<1>11. ASSUME NEW i \in k + 1 .. len PROVE r2 < rc.buffer[i] /\ rc.buffer[i] \in Held(rc)
  <2>1. k + 1 \in 1 .. len /\ i \in 1 .. len
    BY <1>2, <1>7
  <2>2. r + (k + 1) - 1 <= rc.buffer[k + 1] /\ rc.buffer[k + 1] # r + k
    <3>1. k < len
      BY <1>2, <1>7, <2>1
    <3> QED BY <1>7, <1>3, <2>1, <3>1
  <2>3. rc.buffer[k + 1] <= rc.buffer[i]
    BY <1>1, <2>1, SortedFacts
  <2>4. rc.buffer[k + 1] \in Int /\ rc.buffer[i] \in Int /\ rc.buffer[i] \in Held(rc) /\ k \in Int
    BY <1>2, <1>7, <2>1
  <2>5. r \in Int /\ r + (k + 1) - 1 = r + k
    BY <2>4
  <2> QED BY <2>2, <2>3, <2>4, <2>5
<1>12. ASSUME NEW n \in ToSet(now) PROVE r <= n /\ n < r2
  <2>1. PICK i \in 1 .. k : n = rc.buffer[i]
    BY <1>9
  <2>2. n = r + i - 1 /\ i \in Int /\ 1 <= i /\ i <= k /\ k \in Int
    BY <1>7, <2>1
  <2> QED BY <1>7, <2>2
<1>13. /\ up \in Seq(Msdus) /\ ToSet(up) = ToSet(rc.up) \cup ToSet(now)
       /\ Sorted(rc.up) /\ Sorted(now) /\ (\A m \in ToSet(rc.up), n \in ToSet(now) : m < n) => Sorted(up)
  <2> HIDE DEF now
  <2> QED BY <1>1, <1>9, ConcatFacts
<1>14. Sorted(up) /\ \A n \in ToSet(up) : n < r2
  <2>1. \A n \in ToSet(rc.up) : n < r /\ n \in Int
    BY <1>1, ToSetFacts, Sizes DEF Stored, Msdus
  <2>2. \A n \in ToSet(now) : n \in Int
    BY <1>9, ToSetFacts, Sizes DEF Msdus
  <2> HIDE DEF up, now
  <2> QED BY <1>1, <1>7, <1>9, <1>12, <1>13, <2>1, <2>2
<1>15. (rc.start + k) % SeqSpace = Sn(r2)
  BY <1>7, SnPlus DEF Stored
<1>16. InTurn(rc, r) => Len(up) = r2 - 1 /\ \A i \in 1 .. r2 - 1 : up[i] = i
  <2> SUFFICES ASSUME InTurn(rc, r) PROVE Len(up) = r2 - 1 /\ \A i \in 1 .. r2 - 1 : up[i] = i
    OBVIOUS
  <2> HIDE DEF now
  <2>1. /\ Len(up) = Len(rc.up) + Len(now)
        /\ \A i \in 1 .. Len(rc.up) + Len(now) :
             up[i] = IF i <= Len(rc.up) THEN rc.up[i] ELSE now[i - Len(rc.up)]
    BY <1>1, <1>9, ConcatProperties
  <2>2. Len(rc.up) = r - 1 /\ Len(now) = k
    BY <1>9 DEF InTurn
  <2> HIDE DEF up
  <2>3. ASSUME NEW i \in 1 .. r2 - 1 PROVE up[i] = i
    <3>1. CASE i <= r - 1
      <4>1. i \in 1 .. r - 1 /\ i \in 1 .. Len(rc.up) + Len(now) /\ i <= Len(rc.up)
        BY <1>7, <2>2, <3>1
      <4> QED BY <2>1, <4>1 DEF InTurn
    <3>2. CASE ~(i <= r - 1)
      <4>1. i - (r - 1) \in 1 .. k /\ r + (i - (r - 1)) - 1 = i
        BY <1>7, <3>2
      <4>2. up[i] = now[i - (r - 1)]
        BY <1>7, <2>1, <2>2, <3>2
      <4> QED BY <1>9, <4>1, <4>2
    <3> QED BY <3>1, <3>2
  <2> QED BY <1>7, <2>1, <2>2, <2>3
<1> HIDE DEF up, buffer, now, len
<1>17. f \in Rcpts /\ f.start = Sn(r2) /\ f.wstart = rc.wstart /\ f.bits = rc.bits /\ f.up = up /\ f.buffer = buffer
  <2>1. f \in Rcpts
    BY ForwardUntilFirstLostTyped DEF f
  <2> QED BY <1>4, <1>15, <2>1 DEF Rcpts
<1>18. Held(f) = ToSet(buffer) /\ \A n \in Held(f) : n \in Held(rc) /\ r2 < n
  BY <1>10, <1>11, <1>17 DEF Held
<1>19. ASSUME NEW n \in Int PROVE Has(f, r2, n) <=> Has(rc, r, n)
  <2>1. ASSUME Has(rc, r, n) PROVE Has(f, r2, n)
    <3>1. CASE n < r
      BY <1>7, <3>1 DEF Has
    <3>2. CASE n \in Held(rc)
      <4>1. PICK i \in 1 .. len : n = rc.buffer[i]
        BY <1>2, <3>2
      <4>2. CASE i \in 1 .. k
        BY <1>7, <4>1, <4>2 DEF Has
      <4>3. CASE i \notin 1 .. k
        BY <1>2, <1>7, <1>10, <1>18, <4>1, <4>3 DEF Has
      <4> QED BY <4>2, <4>3
    <3> QED BY <2>1, <3>1, <3>2 DEF Has
  <2>2. ASSUME Has(f, r2, n) PROVE Has(rc, r, n)
    <3>1. CASE n \in Held(f)
      BY <1>18, <3>1 DEF Has
    <3>2. CASE r <= n /\ n < r2
      <4>1. n - r + 1 \in 1 .. k /\ r + (n - r + 1) - 1 = n
        BY <1>7, <3>2
      <4>2. rc.buffer[n - r + 1] = n /\ n - r + 1 \in 1 .. len
        BY <1>2, <1>7, <4>1
      <4> QED BY <1>2, <4>2 DEF Has
    <3>3. CASE n < r
      BY <3>3 DEF Has
    <3> QED BY <2>2, <3>1, <3>2, <3>3 DEF Has
  <2> QED BY <2>1, <2>2
<1>20. Stored(f, w, r2, next)
  <2>1. Windows(w, r2, next)
    BY <1>8 DEF Stored, Windows
  <2>2. ASSUME NEW n \in Held(f) PROVE r2 <= n /\ n < next /\ n < w + Window
    <3>1. n \in Held(rc) /\ r2 < n
      BY <1>18
    <3>2. n < next /\ n < w + Window /\ n \in Int
      BY <1>2, <3>1 DEF Stored
    <3> QED BY <1>8, <3>1, <3>2
  <2>3. Sorted(f.buffer) /\ Sorted(f.up) /\ \A n \in ToSet(f.up) : n < r2
    BY <1>10, <1>14, <1>17
  <2>4. Heard(f, w, r2)
    <3>1. \A n \in w .. w + Window - 1 : n \in Int
      OBVIOUS
    <3> QED BY <1>17, <1>19, <3>1 DEF Stored, Heard
  <2> HIDE DEF r2
  <2> QED BY <1>17, <2>1, <2>2, <2>3, <2>4 DEF Stored
<1>21. Recipient(f, w, r2, next)
  <2>1. r2 \notin Held(f)
    BY <1>8, <1>18
  <2> QED BY <1>20, <2>1 DEF Recipient
<1>22. InTurn(rc, r) => InTurn(f, r2)
  BY <1>16, <1>17 DEF InTurn
<1> HIDE DEF r2
<1> QED BY <1>8, <1>17, <1>19, <1>21, <1>22 DEF f

\* The distance to a number that is not reduced.
LEMMA SnOffset ==
  ASSUME first \in Numbers, NEW n \in Int, NEW m \in Int, NEW k \in Int, 0 <= n - m - k, n - m - k < SeqSpace
  PROVE  (Sn(n) - (Sn(m) + k)) % SeqSpace = n - m - k
<1> DEFINE x == Sn(n) - Sn(m)
           y == n - m
           j == -k
<1>1. x \in Int /\ y \in Int /\ j \in Int
  BY SnNumber, Sizes DEF Numbers
<1>2. x % SeqSpace = y % SeqSpace
  BY SnMinus
<1>3. Sn(n) - (Sn(m) + k) = x + j /\ n - m - k = y + j
  BY SnNumber, Sizes DEF Numbers
<1> HIDE DEF x, y, j
<1>4. ((x % SeqSpace) + j) % SeqSpace = (x + j) % SeqSpace
  BY <1>1, Sizes, ModPlus
<1>5. ((y % SeqSpace) + j) % SeqSpace = (y + j) % SeqSpace
  BY <1>1, Sizes, ModPlus
<1>6. (y + j) % SeqSpace = y + j
  <2> DEFINE z == y + j
  <2>1. z \in Int /\ 0 <= z /\ z < SeqSpace
    BY <1>1, <1>3
  <2> HIDE DEF z
  <2>2. z % SeqSpace = z
    BY <2>1, Sizes, ModSmall
  <2> QED BY <2>2 DEF z
<1> QED BY <1>2, <1>3, <1>4, <1>5, <1>6

\* Where the window of the cache starts after the packet n.
StartAfter(w, n) == IF n < w + Window THEN w ELSE n - Window + 1

\* UpdateWithMpdu marks the packet and forgets the numbers that come into the window.
LEMMA UpdateWithMpduFacts ==
  ASSUME first \in Numbers, NEW rc \in Rcpts, NEW w \in Nat, NEW n \in Nat,
         rc.wstart = Sn(w), w <= n, n < w + 2 * Window
  PROVE  LET u == UpdateWithMpdu(rc, Sn(n))
             w2 == StartAfter(w, n)
         IN /\ u.start = rc.start /\ u.buffer = rc.buffer /\ u.up = rc.up
            /\ u.wstart = Sn(w2) /\ u.bits \subseteq rc.bits \cup {Sn(n)}
            /\ \A m \in Int : n - m < Half /\ m < w2 + Window =>
                 (Bit(u, w2, m) <=> Bit(rc, w, m) \/ m = n)
<1> DEFINE u == UpdateWithMpdu(rc, Sn(n))
           w2 == StartAfter(w, n)
           delta == (Sn(n) - (rc.wstart + Window - 1)) % SeqSpace
           entered == {((rc.wstart + Window - 1) + i) % SeqSpace : i \in 1 .. delta - 1}
<1>1. u = IF IsOld(rc.wstart, Sn(n)) THEN rc
          ELSE IF IsInWindow(Sn(n), rc.wstart, Window) THEN [rc EXCEPT !.bits = @ \cup {Sn(n)}]
          ELSE [rc EXCEPT !.bits = (@ \ entered) \cup {Sn(n)}, !.wstart = (@ + delta) % SeqSpace]
  BY DEF UpdateWithMpdu
<1>2. ~IsOld(rc.wstart, Sn(n))
  BY OldIsLess, Sizes
<1>3. IsInWindow(Sn(n), rc.wstart, Window) <=> n < w + Window
  <2>1. n - w < SeqSpace /\ w - n <= SeqSpace - Window
    BY Sizes
  <2> QED BY <2>1, InWindowIsBetween, Sizes
<1>4. \A m \in Int : n - m < Half /\ m - n < Half => (Sn(m) = Sn(n) <=> m = n)
  BY SnDiffers, Sizes
<1>5. CASE n < w + Window
  <2>1. u = [rc EXCEPT !.bits = @ \cup {Sn(n)}] /\ w2 = w
    BY <1>1, <1>2, <1>3, <1>5 DEF StartAfter
  <2> HIDE DEF u, w2
  <2>2. /\ u.start = rc.start /\ u.buffer = rc.buffer /\ u.up = rc.up
        /\ u.wstart = rc.wstart /\ u.bits = rc.bits \cup {Sn(n)}
    BY <2>1 DEF Rcpts
  <2>3. ASSUME NEW m \in Int, n - m < Half, m < w2 + Window
        PROVE  Bit(u, w2, m) <=> Bit(rc, w, m) \/ m = n
    <3>1. m - n < Half
      BY <2>1, <2>3, Sizes
    <3>2. Sn(m) = Sn(n) <=> m = n
      BY <1>4, <2>3, <3>1
    <3> QED BY <1>5, <2>1, <2>2, <2>3, <3>2 DEF Bit
  <2> QED BY <2>1, <2>2, <2>3 DEF u, w2
<1>6. CASE ~(n < w + Window)
  <2>1. /\ u = [rc EXCEPT !.bits = (@ \ entered) \cup {Sn(n)}, !.wstart = (@ + delta) % SeqSpace]
        /\ w2 = n - Window + 1
    BY <1>1, <1>2, <1>3, <1>6 DEF StartAfter
  <2>2. delta = n - w - Window + 1
    <3> DEFINE k == Window - 1
    <3>1. k \in Int /\ 0 <= n - w - k /\ n - w - k < SeqSpace /\ n - w - k = n - w - Window + 1
      BY <1>6, Sizes
    <3>2. rc.wstart + Window - 1 = Sn(w) + k
      BY SnNumber, Sizes DEF Numbers
    <3> HIDE DEF k
    <3>3. (Sn(n) - (Sn(w) + k)) % SeqSpace = n - w - k
      BY <3>1, SnOffset
    <3> QED BY <3>1, <3>2, <3>3
  <2>3. \A j \in Int : ((rc.wstart + Window - 1) + j) % SeqSpace = Sn(w + Window - 1 + j)
    <3> SUFFICES ASSUME NEW j \in Int
                 PROVE  ((rc.wstart + Window - 1) + j) % SeqSpace = Sn(w + Window - 1 + j)
      OBVIOUS
    <3> DEFINE k == Window - 1 + j
    <3>1. k \in Int /\ (rc.wstart + Window - 1) + j = Sn(w) + k /\ w + Window - 1 + j = w + k
      BY SnNumber, Sizes DEF Numbers
    <3> HIDE DEF k
    <3>2. (Sn(w) + k) % SeqSpace = Sn(w + k)
      BY <3>1, SnPlus
    <3> QED BY <3>1, <3>2
  <2>4. (rc.wstart + delta) % SeqSpace = Sn(w2)
    <3>1. delta \in Int /\ w + delta = w2
      BY <2>1, <2>2, Sizes
    <3> HIDE DEF delta, w2
    <3> QED BY <3>1, SnPlus
  <2>5. \A y : y \in entered <=> \E i \in w + Window .. n - 1 : y = Sn(i)
    <3>1. ASSUME NEW i \in 1 .. delta - 1 PROVE w + Window - 1 + i \in w + Window .. n - 1
      BY <2>2, Sizes
    <3>2. ASSUME NEW i \in w + Window .. n - 1
          PROVE  /\ i - (w + Window - 1) \in 1 .. delta - 1
                 /\ w + Window - 1 + (i - (w + Window - 1)) = i
      BY <2>2, Sizes
    <3> HIDE DEF delta
    <3>3. ASSUME NEW y \in entered PROVE \E i \in w + Window .. n - 1 : y = Sn(i)
      <4>1. PICK i \in 1 .. delta - 1 : y = ((rc.wstart + Window - 1) + i) % SeqSpace
        OBVIOUS
      <4>2. y = Sn(w + Window - 1 + i)
        BY <2>3, <4>1
      <4> QED BY <3>1, <4>2
    <3>4. ASSUME NEW i \in w + Window .. n - 1 PROVE Sn(i) \in entered
      <4> DEFINE j == i - (w + Window - 1)
      <4>1. j \in 1 .. delta - 1 /\ j \in Int /\ w + Window - 1 + j = i
        BY <3>2
      <4> HIDE DEF j
      <4>2. ((rc.wstart + Window - 1) + j) % SeqSpace = Sn(i)
        BY <2>3, <4>1
      <4> QED BY <4>1, <4>2
    <3> HIDE DEF entered
    <3> QED BY <3>3, <3>4
  <2> HIDE DEF entered, delta, u
  <2>6. /\ u.start = rc.start /\ u.buffer = rc.buffer /\ u.up = rc.up
        /\ u.wstart = Sn(w2) /\ u.bits = (rc.bits \ entered) \cup {Sn(n)}
    BY <2>1, <2>4 DEF Rcpts
  <2>7. ASSUME NEW m \in Int, n - m < Half, m < w2 + Window
        PROVE  Bit(u, w2, m) <=> Bit(rc, w, m) \/ m = n
    <3>1. m <= n /\ m - n < Half
      BY <2>1, <2>7, Sizes
    <3>2. Sn(m) = Sn(n) <=> m = n
      BY <1>4, <2>7, <3>1
    <3>3. CASE m < w + Window
      <4>1. Sn(m) \notin entered
        <5>1. ASSUME NEW i \in w + Window .. n - 1 PROVE Sn(i) # Sn(m)
          <6>1. i - m < SeqSpace /\ m - i < SeqSpace /\ i # m /\ i \in Int
            BY <2>7, <3>3, Sizes
          <6> QED BY <6>1, SnDiffers
        <5> QED BY <2>5, <5>1
      <4> QED BY <2>6, <2>7, <3>2, <3>3, <4>1 DEF Bit
    <3>4. CASE ~(m < w + Window) /\ m # n
      <4>1. m \in w + Window .. n - 1
        BY <3>1, <3>4, Sizes
      <4>2. Sn(m) \in entered
        BY <2>5, <4>1
      <4> QED BY <2>6, <3>2, <3>4, <4>2 DEF Bit
    <3>5. CASE m = n
      BY <2>6, <2>7, <3>5 DEF Bit
    <3> QED BY <3>3, <3>4, <3>5
  <2> HIDE DEF w2
  <2> QED BY <2>6, <2>7 DEF u, w2
<1> QED BY <1>5, <1>6

\* The window of the cache after the packet n, and those of a new packet in general.
LEMMA StartAfterFacts ==
  ASSUME NEW w \in Nat, NEW r \in Nat, NEW next \in Nat, NEW n \in Nat,
         Windows(w, r, next), r <= n, n < next, n < r + Window
  PROVE  /\ StartAfter(w, n) \in w .. next /\ Windows(StartAfter(w, n), r, next)
         /\ n < StartAfter(w, n) + Window /\ w <= n /\ n < w + 2 * Window
BY Sizes DEF StartAfter, Windows

\* StoreMpduIfNeeded puts a packet that is not there in its place.
LEMMA StoreMpduIfNeededFacts ==
  ASSUME first \in Numbers, NEW rc \in Rcpts, NEW next \in 1 .. MaxMsdus + 1,
         NEW w \in 1 .. next, NEW r \in 1 .. next, Stored(rc, w, r, next),
         NEW n \in Msdus, r <= n, n < next, n < r + Window, n \notin Held(rc)
  PROVE  LET u == StoreMpduIfNeeded(rc, n)
             w2 == StartAfter(w, n)
         IN /\ Stored(u, w2, r, next)
            /\ \A m \in Int : n - m < Half /\ m < w2 + Window =>
                 (Bit(u, w2, m) <=> Bit(rc, w, m) \/ m = n)
            /\ \A m \in Int : Has(u, r, m) <=> Has(rc, r, m) \/ m = n
            /\ InTurn(rc, r) => InTurn(u, r)
<1> DEFINE before == {m \in Msdus : (Sn(m) - rc.start + Half) % SeqSpace
                                      < (Sn(n) - rc.start + Half) % SeqSpace}
           buffer == InsertAt(rc.buffer, 1 + Leading(rc.buffer, before), n)
           x == UpdateWithMpdu(rc, Sn(n))
           u == StoreMpduIfNeeded(rc, n)
           w2 == StartAfter(w, n)
<1>1. /\ w \in Nat /\ r \in Nat /\ next \in Nat /\ n \in Nat /\ Msdus \subseteq Int
      /\ Windows(w, r, next) /\ rc.wstart = Sn(w) /\ rc.start = Sn(r)
  BY Sizes DEF Stored, Msdus
<1>2. /\ w2 \in w .. next /\ Windows(w2, r, next)
      /\ n < w2 + Window /\ w <= n /\ n < w + 2 * Window
  BY <1>1, StartAfterFacts
<1>3. /\ x.start = rc.start /\ x.buffer = rc.buffer /\ x.up = rc.up
      /\ x.wstart = Sn(w2) /\ x.bits \subseteq rc.bits \cup {Sn(n)}
      /\ \A m \in Int : n - m < Half /\ m < w2 + Window =>
           (Bit(x, w2, m) <=> Bit(rc, w, m) \/ m = n)
  BY <1>1, <1>2, UpdateWithMpduFacts
<1>4. x \in Rcpts
  BY SnNumber, UpdateWithMpduTyped, Sizes DEF Msdus
<1>5. u = [x EXCEPT !.buffer = buffer]
  <2>1. u = [x EXCEPT !.buffer = InsertAt(@, 1 + Leading(rc.buffer, before), n)]
    BY DEF StoreMpduIfNeeded
  <2> HIDE DEF x, before, u
  <2> QED BY <1>3, <1>4, <2>1 DEF Rcpts
<1>6. ASSUME NEW m \in Int, r <= m, m < next PROVE (Sn(m) - rc.start + Half) % SeqSpace = m - r + Half
  <2> DEFINE d == Sn(m) - Sn(r)
             e == m - r
  <2>1. /\ m - r < SeqSpace /\ r - m <= SeqSpace /\ e \in Int /\ d \in Int
        /\ 0 <= e + Half /\ e + Half < SeqSpace
    BY <1>1, <1>6, SnNumber, Sizes DEF Windows, Numbers
  <2>2. d % SeqSpace = e
    BY <1>1, <1>6, <2>1, SnDistance
  <2> HIDE DEF d, e
  <2>3. ((d % SeqSpace) + Half) % SeqSpace = (d + Half) % SeqSpace
    <3>1. SeqSpace \in Nat \ {0} /\ d \in Int /\ Half \in Int
      BY <2>1, Sizes
    <3> QED BY <3>1, ModPlus
  <2> DEFINE z == e + Half
  <2>4. z \in Int /\ 0 <= z /\ z < SeqSpace
    BY <2>1, Sizes
  <2> HIDE DEF z
  <2>5. z % SeqSpace = z
    BY <2>4, Sizes, ModSmall
  <2>6. (d + Half) % SeqSpace = e + Half
    BY <2>2, <2>3, <2>5 DEF z
  <2> QED BY <1>1, <2>6 DEF d, e
<1>7. rc.buffer \in Seq(Msdus) /\ Sorted(rc.buffer) /\ n \notin ToSet(rc.buffer)
  BY DEF Rcpts, Stored, Held
<1>8. ASSUME NEW m \in Held(rc) PROVE m \in Msdus /\ m \in Int /\ r <= m /\ m < next /\ m < w + Window
  BY <1>1, <1>7, <1>8, ToSetFacts DEF Stored, Held
<1>9. ASSUME NEW m \in ToSet(rc.buffer) PROVE m \in before <=> m < n
  <2>1. m \in Msdus /\ m \in Int /\ r <= m /\ m < next
    BY <1>8 DEF Held
  <2>2. n \in Int /\ (Sn(n) - rc.start + Half) % SeqSpace = n - r + Half
    BY <1>1, <1>6
  <2>3. (Sn(m) - rc.start + Half) % SeqSpace = m - r + Half
    BY <1>6, <2>1
  <2>4. m - r + Half < n - r + Half <=> m < n
    BY <1>1, <2>1, Sizes
  <2> QED BY <2>1, <2>2, <2>3, <2>4
<1> HIDE DEF before
<1>10. buffer \in Seq(Msdus) /\ ToSet(buffer) = ToSet(rc.buffer) \cup {n} /\ Sorted(buffer)
  BY <1>7, <1>9, InsertFacts
<1> HIDE DEF buffer, x, u, w2
<1>11. /\ u.start = Sn(r) /\ u.wstart = Sn(w2) /\ u.bits = x.bits /\ u.up = rc.up
       /\ Held(u) = Held(rc) \cup {n} /\ Sorted(u.buffer)
  BY <1>1, <1>3, <1>4, <1>5, <1>10 DEF Rcpts, Held
<1>12. \A m \in Int : n - m < Half /\ m < w2 + Window =>
         (Bit(u, w2, m) <=> Bit(rc, w, m) \/ m = n)
  BY <1>3, <1>11 DEF Bit
<1>13. \A m \in Int : Has(u, r, m) <=> Has(rc, r, m) \/ m = n
  BY <1>11 DEF Has
<1>14. ASSUME NEW m \in w2 .. w2 + Window - 1 PROVE Sn(m) \in u.bits <=> Has(u, r, m)
  <2>1. m \in Int /\ w <= m /\ n - m < Half /\ m < w2 + Window
    BY <1>1, <1>2, <1>14, Sizes
  <2>2. Sn(m) \in u.bits <=> Bit(rc, w, m) \/ m = n
    BY <1>12, <2>1 DEF Bit
  <2>3. Bit(rc, w, m) <=> Has(rc, r, m)
    <3>1. CASE m < w + Window
      <4>1. m \in w .. w + Window - 1
        BY <1>1, <2>1, <3>1, Sizes
      <4> QED BY <3>1, <4>1 DEF Stored, Heard, Bit
    <3>2. CASE ~(m < w + Window)
      <4>1. ~(m < r)
        BY <1>1, <2>1, <3>2, Sizes DEF Windows
      <4> QED BY <1>8, <3>2, <4>1 DEF Has, Bit
    <3> QED BY <3>1, <3>2
  <2> QED BY <1>13, <2>1, <2>2, <2>3
<1>15. ASSUME NoWrap, NEW m \in Msdus, Sn(m) \in u.bits PROVE m < w2 + Window
  <2>1. CASE Sn(m) \in rc.bits
    <3>1. m < w + Window
      BY <1>15, <2>1 DEF Stored
    <3> QED BY <1>1, <1>2, <3>1, Sizes
  <2>2. CASE Sn(m) = Sn(n)
    <3>1. m - n < SeqSpace /\ n - m < SeqSpace /\ m \in Int
      BY <1>15, Sizes DEF NoWrap, Numbers, Msdus
    <3>2. m = n
      BY <1>1, <2>2, <3>1, SnDiffers
    <3> QED BY <1>2, <3>2
  <2> QED BY <1>3, <1>11, <1>15, <2>1, <2>2
<1>16. ASSUME NEW m \in Held(u) PROVE r <= m /\ m < next /\ m < w2 + Window
  <2>1. CASE m = n
    BY <1>2, <2>1
  <2>2. CASE m \in Held(rc)
    BY <1>1, <1>2, <1>8, <2>2, Sizes
  <2> QED BY <1>11, <1>16, <2>1, <2>2
<1>17. Stored(u, w2, r, next)
  BY <1>2, <1>11, <1>14, <1>15, <1>16 DEF Stored, Heard
<1>18. InTurn(rc, r) => InTurn(u, r)
  BY <1>11 DEF InTurn
<1> QED BY <1>12, <1>13, <1>17, <1>18 DEF u, w2

\* RxCompleteBufferedPacketsWithSmallerSequence passes up what is before the start x.
LEMMA ForwardSmallerFacts ==
  ASSUME first \in Numbers, NEW rc \in Rcpts, NEW next \in 1 .. MaxMsdus + 1,
         NEW r \in 1 .. next, NEW x \in r .. next, rc.start = Sn(x), next - r <= 2 * Window,
         Sorted(rc.buffer), Sorted(rc.up), \A n \in ToSet(rc.up) : n < r,
         \A n \in Held(rc) : r <= n /\ n < next
  PROVE  LET g == ForwardSmaller(rc)
         IN /\ g.start = rc.start /\ g.wstart = rc.wstart /\ g.bits = rc.bits
            /\ Sorted(g.buffer) /\ Sorted(g.up)
            /\ \A n \in ToSet(g.up) : n < x
            /\ \A n : n \in Held(g) <=> n \in Held(rc) /\ x <= n
            /\ (\A n \in Held(rc) : x <= n) => g.up = rc.up
<1> DEFINE len == Len(rc.buffer)
           old == {m \in Msdus : IsOld(rc.start, Sn(m))}
           k == Leading(rc.buffer, old)
           once == {i \in 1 .. k : i = 1 \/ rc.buffer[i] # rc.buffer[i - 1]}
           now == Selected(rc.buffer, once)
           up == rc.up \o now
           buffer == SubSeq(rc.buffer, k + 1, len)
           g == ForwardSmaller(rc)
<1>1. rc.buffer \in Seq(Msdus) /\ rc.up \in Seq(Msdus) /\ Msdus \subseteq Int
  BY Sizes DEF Rcpts, Msdus
<1>2. /\ len \in Nat /\ DOMAIN rc.buffer = 1 .. len
      /\ \A n : n \in Held(rc) <=> \E i \in 1 .. len : n = rc.buffer[i]
      /\ \A i \in 1 .. len : rc.buffer[i] \in Msdus /\ rc.buffer[i] \in Int
  <2>1. /\ len \in Nat /\ DOMAIN rc.buffer = 1 .. len
        /\ \A n : n \in Held(rc) <=> \E i \in 1 .. len : n = rc.buffer[i]
    BY <1>1, ToSetFacts DEF Held
  <2>2. \A i \in 1 .. len : rc.buffer[i] \in Msdus
    BY <1>1, ElementOfSeq
  <2> QED BY <1>1, <2>1, <2>2
<1>3. g = [rc EXCEPT !.up = up, !.buffer = buffer]
  BY DEF ForwardSmaller, Rcpts
<1>4. ASSUME NEW i \in 1 .. len PROVE rc.buffer[i] \in old <=> rc.buffer[i] < x
  <2>1. rc.buffer[i] \in Held(rc)
    BY <1>2
  <2>2. r <= rc.buffer[i] /\ rc.buffer[i] < next /\ rc.buffer[i] \in Int
    BY <1>2, <2>1
  <2>3. rc.buffer[i] - x < Half /\ x - rc.buffer[i] <= Half
    BY <2>2, Sizes
  <2> QED BY <1>2, <2>2, <2>3, OldIsLess
<1> HIDE DEF old
<1>5. /\ k \in 0 .. len
      /\ \A i \in 1 .. k : rc.buffer[i] \in old
      /\ k < len => rc.buffer[k + 1] \notin old
  BY <1>1, LeadingFacts
<1> HIDE DEF k
<1>6. ASSUME NEW i \in 1 .. len PROVE i <= k <=> rc.buffer[i] < x
  <2>1. CASE i <= k
    BY <1>4, <1>5, <2>1
  <2>2. CASE ~(i <= k)
    <3>1. k + 1 \in 1 .. len /\ k < len /\ k + 1 <= i
      BY <1>2, <1>5, <2>2
    <3>2. ~(rc.buffer[k + 1] < x)
      BY <1>4, <1>5, <3>1
    <3>3. rc.buffer[k + 1] <= rc.buffer[i]
      BY <1>1, <3>1, SortedFacts
    <3>4. rc.buffer[k + 1] \in Int /\ rc.buffer[i] \in Int
      BY <1>2, <3>1
    <3> QED BY <2>2, <3>2, <3>3, <3>4
  <2> QED BY <2>1, <2>2
<1>7. /\ now \in Seq(Msdus) /\ Sorted(now)
      /\ \A n : n \in ToSet(now) <=> \E i \in 1 .. len : i \in once /\ n = rc.buffer[i]
  <2> HIDE DEF once
  <2> QED BY <1>1, SelectedFacts
<1>8. ASSUME NEW n \in ToSet(now) PROVE n \in Held(rc) /\ n < x
  <2>1. PICK i \in 1 .. len : i \in once /\ n = rc.buffer[i]
    BY <1>7
  <2>2. i <= k
    BY <1>5, <2>1
  <2> QED BY <1>2, <1>6, <2>1, <2>2
<1>9. buffer \in Seq(Msdus) /\ Sorted(buffer)
      /\ \A n : n \in ToSet(buffer) <=> \E i \in k + 1 .. len : n = rc.buffer[i]
  <2> DEFINE m == k + 1
  <2>1. m \in Nat /\ 1 <= m /\ len \in Nat /\ len <= Len(rc.buffer)
    BY <1>2, <1>5
  <2> HIDE DEF m
  <2>2. /\ SubSeq(rc.buffer, m, len) \in Seq(Msdus) /\ Sorted(SubSeq(rc.buffer, m, len))
        /\ \A n : n \in ToSet(SubSeq(rc.buffer, m, len)) <=> \E i \in m .. len : n = rc.buffer[i]
    BY <1>1, <2>1, SubSeqFacts
  <2> QED BY <2>2 DEF m
<1> HIDE DEF once, now
<1>10. /\ up \in Seq(Msdus) /\ ToSet(up) = ToSet(rc.up) \cup ToSet(now)
       /\ Sorted(rc.up) /\ Sorted(now) /\ (\A m \in ToSet(rc.up), n \in ToSet(now) : m < n) => Sorted(up)
  BY <1>1, <1>7, ConcatFacts
<1>11. Sorted(up) /\ \A n \in ToSet(up) : n < x
  <2>1. \A n \in ToSet(rc.up) : n < r /\ n \in Int
    BY <1>1, ToSetFacts
  <2>2. \A n \in ToSet(now) : n \in Int /\ r <= n
    BY <1>1, <1>7, <1>8, ToSetFacts
  <2> HIDE DEF up
  <2> QED BY <1>7, <1>8, <1>10, <2>1, <2>2
<1>12. ASSUME NEW n PROVE n \in ToSet(buffer) <=> n \in Held(rc) /\ x <= n
  <2>1. ASSUME NEW i \in 1 .. len PROVE i \in k + 1 .. len <=> x <= rc.buffer[i]
    BY <1>2, <1>5, <1>6
  <2>2. \A i \in k + 1 .. len : i \in 1 .. len
    BY <1>5
  <2> HIDE DEF buffer
  <2> QED BY <1>2, <1>9, <2>1, <2>2
<1>13. (\A n \in Held(rc) : x <= n) => up = rc.up
  <2> SUFFICES ASSUME \A n \in Held(rc) : x <= n PROVE up = rc.up
    OBVIOUS
  <2>1. ToSet(now) = {}
    <3> SUFFICES ASSUME NEW n \in ToSet(now) PROVE FALSE
      OBVIOUS
    <3>1. n \in Int /\ n < x /\ x <= n
      BY <1>1, <1>7, <1>8, ToSetFacts
    <3> QED BY <3>1
  <2>2. now = <<>>
    BY <1>7, <2>1, ToSetFacts
  <2> QED BY <1>1, <2>2, ConcatEmptySeq
<1> HIDE DEF up, buffer, len
<1>14. g \in Rcpts
  BY ForwardSmallerTyped
<1> HIDE DEF g
<1>15. /\ g.start = rc.start /\ g.wstart = rc.wstart /\ g.bits = rc.bits
       /\ g.up = up /\ g.buffer = buffer
  BY <1>3, <1>14 DEF Rcpts
<1> QED BY <1>9, <1>11, <1>12, <1>13, <1>15 DEF g, Held

\* With nothing before the start of its window the recipient stays as it is.
LEMMA ForwardAgainFacts ==
  ASSUME first \in Numbers, NEW rc \in Rcpts, NEW next \in 1 .. MaxMsdus + 1,
         NEW w \in 1 .. next, NEW r \in 1 .. next, Stored(rc, w, r, next)
  PROVE  LET g == ForwardSmaller(rc)
         IN /\ g \in Rcpts /\ Stored(g, w, r, next) /\ g.bits = rc.bits
            /\ \A n : Has(g, r, n) <=> Has(rc, r, n)
            /\ InTurn(rc, r) => InTurn(g, r)
<1> DEFINE g == ForwardSmaller(rc)
<1>1. /\ r \in r .. next /\ rc.start = Sn(r) /\ next - r <= 2 * Window
      /\ Sorted(rc.buffer) /\ Sorted(rc.up) /\ (\A n \in ToSet(rc.up) : n < r)
      /\ \A n \in Held(rc) : r <= n /\ n < next
  BY Sizes DEF Stored, Windows
<1>2. /\ g.start = rc.start /\ g.wstart = rc.wstart /\ g.bits = rc.bits
      /\ Sorted(g.buffer) /\ Sorted(g.up)
      /\ \A n \in ToSet(g.up) : n < r
      /\ \A n : n \in Held(g) <=> n \in Held(rc) /\ r <= n
      /\ (\A n \in Held(rc) : r <= n) => g.up = rc.up
  BY <1>1, ForwardSmallerFacts
<1>3. g.up = rc.up /\ Held(g) = Held(rc)
  BY <1>1, <1>2
<1>4. g \in Rcpts
  BY ForwardSmallerTyped
<1> HIDE DEF g
<1>5. \A n : Has(g, r, n) <=> Has(rc, r, n)
  BY <1>3 DEF Has
<1>6. Stored(g, w, r, next)
  BY <1>2, <1>3, <1>5 DEF Stored, Heard
<1> QED BY <1>2, <1>3, <1>4, <1>5, <1>6 DEF InTurn, g

\* What a reception of the packet n does, or of none.
Gets(rc, w, r, rc2, w2, r2, next, n) ==
  /\ w2 \in w .. next /\ r2 \in r .. next /\ (w2 = w \/ w2 = n - Window + 1)
  /\ rc2 \in Rcpts /\ Recipient(rc2, w2, r2, next)
  /\ \A m \in Int : Has(rc2, r2, m) <=> Has(rc, r, m) \/ m = n
  /\ \A m \in Int : next - m <= Window /\ Bit(rc2, w2, m) => Bit(rc, w, m) \/ (m = n /\ r <= n)
  /\ InTurn(rc, r) => InTurn(rc2, r2)

\* A packet that is not in the buffer, and not beyond the window of the buffer.
Awaits(rc, r, next, n) == n < next /\ next - n <= 2 * Window /\ n < r + Window /\ n \notin Held(rc)

LEMMA ReceiveMpduFacts ==
  ASSUME first \in Numbers, NEW rc \in Rcpts, NEW next \in 1 .. MaxMsdus + 1,
         NEW w \in 1 .. next, NEW r \in 1 .. next, Recipient(rc, w, r, next),
         NEW n \in Msdus, Awaits(rc, r, next, n)
  PROVE  \E w2, r2 \in 1 .. next : Gets(rc, w, r, ReceiveMpdu(rc, n), w2, r2, next, n)
<1> DEFINE f == ReceiveMpdu(rc, n)
           stored == StoreMpduIfNeeded(rc, n)
           w2 == StartAfter(w, n)
<1>1. /\ w \in Nat /\ r \in Nat /\ next \in Nat /\ n \in Nat
      /\ Windows(w, r, next) /\ rc.start = Sn(r) /\ Stored(rc, w, r, next)
  BY Sizes DEF Recipient, Stored, Msdus
<1>2. n < next /\ next - n <= 2 * Window /\ n < r + Window /\ n \notin Held(rc)
  BY DEF Awaits
<1>3. IsOld(rc.start, Sn(n)) <=> n < r
  <2>1. n - r < Half /\ r - n <= Half
    BY <1>1, <1>2, Sizes
  <2> QED BY <1>1, <2>1, OldIsLess
<1>4. CASE n < r
  <2>1. f = rc
    BY <1>3, <1>4 DEF ReceiveMpdu
  <2>2. \A m \in Int : Has(rc, r, m) <=> Has(rc, r, m) \/ m = n
    BY <1>4 DEF Has
  <2> HIDE DEF f
  <2>3. w \in w .. next /\ r \in r .. next
    BY <1>1
  <2>4. Gets(rc, w, r, f, w, r, next, n)
    BY <2>1, <2>2, <2>3, Zenon DEF Gets
  <2> QED BY <2>4 DEF f
<1>5. CASE ~(n < r)
  <2>1. IsInWindow(Sn(n), rc.start, BufferSize)
    <3>1. n - r < SeqSpace /\ r - n <= SeqSpace - BufferSize /\ BufferSize \in Nat
      BY <1>1, <1>2, <1>5, Sizes
    <3> QED BY <1>1, <1>2, <1>5, <3>1, InWindowIsBetween, Sizes
  <2>2. f = ForwardUntilFirstLost(stored)
    BY <1>3, <1>5, <2>1 DEF ReceiveMpdu
  <2>3. /\ Stored(stored, w2, r, next)
        /\ \A m \in Int : n - m < Half /\ m < w2 + Window =>
             (Bit(stored, w2, m) <=> Bit(rc, w, m) \/ m = n)
        /\ \A m \in Int : Has(stored, r, m) <=> Has(rc, r, m) \/ m = n
        /\ InTurn(rc, r) => InTurn(stored, r)
    BY <1>1, <1>2, <1>5, StoreMpduIfNeededFacts
  <2>4. stored \in Rcpts
    BY StoreMpduIfNeededTyped
  <2>5. w2 \in 1 .. next /\ w2 \in w .. next /\ (w2 = w \/ w2 = n - Window + 1)
    <3>1. w2 \in w .. next
      BY <1>1, <1>2, <1>5, StartAfterFacts
    <3> QED BY <1>1, <3>1 DEF StartAfter
  <2> HIDE DEF stored, w2, f
  <2>6. PICK r2 \in r .. next :
          /\ Recipient(f, w2, r2, next) /\ f.bits = stored.bits
          /\ \A m \in Int : Has(f, r2, m) <=> Has(stored, r, m)
          /\ InTurn(stored, r) => InTurn(f, r2)
    BY <2>2, <2>3, <2>4, <2>5, ForwardUntilFirstLostFacts
  <2>7. f \in Rcpts
    BY <2>2, <2>4, ForwardUntilFirstLostTyped
  <2>8. ASSUME NEW m \in Int, next - m <= Window, Bit(f, w2, m) PROVE Bit(rc, w, m) \/ (m = n /\ r <= n)
    <3>1. n - m < Half /\ m < w2 + Window
      BY <1>1, <1>2, <2>8, Sizes DEF Bit
    <3>2. Bit(stored, w2, m)
      BY <2>6, <2>8 DEF Bit
    <3> QED BY <1>1, <1>5, <2>3, <3>1, <3>2
  <2>9. \A m \in Int : Has(f, r2, m) <=> Has(rc, r, m) \/ m = n
    BY <2>3, <2>6
  <2>10. r2 \in 1 .. next
    BY <2>6
  <2>11. Gets(rc, w, r, f, w2, r2, next, n)
    BY <2>3, <2>5, <2>6, <2>7, <2>8, <2>9 DEF Gets
  <2> QED BY <2>5, <2>10, <2>11 DEF f
<1> QED BY <1>4, <1>5

\* A packet on its own: MacLow::ReceiveOk looks at the buffer once more.
LEMMA ReceiveSingleFacts ==
  ASSUME first \in Numbers, NEW rc \in Rcpts, NEW next \in 1 .. MaxMsdus + 1,
         NEW w \in 1 .. next, NEW r \in 1 .. next, Recipient(rc, w, r, next),
         NEW n \in Msdus, Awaits(rc, r, next, n)
  PROVE  \E w2, r2 \in 1 .. next :
           Gets(rc, w, r, ForwardUntilFirstLost(ForwardSmaller(ReceiveMpdu(rc, n))), w2, r2, next, n)
<1> DEFINE x == ReceiveMpdu(rc, n)
           g == ForwardSmaller(x)
           f == ForwardUntilFirstLost(g)
<1>1. PICK w2 \in 1 .. next, r1 \in 1 .. next : Gets(rc, w, r, x, w2, r1, next, n)
  BY ReceiveMpduFacts
<1> HIDE DEF x
<1>2. x \in Rcpts /\ Stored(x, w2, r1, next)
  BY <1>1 DEF Gets, Recipient
<1>3. /\ g \in Rcpts /\ Stored(g, w2, r1, next) /\ g.bits = x.bits
      /\ \A m : Has(g, r1, m) <=> Has(x, r1, m)
      /\ InTurn(x, r1) => InTurn(g, r1)
  BY <1>2, ForwardAgainFacts
<1> HIDE DEF g
<1>4. PICK r2 \in r1 .. next :
        /\ Recipient(f, w2, r2, next) /\ f.bits = g.bits
        /\ \A m \in Int : Has(f, r2, m) <=> Has(g, r1, m)
        /\ InTurn(g, r1) => InTurn(f, r2)
  BY <1>3, ForwardUntilFirstLostFacts
<1>5. f \in Rcpts
  BY <1>3, ForwardUntilFirstLostTyped
<1> HIDE DEF f
<1>6. r2 \in 1 .. next /\ r2 \in r .. next /\ w2 \in w .. next /\ (w2 = w \/ w2 = n - Window + 1)
  BY <1>1 DEF Gets
<1>7. \A m \in Int : Has(f, r2, m) <=> Has(rc, r, m) \/ m = n
  BY <1>1, <1>3, <1>4 DEF Gets
<1>8. \A m \in Int : next - m <= Window /\ Bit(f, w2, m) => Bit(rc, w, m) \/ (m = n /\ r <= n)
  BY <1>1, <1>3, <1>4 DEF Gets, Bit
<1>9. InTurn(rc, r) => InTurn(f, r2)
  BY <1>1, <1>3, <1>4 DEF Gets
<1>10. Gets(rc, w, r, f, w2, r2, next, n)
  BY <1>4, <1>5, <1>6, <1>7, <1>8, <1>9 DEF Gets
<1> QED BY <1>6, <1>10 DEF f, g, x

\* UpdateWithBlockAckReq moves the window of the cache forward to the packet x.
LEMMA UpdateWithBlockAckReqFacts ==
  ASSUME first \in Numbers, NEW rc \in Rcpts, NEW w \in Nat, NEW x \in Nat, rc.wstart = Sn(w),
         x - w <= 2 * Window, w - x <= 2 * Window
  PROVE  LET c == UpdateWithBlockAckReq(rc, Sn(x))
         IN /\ c \in Rcpts /\ c.start = rc.start /\ c.buffer = rc.buffer /\ c.up = rc.up
            /\ x < w => c = rc
            /\ w <= x => /\ c.wstart = Sn(x) /\ c.bits \subseteq rc.bits
                         /\ \A m \in x .. x + Window - 1 : Sn(m) \in c.bits <=> Bit(rc, w, m)
<1> DEFINE c == UpdateWithBlockAckReq(rc, Sn(x))
           entered == {t \in 0 .. SeqSpace - 1 :
                         IsInWindow(t, Sn(x), Window) /\ ~IsInWindow(t, rc.wstart, Window)}
<1>1. c = IF IsOld(rc.wstart, Sn(x)) THEN rc ELSE [rc EXCEPT !.bits = @ \ entered, !.wstart = Sn(x)]
  BY DEF UpdateWithBlockAckReq
<1>2. IsOld(rc.wstart, Sn(x)) <=> x < w
  BY OldIsLess, Sizes
<1>3. Sn(x) \in Numbers
  BY SnNumber
<1>4. c \in Rcpts
  BY <1>3, UpdateWithBlockAckReqTyped
<1>5. CASE x < w
  BY <1>1, <1>2, <1>4, <1>5
<1>6. CASE ~(x < w)
  <2>1. ASSUME NEW m \in x .. x + Window - 1 PROVE Sn(m) \in entered <=> ~(m < w + Window)
    <3>1. m \in Int /\ x <= m /\ m < x + Window
      BY <2>1, Sizes
    <3>2. m - x < SeqSpace /\ x - m <= SeqSpace - Window /\ m - w < SeqSpace /\ w - m <= SeqSpace - Window
      BY <1>6, <3>1, Sizes
    <3>3. IsInWindow(Sn(m), Sn(x), Window)
      BY <3>1, <3>2, InWindowIsBetween, Sizes
    <3>4. IsInWindow(Sn(m), rc.wstart, Window) <=> w <= m /\ m < w + Window
      BY <3>1, <3>2, InWindowIsBetween, Sizes
    <3>5. Sn(m) \in 0 .. SeqSpace - 1
      BY <3>1, SnNumber DEF Numbers
    <3> QED BY <1>6, <3>1, <3>3, <3>4, <3>5
  <2> HIDE DEF c, entered
  <2>2. /\ c.start = rc.start /\ c.buffer = rc.buffer /\ c.up = rc.up
        /\ c.wstart = Sn(x) /\ c.bits = rc.bits \ entered
    BY <1>1, <1>2, <1>6 DEF Rcpts
  <2>3. \A m \in x .. x + Window - 1 : Sn(m) \in c.bits <=> Bit(rc, w, m)
    BY <2>1, <2>2 DEF Bit
  <2> QED BY <1>4, <1>6, <2>2, <2>3 DEF c
<1> QED BY <1>5, <1>6

\* What a request that starts at the packet x does.
Moves(rc, w, r, rc2, w2, r2, next, x) ==
  /\ w2 = (IF x < w THEN w ELSE x) /\ r2 \in r .. next /\ x <= r2
  /\ rc2 \in Rcpts /\ Recipient(rc2, w2, r2, next)
  /\ \A m \in Int : Has(rc2, r2, m) <=> Has(rc, r, m) \/ m < x
  /\ \A m \in Msdus : (x <= m \/ NoWrap) /\ Bit(rc2, w2, m) => Bit(rc, w, m)
  /\ InTurn(rc, r) /\ x <= r => InTurn(rc2, r2)

\* MacLow::ReceiveOk for a block ack request that starts at the number s.
AfterBar(rc, s) ==
  LET c == UpdateWithBlockAckReq(rc, s)
  IN IF IsOld(c.start, s) THEN c ELSE ForwardUntilFirstLost(ForwardSmaller([c EXCEPT !.start = s]))

LEMMA ReceiveBarFacts ==
  ASSUME first \in Numbers, NEW rc \in Rcpts, NEW next \in 1 .. MaxMsdus + 1,
         NEW w \in 1 .. next, NEW r \in 1 .. next, Recipient(rc, w, r, next),
         NEW x \in 1 .. next, next - x <= Window
  PROVE  /\ \E w2, r2 \in 1 .. next : Moves(rc, w, r, AfterBar(rc, Sn(x)), w2, r2, next, x)
         /\ AfterBar(rc, Sn(x)).bits = UpdateWithBlockAckReq(rc, Sn(x)).bits
<1> DEFINE c == UpdateWithBlockAckReq(rc, Sn(x))
           f == AfterBar(rc, Sn(x))
<1>1. /\ w \in Nat /\ r \in Nat /\ next \in Nat /\ x \in Nat /\ Msdus \subseteq Int
      /\ w <= r /\ r <= next /\ next - w <= 2 * Window /\ r <= w + Window
      /\ rc.start = Sn(r) /\ rc.wstart = Sn(w) /\ Stored(rc, w, r, next)
  BY Sizes DEF Recipient, Stored, Windows, Msdus
<1>2. /\ c \in Rcpts /\ c.start = rc.start /\ c.buffer = rc.buffer /\ c.up = rc.up
      /\ x < w => c = rc
      /\ w <= x => /\ c.wstart = Sn(x) /\ c.bits \subseteq rc.bits
                   /\ \A m \in x .. x + Window - 1 : Sn(m) \in c.bits <=> Bit(rc, w, m)
  <2>1. x - w <= 2 * Window /\ w - x <= 2 * Window
    BY <1>1, Sizes
  <2> QED BY <1>1, <2>1, UpdateWithBlockAckReqFacts
<1>3. IsOld(c.start, Sn(x)) <=> x < r
  <2>1. x - r < Half /\ r - x <= Half
    BY <1>1, Sizes
  <2> QED BY <1>1, <1>2, <2>1, OldIsLess
<1>4. f = IF x < r THEN c ELSE ForwardUntilFirstLost(ForwardSmaller([c EXCEPT !.start = Sn(x)]))
  BY <1>3 DEF AfterBar
<1> HIDE DEF c, f
<1>5. ASSUME NEW m \in Held(rc) PROVE m \in Int /\ r <= m /\ m < next /\ m < w + Window
  <2>1. rc.buffer \in Seq(Msdus)
    BY DEF Rcpts
  <2>2. m \in Int
    BY <1>1, <2>1, ToSetFacts DEF Held
  <2> QED BY <1>1, <2>2 DEF Stored
<1>6. ASSUME w <= x, NEW m \in x .. x + Window - 1 PROVE Sn(m) \in c.bits <=> Has(rc, r, m)
  <2>1. m \in Int /\ x <= m /\ w <= m
    BY <1>1, <1>6
  <2>2. CASE m < w + Window
    <3>1. m \in w .. w + Window - 1
      BY <1>1, <2>1, <2>2, Sizes
    <3> QED BY <1>1, <1>2, <1>6, <2>2, <3>1 DEF Stored, Heard, Bit
  <2>3. CASE ~(m < w + Window)
    <3>1. ~(m < r)
      BY <1>1, <2>1, <2>3, Sizes
    <3> QED BY <1>2, <1>5, <1>6, <2>3, <3>1 DEF Has, Bit
  <2> QED BY <2>2, <2>3
<1>7. ASSUME w <= x, NoWrap, NEW m \in Msdus, Sn(m) \in c.bits PROVE m < w + Window /\ m < x + Window
  <2>1. m < w + Window
    BY <1>1, <1>2, <1>7 DEF Stored
  <2> QED BY <1>1, <1>7, <2>1, Sizes
<1>8. ASSUME w <= x, NEW m \in Msdus, x <= m \/ NoWrap, Sn(m) \in c.bits, m < x + Window
      PROVE  Bit(rc, w, m)
  <2>1. CASE x <= m
    <3>1. m \in x .. x + Window - 1
      BY <1>1, <1>8, <2>1, Sizes
    <3> QED BY <1>2, <1>8, <3>1
  <2>2. CASE NoWrap
    BY <1>2, <1>7, <1>8, <2>2 DEF Bit
  <2> QED BY <1>8, <2>1, <2>2
<1>9. CASE x < w
  <2>1. f = rc /\ x < r
    BY <1>1, <1>2, <1>4, <1>9
  <2>2. \A m \in Int : Has(rc, r, m) <=> Has(rc, r, m) \/ m < x
    BY <1>1, <2>1 DEF Has
  <2>3. r \in r .. next /\ x <= r
    BY <1>1, <2>1
  <2>4. Moves(rc, w, r, f, w, r, next, x)
    BY <1>9, <2>1, <2>2, <2>3 DEF Moves
  <2> QED BY <1>2, <1>9, <2>1, <2>4 DEF f, c
<1>10. CASE w <= x /\ x < r
  <2>1. f = c
    BY <1>4, <1>10
  <2>2. Held(c) = Held(rc)
    BY <1>2 DEF Held
  <2>3. Has(c, r, r) <=> Has(rc, r, r)
    BY <2>2 DEF Has
  <2>4. \A m : Has(c, r, m) <=> Has(rc, r, m)
    BY <2>2 DEF Has
  <2>5. Windows(x, r, next)
    BY <1>1, <1>10, Sizes DEF Windows
  <2>6. \A m \in Held(c) : r <= m /\ m < next /\ m < x + Window
    BY <1>1, <1>5, <1>10, <2>2, Sizes
  <2>7. Stored(c, x, r, next)
    BY <1>1, <1>2, <1>6, <1>7, <1>10, <2>4, <2>5, <2>6 DEF Stored, Heard
  <2>8. Recipient(c, x, r, next)
    BY <2>2, <2>7 DEF Recipient
  <2>9. \A m \in Int : Has(c, r, m) <=> Has(rc, r, m) \/ m < x
    BY <1>1, <1>10, <2>4 DEF Has
  <2>10. \A m \in Msdus : (x <= m \/ NoWrap) /\ Bit(c, x, m) => Bit(rc, w, m)
    BY <1>8, <1>10 DEF Bit
  <2>11. InTurn(rc, r) => InTurn(c, r)
    BY <1>2 DEF InTurn
  <2>12. Moves(rc, w, r, c, x, r, next, x)
    BY <1>1, <1>2, <1>10, <2>8, <2>9, <2>10, <2>11 DEF Moves
  <2> QED BY <2>1, <2>12 DEF f, c
<1>11. CASE r <= x
  <2> DEFINE b == [c EXCEPT !.start = Sn(x)]
             g == ForwardSmaller(b)
  <2>1. f = ForwardUntilFirstLost(g)
    BY <1>1, <1>4, <1>11
  <2>2. Sn(x) \in Numbers
    BY <1>1, SnNumber
  <2>3. /\ b \in Rcpts /\ b.start = Sn(x) /\ b.wstart = c.wstart /\ b.bits = c.bits
        /\ b.buffer = rc.buffer /\ b.up = rc.up
    BY <1>2, <2>2 DEF Rcpts
  <2> HIDE DEF b
  <2>4. Held(b) = Held(rc)
    BY <2>3 DEF Held
  <2>5. /\ g.start = Sn(x) /\ g.wstart = Sn(x) /\ g.bits = c.bits
        /\ Sorted(g.buffer) /\ Sorted(g.up)
        /\ \A n \in ToSet(g.up) : n < x
        /\ \A n : n \in Held(g) <=> n \in Held(rc) /\ x <= n
        /\ (\A n \in Held(rc) : x <= n) => g.up = rc.up
    <3>1. x \in r .. next /\ next - r <= 2 * Window /\ w <= x
      BY <1>1, <1>11, Sizes
    <3>2. Sorted(b.buffer) /\ Sorted(b.up) /\ (\A n \in ToSet(b.up) : n < r)
      BY <1>1, <2>3 DEF Stored
    <3>3. \A n \in Held(b) : r <= n /\ n < next
      BY <1>5, <2>4
    <3> QED BY <1>2, <2>3, <2>4, <3>1, <3>2, <3>3, ForwardSmallerFacts
  <2>6. g \in Rcpts
    BY <2>3, ForwardSmallerTyped
  <2> HIDE DEF g
  <2>7. w <= x /\ Windows(x, x, next)
    BY <1>1, <1>11, Sizes DEF Windows
  <2>8. \A n \in Held(g) : x <= n /\ n < next /\ n < x + Window
    BY <1>1, <1>5, <2>5, <2>7, Sizes
  <2>9. \A m \in Int : Has(g, x, m) <=> Has(rc, r, m) \/ m < x
    BY <1>1, <1>11, <2>5 DEF Has
  <2>10. ASSUME NEW m \in x .. x + Window - 1 PROVE Sn(m) \in g.bits <=> Has(g, x, m)
    <3>1. m \in Int /\ ~(m < x)
      BY <2>10, <1>1
    <3> QED BY <1>6, <2>5, <2>7, <2>9, <3>1
  <2>11. Stored(g, x, x, next)
    BY <1>7, <2>5, <2>7, <2>8, <2>10 DEF Stored, Heard
  <2>12. PICK r2 \in x .. next :
           /\ Recipient(f, x, r2, next) /\ f.bits = g.bits
           /\ \A m \in Int : Has(f, r2, m) <=> Has(g, x, m)
           /\ InTurn(g, x) => InTurn(f, r2)
    BY <2>1, <2>6, <2>11, ForwardUntilFirstLostFacts
  <2>13. f \in Rcpts
    BY <2>1, <2>6, ForwardUntilFirstLostTyped
  <2>14. \A m \in Int : Has(f, r2, m) <=> Has(rc, r, m) \/ m < x
    BY <2>9, <2>12
  <2>15. \A m \in Msdus : (x <= m \/ NoWrap) /\ Bit(f, x, m) => Bit(rc, w, m)
    BY <1>8, <2>5, <2>7, <2>12 DEF Bit
  <2>16. InTurn(rc, r) /\ x <= r => InTurn(f, r2)
    <3> SUFFICES ASSUME InTurn(rc, r), x <= r PROVE InTurn(f, r2)
      OBVIOUS
    <3>1. x = r
      BY <1>1, <1>11
    <3>2. g.up = rc.up
      BY <1>5, <2>5, <3>1
    <3>3. InTurn(g, x)
      BY <3>1, <3>2 DEF InTurn
    <3> QED BY <2>12, <3>3
  <2>17. x = (IF x < w THEN w ELSE x) /\ r2 \in r .. next /\ x <= r2 /\ r2 \in 1 .. next
    BY <1>1, <1>11, <2>7, <2>12
  <2>18. Moves(rc, w, r, f, x, r2, next, x)
    BY <2>12, <2>13, <2>14, <2>15, <2>16, <2>17 DEF Moves
  <2> QED BY <2>5, <2>12, <2>17, <2>18 DEF f, c
<1> QED BY <1>1, <1>9, <1>10, <1>11

-----------------------------------------------------------------------------
(* Types of the originator and of the exchange *)

\* The current packets are told apart.
LEMMA PacketFacts ==
  /\ NoPacket.type = "none"
  /\ \A n : Data(n).type = "data" /\ Data(n).msdu = n
  /\ \A s : Bar(s).type = "bar" /\ Bar(s).start = s
  /\ \A n, s : Data(n) # NoPacket /\ Bar(s) # NoPacket /\ Data(n) # Bar(s)
BY DEF NoPacket, Data, Bar

LEMMA CurFacts ==
  ASSUME NEW c \in Curs
  PROVE  /\ c.type \in {"none", "data", "bar"}
         /\ c.type = "none" <=> c = NoPacket
         /\ c.type = "data" => c.msdu \in Msdus /\ c = Data(c.msdu)
         /\ c.type = "bar" => c.start \in Numbers /\ c = Bar(c.start)
<1>1. c = NoPacket \/ (\E n \in Msdus : c = Data(n)) \/ (\E s \in Numbers : c = Bar(s))
  BY DEF Curs
<1> QED BY <1>1, PacketFacts

AirTyped(a) ==
  \/ a \in {Idle, Rts, Single, BarFrame, Ack}
  \/ \E rest \in Seq(Msdus), heard \in BOOLEAN : a = Ampdu(rest, heard)
  \/ \E s \in Numbers, bits \in SUBSET Numbers : a = BlockAckFrame(s, bits)

LEMMA AirFacts ==
  /\ Idle.st = "idle" /\ Rts.st = "rts" /\ Single.st = "single" /\ BarFrame.st = "bar" /\ Ack.st = "ack"
  /\ \A rest, heard : /\ Ampdu(rest, heard).st = "ampdu" /\ Ampdu(rest, heard).rest = rest
                      /\ Ampdu(rest, heard).heard = heard
  /\ \A s, bits : /\ BlockAckFrame(s, bits).st = "ba" /\ BlockAckFrame(s, bits).start = s
                  /\ BlockAckFrame(s, bits).bits = bits
BY DEF Idle, Rts, Single, BarFrame, Ack, Ampdu, BlockAckFrame

\* What is on the air goes with the current packet and the aggregate queue.
Shape(o, a) ==
  /\ a.st \in {"single", "ack"} => o.cur.type = "data" /\ o.low = <<>>
  /\ a.st = "rts" => o.cur.type = "data"
  /\ a.st = "ampdu" => o.low # <<>>
  /\ a.st = "bar" => o.cur.type = "bar"
  /\ a.st = "ba" => o.cur.type = "bar" \/ o.low # <<>>
  /\ o.low # <<>> => o.cur.type = "data"

Typed(o, rc, a, h) ==
  /\ first \in Numbers /\ o \in Origs /\ rc \in Rcpts /\ h \in Hists
  /\ AirTyped(a) /\ Shape(o, a)

LEMMA AirParts ==
  ASSUME NEW a, AirTyped(a)
  PROVE  /\ a.st \in {"idle", "rts", "single", "ampdu", "bar", "ack", "ba"}
         /\ a.st = "idle" <=> a = Idle
         /\ a.st = "rts" <=> a = Rts
         /\ a.st = "single" <=> a = Single
         /\ a.st = "bar" <=> a = BarFrame
         /\ a.st = "ack" <=> a = Ack
         /\ a.st = "ampdu" => a.rest \in Seq(Msdus) /\ a.heard \in BOOLEAN /\ a = Ampdu(a.rest, a.heard)
         /\ a.st = "ba" => a.start \in Numbers /\ a.bits \subseteq Numbers /\ a = BlockAckFrame(a.start, a.bits)
<1>1. CASE a \in {Idle, Rts, Single, BarFrame, Ack}
  BY <1>1, AirFacts
<1>2. CASE \E rest \in Seq(Msdus), heard \in BOOLEAN : a = Ampdu(rest, heard)
  BY <1>2, AirFacts
<1>3. CASE \E s \in Numbers, bits \in SUBSET Numbers : a = BlockAckFrame(s, bits)
  BY <1>3, AirFacts
<1> QED BY <1>1, <1>2, <1>3 DEF AirTyped

\* The operations of the originator keep its types.
LEMMA CleanupBuffersTyped ==
  ASSUME first \in Numbers, NEW o \in Origs
  PROVE  LET c == CleanupBuffers(o)
         IN /\ c \in Origs /\ c.next = o.next /\ c.pkts = o.pkts /\ c.retry = o.retry
            /\ c.cur = o.cur /\ c.low = o.low
            /\ c.start = IF o.pkts = <<>> THEN o.start ELSE Sn(o.pkts[1])
<1>1. CASE o.pkts = <<>>
  BY <1>1 DEF CleanupBuffers, Origs
<1>2. CASE o.pkts # <<>>
  <2> DEFINE s == Sn(o.pkts[1])
  <2>1. o.pkts[1] \in Msdus
    <3>1. o.pkts \in Seq(Msdus)
      BY DEF Origs
    <3> QED BY <1>2, <3>1, TailFacts
  <2>2. s \in Numbers
    BY <2>1, SnNumber, Sizes DEF Msdus
  <2> HIDE DEF s
  <2>3. CleanupBuffers(o) = [o EXCEPT !.start = s]
    BY <1>2 DEF CleanupBuffers, s
  <2> QED BY <1>2, <2>2, <2>3 DEF Origs, s
<1> QED BY <1>1, <1>2

LEMMA NextRetryTyped ==
  ASSUME first \in Numbers, NEW o \in Origs
  PROVE  LET c == NextRetry(o)
         IN c \in Origs /\ c.next = o.next /\ c.cur = o.cur /\ c.low = o.low
<1> DEFINE b == CleanupBuffers(o)
           old == ToSet(SubSeq(b.retry, 1, Leading(b.retry, {n \in Msdus : IsOld(b.start, Sn(n))})))
           left == Without(b.retry, old)
           pkts == Without(b.pkts, old)
           beyond == left # <<>> /\ Sn(left[1]) > (b.start + Window - 1) % SeqSpace
           start == IF beyond THEN Sn(left[1]) ELSE b.start
<1>1. NextRetry(o) = [b EXCEPT !.retry = left, !.pkts = Without(@, old),
                               !.start = IF beyond THEN Sn(left[1]) ELSE @]
  BY DEF NextRetry
<1>2. b \in Origs /\ b.next = o.next /\ b.cur = o.cur /\ b.low = o.low
  BY CleanupBuffersTyped
<1> HIDE DEF b, old
<1>3. left \in Seq(Msdus) /\ pkts \in Seq(Msdus)
  BY <1>2, WithoutFacts DEF Origs
<1> HIDE DEF left
<1>4. start \in Numbers
  <2>1. left # <<>> => left[1] \in Int
    BY <1>3, TailFacts, Sizes DEF Msdus
  <2>2. left # <<>> => Sn(left[1]) \in Numbers
    BY <2>1, SnNumber
  <2> QED BY <1>2, <2>2 DEF Origs
<1>5. NextRetry(o) = [b EXCEPT !.retry = left, !.pkts = pkts, !.start = start]
  BY <1>1, <1>2 DEF Origs
<1> HIDE DEF pkts, start
<1> QED BY <1>2, <1>3, <1>4, <1>5 DEF Origs

LEMMA GetNextPacketTyped ==
  ASSUME NEW o \in Origs
  PROVE  LET g == GetNextPacket(o)
         IN /\ g \in Origs /\ g.low = o.low
            /\ g = o \/ g.cur.type = "data"
<1>1. o.retry \in Seq(Msdus) /\ o.pkts \in Seq(Msdus) /\ o.next \in 1 .. MaxMsdus + 1
  BY DEF Origs
<1>2. CASE o.retry # <<>>
  <2> DEFINE n == o.retry[1]
             pkts == Without(o.pkts, {n})
  <2>1. n \in Msdus /\ Tail(o.retry) \in Seq(Msdus) /\ pkts \in Seq(Msdus)
    BY <1>1, <1>2, TailFacts, WithoutFacts
  <2>2. Data(n) \in Curs /\ Data(n).type = "data"
    BY <2>1, PacketFacts DEF Curs
  <2>3. GetNextPacket(o) = [o EXCEPT !.cur = Data(n), !.retry = Tail(o.retry), !.pkts = pkts]
    BY <1>2 DEF GetNextPacket, Origs
  <2> HIDE DEF n, pkts
  <2> QED BY <2>1, <2>2, <2>3 DEF Origs
<1>3. CASE o.retry = <<>> /\ o.next <= MaxMsdus
  <2> DEFINE n == o.next
  <2>1. n \in Msdus /\ n + 1 \in 1 .. MaxMsdus + 1
    BY <1>1, <1>3, Sizes DEF Msdus
  <2>2. Data(n) \in Curs /\ Data(n).type = "data"
    BY <2>1, PacketFacts DEF Curs
  <2>3. GetNextPacket(o) = [o EXCEPT !.cur = Data(n), !.next = n + 1]
    BY <1>3 DEF GetNextPacket, Origs
  <2> HIDE DEF n
  <2> QED BY <2>1, <2>2, <2>3 DEF Origs
<1>4. CASE o.retry = <<>> /\ ~(o.next <= MaxMsdus)
  BY <1>4 DEF GetNextPacket
<1> QED BY <1>2, <1>3, <1>4

\* The new packets in the queue.
News(o) == [i \in 1 .. MaxMsdus - o.next + 1 |-> o.next + i - 1]

LEMMA CandidatesTyped ==
  ASSUME NEW o \in Origs, NEW n, NEW k \in 0 .. Len(Candidates(o, n))
  PROVE  /\ News(o) \in Seq(Msdus) /\ o.retry \o News(o) \in Seq(Msdus)
         /\ Candidates(o, n) \in Seq(Msdus) /\ SubSeq(Candidates(o, n), 1, k) \in Seq(Msdus)
<1> DEFINE all == o.retry \o News(o)
           j == Leading(all, {m \in Msdus : IsInWindow(Sn(m), Sn(n), Window)})
<1>1. News(o) \in Seq(Msdus)
  <2>1. o.next \in Int /\ 1 <= o.next /\ o.next <= MaxMsdus + 1
    BY Sizes DEF Origs
  <2>2. MaxMsdus - o.next + 1 \in Nat /\ \A i \in 1 .. MaxMsdus - o.next + 1 : o.next + i - 1 \in Msdus
    BY <2>1, Sizes DEF Msdus
  <2> QED BY <2>2 DEF News
<1>2. all \in Seq(Msdus)
  <2>1. o.retry \in Seq(Msdus)
    BY DEF Origs
  <2> QED BY <1>1, <2>1, ConcatFacts
<1>3. Candidates(o, n) = SubSeq(all, 1, j)
  BY DEF Candidates, News
<1> HIDE DEF all
<1>4. j \in Nat /\ j <= Len(all) /\ 1 \in Nat /\ 1 <= 1
  <2>1. j \in 0 .. Len(all)
    BY <1>2, LeadingFacts
  <2>2. Len(all) \in Nat
    BY <1>2, ToSetFacts
  <2> QED BY <2>1, <2>2
<1> HIDE DEF j
<1>5. Candidates(o, n) \in Seq(Msdus)
  BY <1>2, <1>3, <1>4, SubSeqFacts
<1> DEFINE s == Candidates(o, n)
<1> HIDE DEF s
<1>6. SubSeq(s, 1, k) \in Seq(Msdus)
  <2>1. Len(s) \in Nat /\ s \in Seq(Msdus) /\ k \in 0 .. Len(s)
    BY <1>5, ToSetFacts DEF s
  <2>2. k \in Nat /\ k <= Len(s) /\ 1 \in Nat /\ 1 <= 1
    BY <2>1
  <2> QED BY <2>1, <2>2, SubSeqFacts
<1> QED BY <1>1, <1>2, <1>5, <1>6 DEF all, s

\* The one packet in front of others.
LEMMA FrontFacts ==
  ASSUME NEW n \in Msdus, NEW s \in Seq(Msdus)
  PROVE  /\ <<n>> \o s \in Seq(Msdus) /\ <<n>> \o s # <<>> /\ (<<n>> \o s)[1] = n
         /\ ToSet(<<n>> \o s) = {n} \cup ToSet(s)
         /\ Sorted(s) /\ (\A m \in ToSet(s) : n < m) => Sorted(<<n>> \o s)
<1> DEFINE one == <<n>>
<1>1. one \in Seq(Msdus) /\ Len(one) = 1 /\ one[1] = n
  OBVIOUS
<1> HIDE DEF one
<1>2. DOMAIN one = 1 .. 1 /\ \A x : x \in ToSet(one) <=> \E i \in 1 .. 1 : x = one[i]
  BY <1>1, ToSetFacts
<1>3. ToSet(one) = {n} /\ Sorted(one)
  BY <1>1, <1>2 DEF Sorted
<1>4. one \o s \in Seq(Msdus) /\ ToSet(one \o s) = ToSet(one) \cup ToSet(s)
      /\ (Sorted(one) /\ Sorted(s) /\ (\A x \in ToSet(one), y \in ToSet(s) : x < y) => Sorted(one \o s))
  BY <1>1, ConcatFacts
<1>5. (one \o s)[1] = n
  BY <1>1, ConcatProperties
<1>6. one \o s # <<>>
  BY <1>3, <1>4, ToSetFacts
<1> QED BY <1>3, <1>4, <1>5, <1>6 DEF one

LEMMA LastFacts ==
  ASSUME NEW s \in Seq(Msdus), s # <<>>
  PROVE  /\ Last(s) \in ToSet(s) /\ Last(s) \in Msdus
         /\ Sorted(s) => \A x \in ToSet(s) : x <= Last(s)
<1>1. /\ Len(s) \in Nat \ {0}
      /\ \A x : x \in ToSet(s) <=> \E i \in 1 .. Len(s) : x = s[i]
      /\ \A i \in 1 .. Len(s) : s[i] \in Msdus
  BY ToSetFacts, ElementOfSeq
<1>2. Len(s) \in 1 .. Len(s) /\ Last(s) = s[Len(s)]
  BY <1>1 DEF Last
<1>3. ASSUME Sorted(s), NEW x \in ToSet(s) PROVE x <= Last(s)
  <2>1. PICK i \in 1 .. Len(s) : x = s[i]
    BY <1>1
  <2>2. i <= Len(s)
    BY <1>1
  <2> QED BY <1>2, <1>3, <2>1, <2>2, SortedFacts
<1> QED BY <1>1, <1>2, <1>3

LEMMA AggregateToAmpduTyped ==
  ASSUME first \in Numbers, NEW o \in Origs, NEW n \in Msdus, NEW more \in Seq(Msdus)
  PROVE  LET g == AggregateToAmpdu(o, n, more)
         IN g \in Origs /\ g.cur = o.cur /\ (g.low = o.low \/ g.low # <<>>)
<1>1. CASE more = <<>>
  BY <1>1 DEF AggregateToAmpdu
<1>2. CASE more # <<>>
  <2> DEFINE low == <<n>> \o more
             retry == Without(o.retry, ToSet(more))
             pkts == InsertAll(Without(o.pkts, ToSet(more)), low)
             next == IF Last(more) < o.next THEN o.next ELSE Last(more) + 1
  <2>1. AggregateToAmpdu(o, n, more) =
          [o EXCEPT !.low = low, !.retry = retry, !.pkts = pkts, !.next = next]
    BY <1>2 DEF AggregateToAmpdu, Origs
  <2>2. low \in Seq(Msdus) /\ low # <<>>
    BY FrontFacts
  <2> HIDE DEF low
  <2>3. retry \in Seq(Msdus) /\ Without(o.pkts, ToSet(more)) \in Seq(Msdus)
    BY WithoutFacts DEF Origs
  <2>4. pkts \in Seq(Msdus)
    BY <2>2, <2>3, InsertAllFacts
  <2>5. next \in 1 .. MaxMsdus + 1
    <3>1. Last(more) \in Msdus
      BY <1>2, LastFacts
    <3> QED BY <3>1, Sizes DEF Origs, Msdus
  <2> HIDE DEF retry, pkts, next
  <2> QED BY <2>1, <2>2, <2>3, <2>4, <2>5 DEF Origs
<1> QED BY <1>1, <1>2

LEMMA RestartAccessIfNeededTyped ==
  ASSUME first \in Numbers, NEW o \in Origs
  PROVE  LET c == RestartAccessIfNeeded(o) IN c \in Origs /\ c.cur = o.cur /\ c.low = o.low
BY CleanupBuffersTyped DEF RestartAccessIfNeeded

LEMMA NotifyGotBlockAckTyped ==
  ASSUME first \in Numbers, NEW o \in Origs, NEW lost \in Seq(Msdus)
  PROVE  LET c == NotifyGotBlockAck(o, lost)
         IN /\ c \in Origs /\ c.cur = o.cur /\ c.low = o.low /\ c.next = o.next /\ c.pkts = lost
            /\ c.retry = InsertAll(o.retry, Without(lost, ToSet(o.retry)))
            /\ c.start = IF lost = <<>> THEN Sn(o.next) ELSE Sn(lost[1])
<1> DEFINE retry == InsertAll(o.retry, Without(lost, ToSet(o.retry)))
           start == IF lost = <<>> THEN Sn(o.next) ELSE Sn(lost[1])
<1>1. NotifyGotBlockAck(o, lost) = [o EXCEPT !.pkts = lost, !.retry = retry, !.start = start]
  BY DEF NotifyGotBlockAck, Origs
<1>2. retry \in Seq(Msdus)
  <2>1. Without(lost, ToSet(o.retry)) \in Seq(Msdus) /\ o.retry \in Seq(Msdus)
    BY WithoutFacts DEF Origs
  <2> QED BY <2>1, InsertAllFacts
<1>3. start \in Numbers
  <2>1. o.next \in Int /\ (lost # <<>> => lost[1] \in Int)
    BY TailFacts, Sizes DEF Origs, Msdus
  <2> QED BY <2>1, SnNumber
<1> HIDE DEF retry, start
<1> QED BY <1>1, <1>2, <1>3 DEF Origs, retry, start

(* Types of the whole *)

Types == Typed(orig, rcpt, air, hist)

\* The next state, given by its values.
LEMMA TypesCarried ==
  ASSUME NEW o \in Origs, NEW rc \in Rcpts, NEW a, NEW h \in Hists, AirTyped(a), Shape(o, a),
         first \in Numbers, first' = first, orig' = o, rcpt' = rc, air' = a, hist' = h
  PROVE  Types'
BY DEF Types, Typed, AirTyped, Shape

LEMMA TypesInit == Init => Types
<1> SUFFICES ASSUME Init PROVE Types
  OBVIOUS
<1>1. PICK g \in Agreements : first = g.first /\ hist = [acked |-> {}, failed |-> 0, left |-> g.failures]
  BY DEF Init
<1>2. first \in Numbers /\ g.failures \in Nat
  BY <1>1, SizesAssumption DEF Numbers
<1>3. hist \in Hists
  BY <1>1, <1>2 DEF Hists
<1>4. <<>> \in Seq(Msdus) /\ 1 \in 1 .. MaxMsdus + 1
  BY EmptySeq, Sizes
<1>5. orig \in Origs /\ rcpt \in Rcpts
  BY <1>2, <1>4 DEF Init, Origs, Rcpts, Curs
<1>6. air = Idle /\ orig.cur = NoPacket /\ orig.low = <<>>
  BY DEF Init
<1>7. AirTyped(air) /\ Shape(orig, air)
  BY <1>6, AirFacts, PacketFacts DEF AirTyped, Shape
<1> QED BY <1>2, <1>3, <1>5, <1>7 DEF Types, Typed

\* Idle goes with any current packet.
LEMMA IdleShape ==
  ASSUME NEW o \in Origs, o.low = <<>> \/ o.cur.type = "data"
  PROVE  AirTyped(Idle) /\ Shape(o, Idle)
BY AirFacts DEF AirTyped, Shape

\* So does the data, or the RTS before it, with a current packet that is data.
LEMMA DataFrameShape ==
  ASSUME NEW o \in Origs, o.cur.type = "data", NEW a \in {Rts, DataFrame(o)}
  PROVE  AirTyped(a) /\ Shape(o, a)
<1>1. CASE a = Rts
  BY <1>1, AirFacts DEF AirTyped, Shape
<1>2. CASE o.low = <<>> /\ a = Single
  BY <1>2, AirFacts DEF AirTyped, Shape
<1>3. CASE o.low # <<>> /\ a = Ampdu(o.low, FALSE)
  <2>1. o.low \in Seq(Msdus)
    BY DEF Origs
  <2>2. AirTyped(a)
    BY <1>3, <2>1 DEF AirTyped
  <2> QED BY <1>3, <2>2, AirFacts DEF Shape
<1> QED BY <1>1, <1>2, <1>3 DEF DataFrame

\* What a grant takes up: the current packet or the next one.
Granted(o) == IF o.cur = NoPacket THEN GetNextPacket(NextRetry(o)) ELSE o

LEMMA GrantedTyped ==
  ASSUME first \in Numbers, NEW o \in Origs, o.low # <<>> => o.cur.type = "data"
  PROVE  LET g == Granted(o)
         IN /\ g \in Origs /\ g.low = o.low /\ (g.low # <<>> => g.cur.type = "data")
<1>1. CASE o.cur = NoPacket
  <2> DEFINE c == NextRetry(o)
  <2>1. c \in Origs /\ c.cur = o.cur /\ c.low = o.low
    BY NextRetryTyped
  <2> HIDE DEF c
  <2>2. GetNextPacket(c) \in Origs /\ GetNextPacket(c).low = c.low
    BY <2>1, GetNextPacketTyped
  <2>3. o.low = <<>>
    BY <1>1, PacketFacts
  <2> QED BY <1>1, <2>1, <2>2, <2>3 DEF Granted, c
<1>2. CASE o.cur # NoPacket
  BY <1>2 DEF Granted
<1> QED BY <1>1, <1>2

LEMMA TypesNotifyAccessGranted == Types /\ NotifyAccessGranted => Types'
<1> SUFFICES ASSUME Types, NotifyAccessGranted PROVE Types'
  OBVIOUS
<1> DEFINE o == Granted(orig)
<1>1. first \in Numbers /\ orig \in Origs /\ rcpt \in Rcpts /\ hist \in Hists /\ Shape(orig, air)
  BY DEF Types, Typed
<1>2. orig.low # <<>> => orig.cur.type = "data"
  BY <1>1 DEF Shape
<1>3. o \in Origs /\ (o.low # <<>> => o.cur.type = "data")
  BY <1>1, <1>2, GrantedTyped
<1>4. /\ first' = first /\ rcpt' = rcpt /\ hist' = hist
      /\ \/ /\ o.cur.type # "data"
            /\ orig' = o /\ air' = IF o.cur = NoPacket THEN Idle ELSE BarFrame
         \/ /\ o.low # <<>>
            /\ orig' = o /\ air' = Rts
         \/ /\ o.cur.type = "data" /\ o.low = <<>>
            /\ \E c \in {NextRetry(o)} :
               \E all \in {Candidates(c, o.cur.msdu)} :
               \E k \in 0 .. Len(all) :
                 orig' = AggregateToAmpdu(c, o.cur.msdu, SubSeq(all, 1, k))
            /\ air' \in {Rts, DataFrame(orig')}
  BY DEF NotifyAccessGranted, Granted
<1> HIDE DEF o
<1>5. o.cur \in Curs
  BY <1>3 DEF Origs
<1>6. CASE o.cur.type # "data" /\ orig' = o /\ air' = IF o.cur = NoPacket THEN Idle ELSE BarFrame
  <2>1. AirTyped(IF o.cur = NoPacket THEN Idle ELSE BarFrame)
        /\ Shape(o, IF o.cur = NoPacket THEN Idle ELSE BarFrame)
    BY <1>3, <1>5, <1>6, CurFacts, AirFacts DEF AirTyped, Shape
  <2> QED BY <1>1, <1>3, <1>4, <1>6, <2>1, TypesCarried
<1>7. CASE o.low # <<>> /\ orig' = o /\ air' = Rts
  <2>1. AirTyped(Rts) /\ Shape(o, Rts)
    BY <1>3, <1>7, DataFrameShape
  <2> QED BY <1>1, <1>3, <1>4, <1>7, <2>1, TypesCarried
<1>8. ASSUME o.cur.type = "data", o.low = <<>>,
             NEW k \in 0 .. Len(Candidates(NextRetry(o), o.cur.msdu)),
             orig' = AggregateToAmpdu(NextRetry(o), o.cur.msdu,
                                      SubSeq(Candidates(NextRetry(o), o.cur.msdu), 1, k)),
             air' \in {Rts, DataFrame(orig')}
      PROVE  Types'
  <2> DEFINE c == NextRetry(o)
             n == o.cur.msdu
             more == SubSeq(Candidates(c, n), 1, k)
             g == AggregateToAmpdu(c, n, more)
  <2>1. c \in Origs /\ c.cur = o.cur /\ n \in Msdus
    BY <1>1, <1>3, <1>5, <1>8, NextRetryTyped, CurFacts
  <2> HIDE DEF c, n
  <2>2. k \in 0 .. Len(Candidates(c, n)) /\ orig' = g
    BY <1>8 DEF c, n
  <2>3. more \in Seq(Msdus)
    BY <2>1, <2>2, CandidatesTyped
  <2> HIDE DEF more
  <2>4. g \in Origs /\ g.cur.type = "data"
    BY <1>1, <1>8, <2>1, <2>3, AggregateToAmpduTyped
  <2> HIDE DEF g
  <2>5. air' \in {Rts, DataFrame(g)}
    BY <1>8, <2>2
  <2>6. \A a \in {Rts, DataFrame(g)} : AirTyped(a) /\ Shape(g, a)
    BY <2>4, DataFrameShape
  <2> QED BY <1>1, <1>4, <2>2, <2>4, <2>5, <2>6, TypesCarried
<1> QED BY <1>4, <1>6, <1>7, <1>8

LEMMA TypesGotCts == Types /\ GotCts => Types'
<1> SUFFICES ASSUME Types, GotCts PROVE Types'
  OBVIOUS
<1>1. /\ first \in Numbers /\ orig \in Origs /\ rcpt \in Rcpts /\ hist \in Hists /\ Shape(orig, air)
      /\ air = Rts /\ air' = DataFrame(orig) /\ UNCHANGED <<first, orig, rcpt, hist>>
  BY DEF Types, Typed, GotCts
<1>2. orig.cur.type = "data"
  BY <1>1, AirFacts DEF Shape
<1>3. AirTyped(DataFrame(orig)) /\ Shape(orig, DataFrame(orig))
  BY <1>1, <1>2, DataFrameShape
<1> QED BY <1>1, <1>3, TypesCarried

\* The request that takes the place of a packet.
LEMMA GiveUpTyped ==
  ASSUME Types, first' = first, rcpt' = rcpt, air' = Idle, GiveUp \/ UNCHANGED <<orig, hist>>
  PROVE  Types'
<1>1. /\ first \in Numbers /\ orig \in Origs /\ rcpt \in Rcpts /\ hist \in Hists /\ Shape(orig, air)
  BY DEF Types, Typed
<1>2. CASE UNCHANGED <<orig, hist>>
  <2>1. AirTyped(Idle) /\ Shape(orig, Idle)
    BY <1>1, IdleShape DEF Shape
  <2> QED BY <1>1, <1>2, <2>1, TypesCarried
<1>3. CASE GiveUp
  <2> DEFINE s == Sn(orig.next)
             o == [orig EXCEPT !.cur = Bar(s), !.low = <<>>]
             h == [hist EXCEPT !.failed = @ + 1, !.left = @ - 1]
  <2>1. s \in Numbers
    BY <1>1, SnNumber, Sizes DEF Origs
  <2>2. orig' = o /\ hist' = h /\ hist.left > 0
    BY <1>3 DEF GiveUp
  <2> HIDE DEF s
  <2>3. o \in Origs /\ o.low = <<>>
    <3>1. Bar(s) \in Curs /\ <<>> \in Seq(Msdus)
      BY <2>1, EmptySeq DEF Curs
    <3> QED BY <1>1, <3>1 DEF Origs
  <2>4. h \in Hists
    <3>1. hist.acked \subseteq Msdus /\ hist.failed + 1 \in Nat /\ hist.left - 1 \in Nat
      BY <1>1, <2>2 DEF Hists
    <3> QED BY <1>1, <3>1 DEF Hists
  <2> HIDE DEF o, h
  <2>5. AirTyped(Idle) /\ Shape(o, Idle)
    BY <2>3, IdleShape
  <2> QED BY <1>1, <2>2, <2>3, <2>4, <2>5, TypesCarried
<1> QED BY <1>2, <1>3

LEMMA TypesMissedCts == Types /\ MissedCts => Types'
BY GiveUpTyped DEF MissedCts

LEMMA TypesMissedAck == Types /\ MissedAck => Types'
BY GiveUpTyped DEF MissedAck

\* An answer: nothing is current, and there is no aggregate.
LEMMA AnsweredTyped ==
  ASSUME first \in Numbers, NEW o \in Origs
  PROVE  LET g == RestartAccessIfNeeded([o EXCEPT !.cur = NoPacket, !.low = <<>>])
         IN g \in Origs /\ g.low = <<>>
<1> DEFINE c == [o EXCEPT !.cur = NoPacket, !.low = <<>>]
<1>1. c \in Origs /\ c.low = <<>>
  <2>1. NoPacket \in Curs /\ <<>> \in Seq(Msdus)
    BY EmptySeq DEF Curs
  <2> QED BY <2>1 DEF Origs
<1> HIDE DEF c
<1>2. RestartAccessIfNeeded(c) \in Origs /\ RestartAccessIfNeeded(c).low = <<>>
  BY <1>1, RestartAccessIfNeededTyped
<1> QED BY <1>2 DEF c

LEMMA TypesGotAck == Types /\ GotAck => Types'
<1> SUFFICES ASSUME Types, GotAck PROVE Types'
  OBVIOUS
<1> DEFINE c == [orig EXCEPT !.cur = NoPacket]
           g == RestartAccessIfNeeded(c)
           h == [hist EXCEPT !.acked = @ \cup {orig.cur.msdu}]
<1>1. /\ first \in Numbers /\ orig \in Origs /\ rcpt \in Rcpts /\ hist \in Hists /\ Shape(orig, air)
      /\ air = Ack /\ air' = Idle /\ UNCHANGED <<first, rcpt>> /\ orig' = g /\ hist' = h
  BY DEF Types, Typed, GotAck
<1>2. orig.cur.type = "data" /\ orig.low = <<>>
  BY <1>1, AirFacts DEF Shape
<1>3. orig.cur.msdu \in Msdus
  BY <1>1, <1>2, CurFacts DEF Origs
<1>4. h \in Hists
  BY <1>1, <1>3 DEF Hists
<1>5. c \in Origs /\ c.low = <<>>
  BY <1>1, <1>2 DEF Origs, Curs
<1> HIDE DEF c, h
<1>6. g \in Origs /\ g.low = <<>>
  BY <1>1, <1>5, RestartAccessIfNeededTyped
<1> HIDE DEF g
<1>7. AirTyped(Idle) /\ Shape(g, Idle)
  BY <1>6, IdleShape
<1> QED BY <1>1, <1>4, <1>6, <1>7, TypesCarried

\* What the block ack does not acknowledge.
Lost(a, s) == Selected(s, {i \in DOMAIN s : ~IsPacketReceived(a, s[i])})

LEMMA LostFacts ==
  ASSUME NEW a, NEW s \in Seq(Msdus)
  PROVE  /\ Lost(a, s) \in Seq(Msdus)
         /\ ToSet(Lost(a, s)) = {n \in ToSet(s) : ~IsPacketReceived(a, n)}
         /\ Sorted(s) => Sorted(Lost(a, s))
<1> DEFINE I == {i \in DOMAIN s : ~IsPacketReceived(a, s[i])}
<1>1. Lost(a, s) = Selected(s, I)
  BY DEF Lost
<1>2. DOMAIN s = 1 .. Len(s) /\ \A x : x \in ToSet(s) <=> \E i \in 1 .. Len(s) : x = s[i]
  BY ToSetFacts
<1>3. \A i \in 1 .. Len(s) : i \in I <=> ~IsPacketReceived(a, s[i])
  BY <1>2
<1> HIDE DEF I
<1>4. \A x : x \in ToSet(Selected(s, I)) <=> \E i \in 1 .. Len(s) : i \in I /\ x = s[i]
  BY SelectedFacts
<1>5. ToSet(Selected(s, I)) = {n \in ToSet(s) : ~IsPacketReceived(a, n)}
  BY <1>2, <1>3, <1>4
<1> QED BY <1>1, <1>5, SelectedFacts

LEMMA TypesGotBlockAck == Types /\ GotBlockAck => Types'
<1> SUFFICES ASSUME Types, GotBlockAck PROVE Types'
  OBVIOUS
<1> DEFINE lost == Lost(air, orig.pkts)
           n == NotifyGotBlockAck(orig, lost)
           g == RestartAccessIfNeeded([n EXCEPT !.cur = NoPacket, !.low = <<>>])
           h == [hist EXCEPT !.acked = @ \cup (ToSet(orig.pkts) \ ToSet(lost))]
<1>1. /\ first \in Numbers /\ orig \in Origs /\ rcpt \in Rcpts /\ hist \in Hists
      /\ air' = Idle /\ UNCHANGED <<first, rcpt>> /\ orig' = g /\ hist' = h
  BY DEF Types, Typed, GotBlockAck, Lost
<1>2. orig.pkts \in Seq(Msdus) /\ ToSet(orig.pkts) \subseteq Msdus
  BY <1>1, ToSetFacts DEF Origs
<1>3. lost \in Seq(Msdus)
  BY <1>2, LostFacts
<1> HIDE DEF lost
<1>4. n \in Origs
  BY <1>1, <1>3, NotifyGotBlockAckTyped
<1> HIDE DEF n
<1>5. g \in Origs /\ g.low = <<>>
  BY <1>1, <1>4, AnsweredTyped
<1>6. h \in Hists
  BY <1>1, <1>2 DEF Hists
<1> HIDE DEF g, h
<1>7. AirTyped(Idle) /\ Shape(g, Idle)
  BY <1>5, IdleShape
<1> QED BY <1>1, <1>5, <1>6, <1>7, TypesCarried

LEMMA TypesMissedBlockAck == Types /\ MissedBlockAck => Types'
<1> SUFFICES ASSUME Types, MissedBlockAck PROVE Types'
  OBVIOUS
<1> DEFINE b == CleanupBuffers(orig)
           c == [b EXCEPT !.low = <<>>]
           s == IF orig.cur.type = "data" THEN Sn(orig.cur.msdu) ELSE orig.cur.start
           g == IF NeedBarRetransmission(c, s) THEN [c EXCEPT !.cur = Bar(s)]
                ELSE RestartAccessIfNeeded([c EXCEPT !.cur = NoPacket])
<1>1. /\ first \in Numbers /\ orig \in Origs /\ rcpt \in Rcpts /\ hist \in Hists
      /\ AirTyped(air) /\ Shape(orig, air)
      /\ air.st = "ba" \/ air = BarFrame \/ air = Ampdu(<<>>, FALSE)
      /\ air' = Idle /\ UNCHANGED <<first, rcpt, hist>> /\ orig' = g
  BY DEF Types, Typed, MissedBlockAck
<1>2. s \in Numbers
  <2>1. orig.cur.type \in {"data", "bar"}
    <3>1. air.st = "ba" \/ air.st = "bar" \/ air.st = "ampdu"
      <4>1. BarFrame.st = "bar" /\ Ampdu(<<>>, FALSE).st = "ampdu"
        BY DEF BarFrame, Ampdu
      <4>2. air.st = "ba" \/ air = BarFrame \/ air = Ampdu(<<>>, FALSE)
        BY <1>1
      <4> QED BY <4>1, <4>2
    <3>2. Shape(orig, air)
      BY <1>1
    <3> HIDE DEF g
    <3> QED BY <3>1, <3>2 DEF Shape
  <2>2. orig.cur \in Curs
    BY <1>1 DEF Origs
  <2>3. orig.cur.type = "data" => orig.cur.msdu \in Int
    BY <2>2, CurFacts, Sizes DEF Msdus
  <2> QED BY <1>1, <2>1, <2>2, <2>3, CurFacts, SnNumber
<1> HIDE DEF s
<1>3. b \in Origs
  BY <1>1, CleanupBuffersTyped
<1> HIDE DEF b
<1>4. c \in Origs /\ c.low = <<>>
  <2>1. <<>> \in Seq(Msdus)
    BY EmptySeq
  <2> QED BY <1>3, <2>1 DEF Origs
<1> HIDE DEF c
<1>5. [c EXCEPT !.cur = Bar(s)] \in Origs /\ [c EXCEPT !.cur = NoPacket] \in Origs
  <2>1. Bar(s) \in Curs /\ NoPacket \in Curs
    BY <1>2 DEF Curs
  <2> QED BY <1>4, <2>1 DEF Origs
<1>6. [c EXCEPT !.cur = Bar(s)].low = <<>> /\ [c EXCEPT !.cur = NoPacket].low = <<>>
  BY <1>4 DEF Origs
<1>7. g \in Origs /\ g.low = <<>>
  BY <1>1, <1>5, <1>6, RestartAccessIfNeededTyped
<1> HIDE DEF g
<1>8. AirTyped(Idle) /\ Shape(g, Idle)
  BY <1>7, IdleShape
<1> QED BY <1>1, <1>7, <1>8, TypesCarried

LEMMA TypesReceiveSingle == Types /\ ReceiveSingle => Types'
<1> SUFFICES ASSUME Types, ReceiveSingle PROVE Types'
  OBVIOUS
<1> DEFINE x == ReceiveMpdu(rcpt, orig.cur.msdu)
           y == ForwardSmaller(x)
           z == ForwardUntilFirstLost(y)
<1>1. /\ first \in Numbers /\ orig \in Origs /\ rcpt \in Rcpts /\ hist \in Hists /\ Shape(orig, air)
      /\ air = Single /\ air' = Ack /\ UNCHANGED <<first, orig, hist>> /\ rcpt' = z
  BY DEF Types, Typed, ReceiveSingle
<1>2. orig.cur.type = "data" /\ orig.low = <<>>
  BY <1>1, AirFacts DEF Shape
<1>3. orig.cur.msdu \in Msdus
  BY <1>1, <1>2, CurFacts DEF Origs
<1>4. x \in Rcpts
  BY <1>1, <1>3, ReceiveMpduTyped
<1> HIDE DEF x
<1>5. y \in Rcpts
  BY <1>4, ForwardSmallerTyped
<1> HIDE DEF y
<1>6. z \in Rcpts
  BY <1>5, ForwardUntilFirstLostTyped
<1> HIDE DEF z
<1>7. AirTyped(Ack) /\ Shape(orig, Ack)
  BY <1>2, AirFacts DEF AirTyped, Shape
<1> QED BY <1>1, <1>6, <1>7, TypesCarried

\* The rest of an A-MPDU.
LEMMA RestTyped ==
  ASSUME Types, air.st = "ampdu", air.rest # <<>>, NEW heard \in BOOLEAN
  PROVE  /\ AirTyped(Ampdu(Tail(air.rest), heard)) /\ Shape(orig, Ampdu(Tail(air.rest), heard))
         /\ Head(air.rest) \in Msdus /\ air.heard \in BOOLEAN
<1>1. air.rest \in Seq(Msdus) /\ Shape(orig, air) /\ air.heard \in BOOLEAN
  BY AirParts DEF Types, Typed
<1>2. Tail(air.rest) \in Seq(Msdus) /\ Head(air.rest) \in Msdus
  BY <1>1, TailFacts
<1>3. AirTyped(Ampdu(Tail(air.rest), heard))
  BY <1>2 DEF AirTyped
<1>4. orig.low # <<>> /\ orig.cur.type = "data"
  BY <1>1 DEF Shape
<1>5. Shape(orig, Ampdu(Tail(air.rest), heard))
  BY <1>4, AirFacts DEF Shape
<1> QED BY <1>1, <1>2, <1>3, <1>5

LEMMA TypesReceiveInAmpdu == ASSUME Types, NEW n \in Msdus, ReceiveInAmpdu(n) PROVE Types'
<1> DEFINE a == Ampdu(Tail(air.rest), TRUE)
           x == ReceiveMpdu(rcpt, n)
<1>1. /\ first \in Numbers /\ orig \in Origs /\ rcpt \in Rcpts /\ hist \in Hists
      /\ air.st = "ampdu" /\ air.rest # <<>> /\ air' = a
      /\ UNCHANGED <<first, orig, hist>> /\ rcpt' = x
  BY DEF Types, Typed, ReceiveInAmpdu
<1>2. x \in Rcpts
  BY <1>1, ReceiveMpduTyped
<1>3. AirTyped(a) /\ Shape(orig, a)
  BY <1>1, RestTyped
<1> HIDE DEF a, x
<1> QED BY <1>1, <1>2, <1>3, TypesCarried

LEMMA TypesLoseInAmpdu == Types /\ LoseInAmpdu => Types'
<1> SUFFICES ASSUME Types, LoseInAmpdu PROVE Types'
  OBVIOUS
<1> DEFINE a == Ampdu(Tail(air.rest), air.heard)
<1>1. /\ first \in Numbers /\ orig \in Origs /\ rcpt \in Rcpts /\ hist \in Hists
      /\ air.st = "ampdu" /\ air.rest # <<>> /\ air' = a
      /\ UNCHANGED <<first, orig, rcpt, hist>>
  BY DEF Types, Typed, LoseInAmpdu
<1>2. air.heard \in BOOLEAN
  BY <1>1, RestTyped
<1>3. AirTyped(a) /\ Shape(orig, a)
  BY <1>1, <1>2, RestTyped
<1> HIDE DEF a
<1> QED BY <1>1, <1>3, TypesCarried

\* A block ack that goes with the current packet.
LEMMA BlockAckTyped ==
  ASSUME NEW o \in Origs, o.cur.type = "bar" \/ o.low # <<>>, o.low # <<>> => o.cur.type = "data",
         NEW s \in Numbers, NEW bits \in SUBSET Numbers
  PROVE  AirTyped(BlockAckFrame(s, bits)) /\ Shape(o, BlockAckFrame(s, bits))
<1>1. AirTyped(BlockAckFrame(s, bits))
  BY DEF AirTyped
<1>2. BlockAckFrame(s, bits).st = "ba"
  BY AirFacts
<1> QED BY <1>1, <1>2 DEF Shape

LEMMA TypesSendBlockAckAfterAmpdu == Types /\ SendBlockAckAfterAmpdu => Types'
<1> SUFFICES ASSUME Types, SendBlockAckAfterAmpdu PROVE Types'
  OBVIOUS
<1> DEFINE bits == FillBlockAckBitmap(rcpt, rcpt.wstart)
           a == BlockAckFrame(rcpt.wstart, bits)
<1>1. /\ first \in Numbers /\ orig \in Origs /\ rcpt \in Rcpts /\ hist \in Hists /\ Shape(orig, air)
      /\ air = Ampdu(<<>>, TRUE) /\ air' = a /\ UNCHANGED <<first, orig, rcpt, hist>>
  BY DEF Types, Typed, SendBlockAckAfterAmpdu
<1>2. bits \in SUBSET Numbers /\ rcpt.wstart \in Numbers
  BY <1>1 DEF FillBlockAckBitmap, Rcpts
<1>3. orig.low # <<>> /\ (orig.low # <<>> => orig.cur.type = "data")
  BY <1>1 DEF Shape, Ampdu
<1> HIDE DEF bits
<1>4. AirTyped(a) /\ Shape(orig, a)
  BY <1>1, <1>2, <1>3, BlockAckTyped
<1> HIDE DEF a
<1> QED BY <1>1, <1>4, TypesCarried

LEMMA TypesReceiveBar == Types /\ ReceiveBar => Types'
<1> SUFFICES ASSUME Types, ReceiveBar PROVE Types'
  OBVIOUS
<1> DEFINE s == orig.cur.start
           c == UpdateWithBlockAckReq(rcpt, s)
           b == [c EXCEPT !.start = s]
           x == IF IsOld(c.start, s) THEN c ELSE ForwardUntilFirstLost(ForwardSmaller(b))
           bits == FillBlockAckBitmap(c, s)
           a == BlockAckFrame(s, bits)
<1>1. /\ first \in Numbers /\ orig \in Origs /\ rcpt \in Rcpts /\ hist \in Hists /\ Shape(orig, air)
      /\ air.st = "bar" /\ air' = a /\ UNCHANGED <<first, orig, hist>> /\ rcpt' = x
  BY AirFacts DEF Types, Typed, ReceiveBar
<1>2. orig.cur.type = "bar" /\ (orig.low # <<>> => orig.cur.type = "data")
  BY <1>1 DEF Shape
<1>3. s \in Numbers
  BY <1>1, <1>2, CurFacts DEF Origs
<1> HIDE DEF s
<1>4. c \in Rcpts
  BY <1>1, <1>3, UpdateWithBlockAckReqTyped
<1> HIDE DEF c
<1>5. b \in Rcpts /\ bits \in SUBSET Numbers
  BY <1>3, <1>4 DEF Rcpts, FillBlockAckBitmap
<1> HIDE DEF b, bits
<1>6. x \in Rcpts
  BY <1>4, <1>5, ForwardSmallerTyped, ForwardUntilFirstLostTyped
<1>7. AirTyped(a) /\ Shape(orig, a)
  BY <1>1, <1>2, <1>3, <1>5, BlockAckTyped
<1> HIDE DEF a, x
<1> QED BY <1>1, <1>6, <1>7, TypesCarried

LEMMA TypesNext == Types /\ [Next]_vars => Types'
<1> SUFFICES ASSUME Types, [Next]_vars PROVE Types'
  OBVIOUS
<1>1. CASE UNCHANGED vars
  BY <1>1 DEF vars, Types, Typed, AirTyped, Shape
<1>2. CASE \E n \in Msdus : ReceiveInAmpdu(n)
  BY <1>2, TypesReceiveInAmpdu
<1> QED BY <1>1, <1>2, TypesNotifyAccessGranted, TypesGotCts, TypesMissedCts, TypesGotAck, TypesMissedAck,
           TypesGotBlockAck, TypesMissedBlockAck, TypesReceiveSingle, TypesLoseInAmpdu,
           TypesSendBlockAckAfterAmpdu, TypesReceiveBar DEF Next

\* Whatever is lost or given up: sequence numbers and packets stay in their ranges.
THEOREM TypeCorrect == Spec => []TypeOK
<1>1. Types => TypeOK
  <2> SUFFICES ASSUME Types PROVE TypeOK
    OBVIOUS
  <2>1. first \in Numbers /\ orig \in Origs /\ rcpt \in Rcpts /\ hist \in Hists /\ AirTyped(air)
    BY DEF Types, Typed
  <2>2. air.st \in {"idle", "rts", "single", "ampdu", "bar", "ack", "ba"}
    BY <2>1, AirParts
  <2> QED BY <2>1, <2>2 DEF TypeOK, Origs, Rcpts, Hists, Curs, Numbers
<1> QED BY <1>1, TypesInit, TypesNext, PTL DEF Spec

-----------------------------------------------------------------------------
(* The two ends *)

\* What the originator keeps in its buffer, what of it is to be sent again, and with the
\* current packet all that it has no answer for.
Kept(o) == ToSet(o.pkts)
Again(o) == ToSet(o.retry)
Mine(o) == Kept(o) \cup {n \in Msdus : o.cur = Data(n)}
Least(o, n) == n \in Kept(o) /\ \A m \in Kept(o) : n <= m

\* A request is for the first packet of the buffer, or for the next new packet.
AsksFor(o) == \E n \in Kept(o) : Least(o, n) /\ o.cur = Bar(Sn(n))
AsksPast(o) == o.cur = Bar(Sn(o.next))

\* The originator: its packets are in order and no more than a window; when it awaits
\* no block ack, those in the buffer are to be sent again.
Queues(o) ==
  /\ Sorted(o.pkts) /\ Sorted(o.retry) /\ Sorted(o.low)
  /\ Again(o) \subseteq Kept(o)
  /\ \A n \in Mine(o) : n < o.next /\ o.next - n <= Window
  /\ o.low = <<>> /\ o.cur.type # "bar" => Kept(o) \subseteq Again(o)
  /\ o.low = <<>> => \A n \in Msdus : o.cur = Data(n) => \A m \in Kept(o) : n < m
  /\ o.low # <<>> => /\ o.cur = Data(o.low[1]) /\ Least(o, o.low[1])
                     /\ Kept(o) = Again(o) \cup ToSet(o.low) /\ Again(o) \cap ToSet(o.low) = {}
  /\ o.cur.type = "bar" => AsksFor(o) \/ AsksPast(o)
  /\ NoWrap => o.start <= Sn(o.next)

\* The recipient has what the originator has sent and has an answer for, but not what
\* was given up before the request that tells it so.
Settled(o, rc, r) ==
  AsksPast(o) \/ \A n \in Msdus : n < o.next /\ n \notin Mine(o) => Has(rc, r, n)

\* The recipient has not heard what is to be sent again and what is still to arrive, but
\* possibly the first packet, which may have been sent on its own without an answer.
Unheard(o, rc, a, w) ==
  /\ \A n \in Again(o) : Bit(rc, w, n) => Least(o, n) /\ o.cur = NoPacket
  /\ AsksFor(o) \/ (o.low # <<>> /\ a.st \in {"ampdu", "ba"}) \/
       \A n \in Kept(o) : Bit(rc, w, n) => Least(o, n)
  /\ \A n \in Kept(o) : n < w /\ Bit(rc, w, n) => Least(o, n)
  /\ a.st = "ampdu" => /\ Sorted(a.rest) /\ ToSet(a.rest) \subseteq ToSet(o.low)
                       /\ \A n \in ToSet(a.rest) : Bit(rc, w, n) => Least(o, n)

\* An answer on the air tells what the recipient has.
Answered(o, rc, a, w, r) ==
  /\ a.st = "ack" => \A n \in Msdus : o.cur = Data(n) => Has(rc, r, n)
  /\ a.st = "ba" => /\ a.bits = FillBlockAckBitmap(rc, a.start)
                    /\ o.low # <<>> => a.start = Sn(w)
                    /\ o.cur.type = "bar" => a.start = o.cur.start
                    /\ AsksPast(o) => w = o.next
                    /\ \A n \in Kept(o) : Least(o, n) /\ o.cur = Bar(Sn(n)) => n <= w

\* With nothing given up: the recipient has passed up all before r, the window of its
\* cache has not left a packet behind, and it has nothing that is to be sent again.
Complete(o, rc, h, w, r) ==
  /\ InTurn(rc, r) /\ ~AsksPast(o)
  /\ \A n \in Mine(o) : w <= n
  /\ \A n \in Again(o) : ~Bit(rc, w, n)
  /\ \A n \in h.acked : Has(rc, r, n)

Synced(o, rc, a, h, w, r) ==
  /\ Queues(o) /\ Recipient(rc, w, r, o.next)
  /\ Settled(o, rc, r) /\ Unheard(o, rc, a, w) /\ Answered(o, rc, a, w, r)
  /\ h.failed = 0 => Complete(o, rc, h, w, r)

\* The requests get through, as in BarsInsisted.
Insisted(h) == h.failed = 0 \/ NoWrap

Good(o, rc, a, h) ==
  /\ Typed(o, rc, a, h)
  /\ Insisted(h) => \E w, r \in 1 .. o.next : Synced(o, rc, a, h, w, r)

LEMMA QueueFacts ==
  ASSUME NEW o \in Origs
  PROVE  /\ o.pkts \in Seq(Msdus) /\ o.retry \in Seq(Msdus) /\ o.low \in Seq(Msdus)
         /\ Kept(o) \subseteq Msdus /\ Again(o) \subseteq Msdus /\ Mine(o) \subseteq Msdus /\ Msdus \subseteq Int
         /\ o.next \in 1 .. MaxMsdus + 1 /\ o.next \in Int /\ o.cur \in Curs
         /\ o.pkts = <<>> <=> Kept(o) = {}
         /\ o.retry = <<>> <=> Again(o) = {}
<1>1. o.pkts \in Seq(Msdus) /\ o.retry \in Seq(Msdus) /\ o.low \in Seq(Msdus)
  BY DEF Origs
<1>2. /\ Kept(o) \subseteq Msdus /\ Again(o) \subseteq Msdus
      /\ o.pkts = <<>> <=> Kept(o) = {}
      /\ o.retry = <<>> <=> Again(o) = {}
  BY <1>1, ToSetFacts DEF Kept, Again
<1>3. Mine(o) \subseteq Msdus
  BY <1>2 DEF Mine
<1> QED BY <1>1, <1>2, <1>3, Sizes DEF Origs, Msdus

\* The first packet of the buffer.
LEMMA FirstIsLeast ==
  ASSUME NEW o \in Origs, Sorted(o.pkts), o.pkts # <<>>
  PROVE  o.pkts[1] \in Msdus /\ Least(o, o.pkts[1])
<1>1. o.pkts \in Seq(Msdus)
  BY DEF Origs
<1> QED BY <1>1, SortedFacts, TailFacts DEF Least, Kept

\* Before the window of the recipient starts, nothing is missing.
LEMMA Reached ==
  ASSUME NEW o \in Origs, NEW rc, NEW w, NEW r \in 1 .. o.next, Recipient(rc, w, r, o.next),
         Settled(o, rc, r), ~AsksPast(o),
         NEW n \in 1 .. o.next, \A m \in Mine(o) : n <= m
  PROVE  n <= r
<1> SUFFICES ASSUME r < n PROVE FALSE
  BY QueueFacts
<1>1. r \in Msdus /\ r < o.next /\ r \notin Mine(o)
  BY QueueFacts, Sizes DEF Msdus
<1>2. Has(rc, r, r)
  BY <1>1 DEF Settled
<1> QED BY <1>2, QueueFacts DEF Has, Recipient

\* The same packets in the same places, but possibly another start of the window.
Alike(o, c) ==
  /\ c \in Origs /\ Kept(c) = Kept(o) /\ Again(c) = Again(o)
  /\ c.cur = o.cur /\ c.low = o.low /\ c.next = o.next
  /\ Sorted(c.pkts) /\ Sorted(c.retry) /\ (NoWrap => c.start <= Sn(c.next))

LEMMA AlikeSynced ==
  ASSUME NEW o, NEW c, NEW rc, NEW a, NEW h, NEW w, NEW r,
         Alike(o, c), Synced(o, rc, a, h, w, r)
  PROVE  Synced(c, rc, a, h, w, r)
<1>1. /\ Kept(c) = Kept(o) /\ Again(c) = Again(o)
      /\ c.cur = o.cur /\ c.low = o.low /\ c.next = o.next
      /\ Sorted(c.pkts) /\ Sorted(c.retry) /\ (NoWrap => c.start <= Sn(c.next))
  BY DEF Alike
<1>2. Mine(c) = Mine(o) /\ (AsksPast(c) <=> AsksPast(o)) /\ \A n : Least(c, n) <=> Least(o, n)
  BY <1>1 DEF Mine, AsksPast, Least
<1>3. AsksFor(c) <=> AsksFor(o)
  BY <1>1, <1>2 DEF AsksFor
<1>4. Queues(c)
  BY <1>1, <1>2, <1>3, Zenon DEF Synced, Queues
<1>5. Settled(c, rc, r)
  BY <1>1, <1>2, Zenon DEF Synced, Settled
<1>6. Unheard(c, rc, a, w)
  BY <1>1, <1>2, <1>3, Zenon DEF Synced, Unheard
<1>7. Answered(c, rc, a, w, r)
  BY <1>1, <1>2, Zenon DEF Synced, Answered
<1>8. h.failed = 0 => Complete(c, rc, h, w, r)
  BY <1>1, <1>2, Zenon DEF Synced, Complete
<1> QED BY <1>1, <1>4, <1>5, <1>6, <1>7, <1>8 DEF Synced

\* The numbers of earlier packets are less, as long as the numbers do not come round.
LEMMA StartBelow ==
  ASSUME first \in Numbers, NEW n \in Msdus, NEW next \in 1 .. MaxMsdus + 1, n < next, NoWrap
  PROVE  Sn(n) <= Sn(next)
<1>1. n \in 1 .. MaxMsdus + 1
  BY Sizes DEF Msdus
<1>2. Sn(n) = first + n - 1 /\ Sn(next) = first + next - 1
  BY <1>1, SnPlain DEF NoWrap
<1> QED BY <1>1, <1>2, Sizes DEF Numbers

LEMMA CleanupAlike ==
  ASSUME first \in Numbers, NEW o \in Origs, Queues(o)
  PROVE  Alike(o, CleanupBuffers(o))
<1> DEFINE c == CleanupBuffers(o)
<1>1. /\ c \in Origs /\ c.next = o.next /\ c.pkts = o.pkts /\ c.retry = o.retry
      /\ c.cur = o.cur /\ c.low = o.low
      /\ c.start = IF o.pkts = <<>> THEN o.start ELSE Sn(o.pkts[1])
  BY CleanupBuffersTyped
<1> HIDE DEF c
<1>2. NoWrap => c.start <= Sn(o.next)
  <2>1. CASE o.pkts = <<>>
    BY <1>1, <2>1 DEF Queues
  <2>2. CASE o.pkts # <<>>
    <3>1. o.pkts[1] \in Msdus /\ o.pkts[1] \in Kept(o)
      BY <2>2, FirstIsLeast DEF Queues, Least
    <3>2. o.pkts[1] < o.next
      BY <3>1 DEF Queues, Mine
    <3> QED BY <1>1, <2>2, <3>1, <3>2, StartBelow, QueueFacts
  <2> QED BY <2>1, <2>2
<1> QED BY <1>1, <1>2 DEF Alike, Kept, Again, Queues, c

LEMMA RestartAlike ==
  ASSUME first \in Numbers, NEW o \in Origs, Queues(o)
  PROVE  Alike(o, RestartAccessIfNeeded(o))
<1>1. Alike(o, o)
  BY DEF Alike, Queues
<1> QED BY <1>1, CleanupAlike DEF RestartAccessIfNeeded

\* The search for the next packet to be sent again discards none: they are a window.
LEMMA NextRetryAlike ==
  ASSUME first \in Numbers, NEW o \in Origs, Queues(o)
  PROVE  Alike(o, NextRetry(o))
<1> DEFINE b == CleanupBuffers(o)
           S == {n \in Msdus : IsOld(b.start, Sn(n))}
           old == ToSet(SubSeq(b.retry, 1, Leading(b.retry, S)))
           left == Without(b.retry, old)
           pkts == Without(b.pkts, old)
           beyond == left # <<>> /\ Sn(left[1]) > (b.start + Window - 1) % SeqSpace
           start == IF beyond THEN Sn(left[1]) ELSE b.start
<1>1. Alike(o, b)
  BY CleanupAlike
<1>2. /\ b \in Origs /\ b.pkts = o.pkts /\ b.retry = o.retry
      /\ b.start = IF o.pkts = <<>> THEN o.start ELSE Sn(o.pkts[1])
  BY CleanupBuffersTyped
<1>3. NextRetry(o) = [b EXCEPT !.retry = left, !.pkts = Without(@, old),
                               !.start = IF beyond THEN Sn(left[1]) ELSE @]
  BY DEF NextRetry
<1>4. NextRetry(o) \in Origs
  BY NextRetryTyped
<1> HIDE DEF b
<1>5. ASSUME NEW n \in Again(o) PROVE ~IsOld(b.start, Sn(n))
  <2>1. n \in Kept(o)
    BY DEF Queues
  <2>2. o.pkts # <<>>
    BY <2>1, QueueFacts
  <2> DEFINE m == o.pkts[1]
  <2>3. m \in Msdus /\ Least(o, m)
    BY <2>2, FirstIsLeast DEF Queues
  <2>4. b.start = Sn(m)
    BY <1>2, <2>2
  <2> HIDE DEF m
  <2>5. m <= n /\ n < o.next /\ o.next - m <= Window /\ m \in Int /\ n \in Int /\ o.next \in Int
    BY <2>1, <2>3, QueueFacts DEF Queues, Mine, Least
  <2>6. n - m < Half /\ m - n <= Half
    BY <2>5, Sizes
  <2> QED BY <2>4, <2>5, <2>6, OldIsLess
<1>6. old = {}
  <2>1. o.retry \in Seq(Msdus) /\ \A x : x \in Again(o) <=> \E i \in 1 .. Len(o.retry) : x = o.retry[i]
    BY QueueFacts, ToSetFacts DEF Again
  <2>2. Len(o.retry) \in Nat
    BY <2>1, ToSetFacts
  <2>3. Leading(o.retry, S) \in 0 .. Len(o.retry) /\ \A i \in 1 .. Leading(o.retry, S) : o.retry[i] \in S
    BY <2>1, LeadingFacts
  <2>4. \A i \in 1 .. Len(o.retry) : o.retry[i] \notin S
    BY <1>5, <2>1
  <2> HIDE DEF S
  <2>5. Leading(o.retry, S) = 0
    <3> SUFFICES ASSUME Leading(o.retry, S) # 0 PROVE FALSE
      OBVIOUS
    <3>1. 1 \in 1 .. Leading(o.retry, S) /\ 1 \in 1 .. Len(o.retry)
      BY <2>2, <2>3
    <3> QED BY <2>3, <2>4, <3>1
  <2>6. SubSeq(o.retry, 1, 0) = <<>>
    BY <2>1, <2>2
  <2>7. ToSet(<<>>) = {}
    BY DEF ToSet
  <2> QED BY <1>2, <2>5, <2>6, <2>7
<1> HIDE DEF old, S
<1>7. /\ left \in Seq(Msdus) /\ ToSet(left) = Again(o) /\ Sorted(left)
      /\ ToSet(pkts) = Kept(o) /\ Sorted(pkts)
  <2>1. /\ o.retry \in Seq(Msdus) /\ o.pkts \in Seq(Msdus) /\ Sorted(o.retry) /\ Sorted(o.pkts)
        /\ left = Without(o.retry, {}) /\ pkts = Without(o.pkts, {})
    BY <1>2, <1>6, QueueFacts DEF Queues
  <2> HIDE DEF left, pkts
  <2>2. left \in Seq(Msdus) /\ ToSet(left) = ToSet(o.retry) \ {} /\ Sorted(left)
    BY <2>1, WithoutFacts
  <2>3. ToSet(pkts) = ToSet(o.pkts) \ {} /\ Sorted(pkts)
    BY <2>1, WithoutFacts
  <2> QED BY <2>2, <2>3 DEF Kept, Again
<1>8. NoWrap => start <= Sn(o.next)
  <2>1. NoWrap => b.start <= Sn(o.next)
    BY <1>1 DEF Alike
  <2>2. CASE left # <<>>
    <3>1. left[1] \in Again(o)
      BY <1>7, <2>2, ToSetFacts
    <3>2. left[1] \in Msdus /\ left[1] < o.next
      BY <3>1, QueueFacts DEF Queues, Mine
    <3> QED BY <2>1, <3>2, StartBelow, QueueFacts
  <2>3. CASE left = <<>>
    BY <2>1, <2>3
  <2> QED BY <2>2, <2>3
<1> HIDE DEF left
<1>9. LET c == NextRetry(o)
      IN /\ c.retry = left /\ c.pkts = pkts /\ c.start = start
         /\ c.cur = b.cur /\ c.low = b.low /\ c.next = b.next
  BY <1>2, <1>3 DEF Origs
<1> HIDE DEF pkts, start
<1> QED BY <1>1, <1>4, <1>7, <1>8, <1>9 DEF Alike, Kept, Again

\* More packets may have been sent.
LEMMA RecipientGrows ==
  ASSUME NEW rc \in Rcpts, NEW w, NEW r, NEW next \in Int, NEW next2 \in Int, w \in Int, r \in Int,
         Recipient(rc, w, r, next), next <= next2, next2 - w <= 2 * Window
  PROVE  Recipient(rc, w, r, next2)
<1>1. rc.buffer \in Seq(Msdus) /\ Held(rc) \subseteq Int
  BY ToSetFacts, Sizes DEF Rcpts, Held, Msdus
<1>2. Windows(w, r, next2)
  BY Sizes DEF Recipient, Stored, Windows
<1>3. \A n \in Held(rc) : r <= n /\ n < next2 /\ n < w + Window
  BY <1>1 DEF Recipient, Stored
<1> QED BY <1>2, <1>3 DEF Recipient, Stored

\* GetNextPacket takes the first packet that is to be sent again, or a new one.
LEMMA GetNextPacketSynced ==
  ASSUME first \in Numbers, NEW o \in Origs, NEW rc \in Rcpts, NEW h \in Hists,
         NEW w \in 1 .. o.next, NEW r \in 1 .. o.next, Synced(o, rc, Idle, h, w, r),
         o.cur = NoPacket, o.low = <<>>
  PROVE  LET g == GetNextPacket(o)
         IN o.next <= g.next /\ Synced(g, rc, Idle, h, w, r)
<1> DEFINE g == GetNextPacket(o)
<1>1. /\ o.pkts \in Seq(Msdus) /\ o.retry \in Seq(Msdus) /\ Msdus \subseteq Int
      /\ Kept(o) \subseteq Msdus /\ Again(o) \subseteq Msdus
      /\ o.next \in 1 .. MaxMsdus + 1 /\ o.next \in Int /\ w \in Int /\ r \in Int
      /\ Queues(o) /\ Recipient(rc, w, r, o.next) /\ Settled(o, rc, r)
      /\ Unheard(o, rc, Idle, w) /\ (h.failed = 0 => Complete(o, rc, h, w, r))
  BY QueueFacts DEF Synced
<1>2. o.cur.type = "none" /\ ~AsksPast(o) /\ ~AsksFor(o) /\ \A n : o.cur # Data(n)
  BY PacketFacts DEF AsksPast, AsksFor
<1>3. Kept(o) = Again(o) /\ Mine(o) = Kept(o)
  BY <1>1, <1>2 DEF Queues, Mine
<1>4. Idle.st = "idle"
  BY AirFacts
<1>5. g \in Origs /\ g.low = <<>>
  BY GetNextPacketTyped
<1>6. CASE o.retry # <<>>
  <2> DEFINE n == o.retry[1]
  <2>1. /\ n \in Msdus /\ n \in Again(o) /\ Again(o) = {n} \cup ToSet(Tail(o.retry))
        /\ Sorted(Tail(o.retry)) /\ \A m \in ToSet(Tail(o.retry)) : n < m
    BY <1>1, <1>6, TailFacts DEF Queues, Again
  <2>2. /\ g.cur = Data(n) /\ g.retry = Tail(o.retry) /\ g.pkts = Without(o.pkts, {n})
        /\ g.next = o.next /\ g.start = o.start
    BY <1>6 DEF GetNextPacket, Origs
  <2> HIDE DEF n, g
  <2>3. Kept(g) = Kept(o) \ {n} /\ Sorted(g.pkts)
    BY <1>1, <2>2, WithoutFacts DEF Kept, Queues
  <2>4. Again(g) = Again(o) \ {n} /\ \A m \in Again(g) : n < m
    BY <1>1, <2>1, <2>2 DEF Again
  <2>5. g.cur.type = "data" /\ ~AsksPast(g) /\ ~AsksFor(g) /\ \A m : g.cur = Data(m) <=> m = n
    BY <2>2, PacketFacts DEF AsksPast, AsksFor
  <2>6. Mine(g) = Mine(o)
    BY <1>3, <2>1, <2>3, <2>5 DEF Mine
  <2>7. Queues(g)
    <3>1. \A m \in Mine(g) : m < g.next /\ g.next - m <= Window
      BY <1>1, <2>2, <2>6 DEF Queues
    <3>2. Sorted(g.retry) /\ Sorted(g.low)
      BY <1>5, <2>1, <2>2 DEF Sorted
    <3>3. NoWrap => g.start <= Sn(g.next)
      BY <1>1, <2>2 DEF Queues
    <3> QED BY <1>3, <1>5, <2>3, <2>4, <2>5, <3>1, <3>2, <3>3 DEF Queues
  <2>8. Settled(g, rc, r)
    BY <1>1, <1>2, <2>2, <2>6 DEF Settled
  <2>9. ASSUME NEW m \in Again(g) PROVE ~Bit(rc, w, m)
    <3>1. m \in Again(o) /\ n \in Kept(o) /\ n < m /\ n \in Int /\ m \in Int
      BY <1>1, <1>3, <2>1, <2>4
    <3>2. ~Least(o, m)
      BY <3>1 DEF Least
    <3> QED BY <1>1, <3>1, <3>2 DEF Unheard
  <2>10. Unheard(g, rc, Idle, w)
    BY <1>3, <1>4, <2>3, <2>4, <2>9 DEF Unheard
  <2>11. h.failed = 0 => Complete(g, rc, h, w, r)
    BY <1>1, <2>4, <2>5, <2>6 DEF Complete
  <2>12. Synced(g, rc, Idle, h, w, r)
    BY <1>1, <1>4, <2>2, <2>7, <2>8, <2>10, <2>11 DEF Synced, Answered
  <2> QED BY <1>1, <2>2, <2>12 DEF g
<1>7. CASE o.retry = <<>> /\ o.next <= MaxMsdus
  <2> DEFINE n == o.next
  <2>1. n \in Msdus /\ n \in Int /\ Kept(o) = {} /\ Again(o) = {}
    BY <1>1, <1>3, <1>7, QueueFacts DEF Msdus
  <2>2. /\ g.cur = Data(n) /\ g.retry = o.retry /\ g.pkts = o.pkts
        /\ g.next = n + 1 /\ g.start = o.start
    BY <1>7 DEF GetNextPacket, Origs
  <2> HIDE DEF g
  <2>3. Kept(g) = {} /\ Again(g) = {} /\ Sorted(g.pkts) /\ Sorted(g.retry) /\ Sorted(g.low)
    BY <1>1, <1>5, <2>1, <2>2 DEF Kept, Again, Queues, Sorted
  <2>4. g.cur.type = "data" /\ ~AsksPast(g) /\ ~AsksFor(g) /\ \A m : g.cur = Data(m) <=> m = n
    BY <2>2, PacketFacts DEF AsksPast, AsksFor
  <2>5. Mine(g) = {n} /\ Mine(o) = {}
    BY <1>3, <2>1, <2>3, <2>4 DEF Mine
  <2>6. n <= r
    <3>1. n \in 1 .. o.next
      BY <1>1
    <3> QED BY <1>1, <1>2, <2>5, <3>1, Reached
  <2>7. n + 1 - w <= 2 * Window /\ w <= n
    BY <1>1, <2>1, <2>6, Sizes DEF Recipient, Stored, Windows
  <2>8. Queues(g)
    <3>1. \A m \in Mine(g) : m < g.next /\ g.next - m <= Window
      BY <2>1, <2>2, <2>5, Sizes
    <3>2. NoWrap => g.start <= Sn(g.next)
      <4> SUFFICES ASSUME NoWrap PROVE g.start <= Sn(g.next)
        OBVIOUS
      <4>1. n + 1 \in 1 .. MaxMsdus + 1 /\ n < n + 1
        BY <1>1, <1>7, <2>1, Sizes
      <4>2. Sn(n) <= Sn(n + 1)
        BY <2>1, <4>1, StartBelow
      <4>3. o.start <= Sn(n)
        BY <1>1 DEF Queues
      <4>4. o.start \in Int /\ Sn(n) \in Int /\ Sn(n + 1) \in Int
        BY <2>1, <4>1, SnNumber, Sizes DEF Origs, Numbers
      <4> QED BY <2>2, <4>2, <4>3, <4>4
    <3> QED BY <1>5, <2>3, <2>4, <3>1, <3>2 DEF Queues
  <2>9. Settled(g, rc, r)
    BY <1>1, <1>2, <2>1, <2>2, <2>5 DEF Settled
  <2>10. Unheard(g, rc, Idle, w)
    BY <1>4, <2>3 DEF Unheard
  <2>11. h.failed = 0 => Complete(g, rc, h, w, r)
    BY <1>1, <2>3, <2>4, <2>5, <2>7 DEF Complete
  <2>12. Recipient(rc, w, r, g.next)
    BY <1>1, <2>1, <2>2, <2>7, RecipientGrows
  <2>13. Synced(g, rc, Idle, h, w, r)
    BY <1>1, <1>4, <2>2, <2>8, <2>9, <2>10, <2>11, <2>12 DEF Synced, Answered
  <2> QED BY <2>1, <2>2, <2>13 DEF g
<1>8. CASE o.retry = <<>> /\ ~(o.next <= MaxMsdus)
  <2>1. g = o
    BY <1>8 DEF GetNextPacket
  <2> QED BY <1>1, <2>1
<1> QED BY <1>6, <1>7, <1>8

LEMMA GrantedSynced ==
  ASSUME first \in Numbers, NEW o \in Origs, NEW rc \in Rcpts, NEW h \in Hists,
         NEW w \in 1 .. o.next, NEW r \in 1 .. o.next, Synced(o, rc, Idle, h, w, r),
         o.low # <<>> => o.cur.type = "data"
  PROVE  o.next <= Granted(o).next /\ Synced(Granted(o), rc, Idle, h, w, r)
<1>1. CASE o.cur = NoPacket
  <2> DEFINE c == NextRetry(o)
  <2>1. Alike(o, c)
    BY NextRetryAlike DEF Synced
  <2> HIDE DEF c
  <2>2. Synced(c, rc, Idle, h, w, r)
    BY <2>1, AlikeSynced
  <2>3. c \in Origs /\ c.cur = o.cur /\ c.low = o.low /\ c.next = o.next /\ o.low = <<>>
    BY <1>1, <2>1, PacketFacts DEF Alike
  <2>4. c.next <= GetNextPacket(c).next /\ Synced(GetNextPacket(c), rc, Idle, h, w, r)
    BY <1>1, <2>2, <2>3, GetNextPacketSynced
  <2> QED BY <1>1, <2>3, <2>4 DEF Granted, c
<1>2. CASE o.cur # NoPacket
  BY <1>2, QueueFacts DEF Granted
<1> QED BY <1>1, <1>2

\* The packets after n that fit in a window: some that are to be sent again, and new ones
\* without a gap.
LEMMA CandidatesFacts ==
  ASSUME first \in Numbers, NEW o \in Origs, Queues(o), NEW n \in Msdus, o.cur = Data(n), o.low = <<>>,
         NEW k \in 0 .. Len(Candidates(o, n))
  PROVE  LET more == SubSeq(Candidates(o, n), 1, k)
         IN /\ more \in Seq(Msdus) /\ Sorted(more)
            /\ \A m \in ToSet(more) : n < m /\ m < n + Window /\ (m < o.next => m \in Again(o))
            /\ \A m \in ToSet(more) : \A x \in Msdus : o.next <= x /\ x <= m => x \in ToSet(more)
<1> DEFINE all == o.retry \o News(o)
           S == {m \in Msdus : IsInWindow(Sn(m), Sn(n), Window)}
           j == Leading(all, S)
           some == Candidates(o, n)
           more == SubSeq(some, 1, k)
<1>1. /\ o.retry \in Seq(Msdus) /\ Msdus \subseteq Int /\ n \in Int /\ o.next \in Int /\ o.next \in 1 .. MaxMsdus + 1
      /\ Kept(o) \subseteq Msdus /\ Again(o) \subseteq Kept(o) /\ Sorted(o.retry)
      /\ n < o.next /\ o.next - n <= Window /\ n \in Mine(o)
      /\ \A m \in Again(o) : n < m /\ m < o.next
  BY QueueFacts DEF Queues, Mine
<1>2. News(o) \in Seq(Msdus) /\ all \in Seq(Msdus) /\ more \in Seq(Msdus) /\ some \in Seq(Msdus)
  BY CandidatesTyped
<1>3. some = SubSeq(all, 1, j)
  BY DEF Candidates, News
<1>4. /\ Len(News(o)) = MaxMsdus - o.next + 1
      /\ \A i \in 1 .. MaxMsdus - o.next + 1 : News(o)[i] = o.next + i - 1
  <2> DEFINE c == MaxMsdus - o.next + 1
  <2>1. c \in Nat
    BY <1>1, Sizes
  <2>2. News(o) = [i \in 1 .. c |-> o.next + i - 1]
    BY DEF News
  <2> HIDE DEF c
  <2>3. Len(News(o)) = c /\ \A i \in 1 .. c : News(o)[i] = o.next + i - 1
    BY <2>1, <2>2
  <2> QED BY <2>3 DEF c
<1>5. Sorted(News(o)) /\ \A x : x \in ToSet(News(o)) <=> x \in Msdus /\ o.next <= x
  <2>1. DOMAIN News(o) = 1 .. MaxMsdus - o.next + 1
    BY DEF News
  <2>2. Sorted(News(o))
    BY <1>1, <1>4, <2>1, Sizes DEF Sorted
  <2>3. \A x : x \in ToSet(News(o)) <=> \E i \in 1 .. MaxMsdus - o.next + 1 : x = o.next + i - 1
    <3> DEFINE s == News(o)
    <3>1. s \in Seq(Msdus)
      BY <1>2
    <3>2. Len(s) = MaxMsdus - o.next + 1 /\ \A i \in 1 .. MaxMsdus - o.next + 1 : s[i] = o.next + i - 1
      BY <1>4
    <3> HIDE DEF s
    <3>3. \A x : x \in ToSet(s) <=> \E i \in 1 .. Len(s) : x = s[i]
      BY <3>1, ToSetFacts
    <3>4. \A x : x \in ToSet(s) <=> \E i \in 1 .. MaxMsdus - o.next + 1 : x = o.next + i - 1
      BY <3>2, <3>3
    <3> QED BY <3>4 DEF s
  <2>4. ASSUME NEW x \in Msdus, o.next <= x PROVE x \in ToSet(News(o))
    <3>1. x \in Int /\ x <= MaxMsdus
      BY Sizes DEF Msdus
    <3>2. o.next \in Int /\ MaxMsdus \in Int
      BY <1>1, Sizes
    <3>3. x - o.next + 1 \in 1 .. MaxMsdus - o.next + 1
      BY <2>4, <3>1, <3>2
    <3>4. x = o.next + (x - o.next + 1) - 1
      BY <3>1, <3>2
    <3> QED BY <2>3, <3>3, <3>4
  <2>5. ASSUME NEW x \in ToSet(News(o)) PROVE x \in Msdus /\ o.next <= x
    <3>1. PICK i \in 1 .. MaxMsdus - o.next + 1 : x = o.next + i - 1
      BY <2>3
    <3> QED BY <1>1, <3>1, Sizes DEF Msdus
  <2> QED BY <2>2, <2>4, <2>5
<1>6. Sorted(all) /\ ToSet(all) = Again(o) \cup ToSet(News(o))
  <2>1. \A x \in ToSet(o.retry), y \in ToSet(News(o)) : x < y
    <3> SUFFICES ASSUME NEW x \in ToSet(o.retry), NEW y \in ToSet(News(o)) PROVE x < y
      OBVIOUS
    <3>1. x \in Again(o) /\ x \in Int /\ y \in Int /\ o.next <= y
      BY <1>1, <1>5 DEF Again
    <3> QED BY <1>1, <3>1
  <2> QED BY <1>1, <1>2, <1>5, <2>1, ConcatFacts DEF Again
<1> HIDE DEF all, S
<1>7. /\ Len(all) \in Nat /\ j \in 0 .. Len(all) /\ (\A i \in 1 .. j : all[i] \in S)
      /\ \A x : x \in ToSet(all) <=> \E i \in 1 .. Len(all) : x = all[i]
  BY <1>2, LeadingFacts, ToSetFacts
<1> HIDE DEF j, some, more
<1>8. Len(some) = j /\ Sorted(some) /\ \A i \in 1 .. j : some[i] = all[i]
  <2>1. 1 \in Nat /\ 1 <= 1 /\ j \in Nat /\ j <= Len(all)
    BY <1>7
  <2>2. /\ Len(SubSeq(all, 1, j)) = IF 1 <= j THEN j - 1 + 1 ELSE 0
        /\ \A i \in 1 .. j - 1 + 1 : SubSeq(all, 1, j)[i] = all[1 + i - 1]
        /\ Sorted(all) => Sorted(SubSeq(all, 1, j))
    BY <1>2, <2>1, SubSeqFacts
  <2> QED BY <1>3, <1>6, <2>1, <2>2
<1>9. Sorted(more) /\ k \in 0 .. j /\ \A x : x \in ToSet(more) <=> \E i \in 1 .. k : x = all[i]
  <2>1. 1 \in Nat /\ 1 <= 1 /\ k \in Nat /\ k <= Len(some) /\ k \in 0 .. j
    BY <1>7, <1>8 DEF some
  <2>2. /\ \A x : x \in ToSet(SubSeq(some, 1, k)) <=> \E i \in 1 .. k : x = some[i]
        /\ Sorted(some) => Sorted(SubSeq(some, 1, k))
    BY <1>2, <2>1, SubSeqFacts
  <2>3. \A i \in 1 .. k : some[i] = all[i]
    BY <1>7, <1>8, <2>1
  <2> QED BY <1>8, <2>1, <2>2, <2>3 DEF more
<1>10. ASSUME NEW m \in ToSet(more) PROVE m \in ToSet(all)
  BY <1>7, <1>9
<1>11. ASSUME NEW m \in ToSet(more), NEW x \in ToSet(all), x <= m PROVE x \in ToSet(more)
  <2>1. PICK i \in 1 .. k : m = all[i]
    BY <1>9
  <2>2. PICK i2 \in 1 .. Len(all) : x = all[i2]
    BY <1>7
  <2>3. i \in DOMAIN all /\ i2 \in DOMAIN all /\ m \in Int /\ x \in Int /\ i \in Int /\ i2 \in Int /\ k \in Int
    <3>1. DOMAIN all = 1 .. Len(all) /\ i \in 1 .. Len(all) /\ k \in Int
      BY <1>2, <1>7, <1>9, ToSetFacts
    <3>2. m \in Msdus /\ x \in Msdus
      BY <1>2, <1>10, ToSetFacts
    <3> QED BY <1>1, <3>1, <3>2
  <2>4. ~(i < i2)
    BY <1>6, <1>11, <2>1, <2>2, <2>3 DEF Sorted
  <2>5. i2 \in 1 .. k
    BY <2>1, <2>2, <2>3, <2>4
  <2> QED BY <1>9, <2>2, <2>5
<1>12. ASSUME NEW m \in ToSet(more) PROVE n < m /\ m < n + Window /\ (m < o.next => m \in Again(o))
  <2>1. m \in Again(o) \/ (m \in Msdus /\ o.next <= m)
    BY <1>5, <1>6, <1>10
  <2>2. m \in Int
    BY <1>1, <2>1
  <2>3. m < n + Window
    <3> SUFFICES ASSUME n + Window <= m PROVE FALSE
      BY <1>1, <2>2, Sizes
    <3>1. m \in Msdus /\ o.next <= n + Window /\ n + Window \in Int
      BY <1>1, <2>1, <2>2, Sizes
    <3>2. n + Window \in Msdus
      BY <1>1, <3>1, Sizes DEF Msdus
    <3>3. n + Window \in ToSet(all)
      BY <1>5, <1>6, <3>1, <3>2
    <3>4. n + Window \in ToSet(more)
      BY <1>11, <3>3
    <3>5. n + Window \in S
      BY <1>7, <1>9, <3>4
    <3>6. IsInWindow(Sn(n + Window), Sn(n), Window)
      BY <3>5 DEF S
    <3>7. n + Window - n < SeqSpace /\ n - (n + Window) <= SeqSpace - Window /\ ~(n + Window < n + Window)
      BY <1>1, Sizes
    <3> QED BY <1>1, <3>1, <3>6, <3>7, InWindowIsBetween, Sizes
  <2> QED BY <1>1, <2>1, <2>2, <2>3
<1>13. ASSUME NEW m \in ToSet(more), NEW x \in Msdus, o.next <= x, x <= m PROVE x \in ToSet(more)
  BY <1>5, <1>6, <1>11, <1>13
<1> QED BY <1>2, <1>9, <1>12, <1>13 DEF more, some

\* AggregateToAmpdu: the packets of the A-MPDU go to the buffer and out of what is to be
\* sent again, and the new ones among them are not known to the recipient.
LEMMA AggregateSynced ==
  ASSUME first \in Numbers, NEW o \in Origs, NEW rc \in Rcpts, NEW h \in Hists,
         NEW w \in 1 .. o.next, NEW r \in 1 .. o.next, Synced(o, rc, Idle, h, w, r),
         NEW n \in Msdus, o.cur = Data(n), o.low = <<>>,
         NEW more \in Seq(Msdus), Sorted(more), more # <<>>,
         \A m \in ToSet(more) : n < m /\ m < n + Window /\ (m < o.next => m \in Again(o)),
         \A m \in ToSet(more) : \A x \in Msdus : o.next <= x /\ x <= m => x \in ToSet(more)
  PROVE  LET g == AggregateToAmpdu(o, n, more)
         IN o.next <= g.next /\ Synced(g, rc, Idle, h, w, r)
<1> DEFINE g == AggregateToAmpdu(o, n, more)
           M == ToSet(more)
           N == g.next
<1>1. /\ o.pkts \in Seq(Msdus) /\ o.retry \in Seq(Msdus) /\ Msdus \subseteq Int
      /\ Kept(o) \subseteq Msdus /\ Again(o) \subseteq Msdus /\ M \subseteq Msdus
      /\ o.next \in 1 .. MaxMsdus + 1 /\ o.next \in Int /\ w \in Int /\ r \in Int /\ n \in Int
      /\ Queues(o) /\ Recipient(rc, w, r, o.next) /\ Settled(o, rc, r)
      /\ Unheard(o, rc, Idle, w) /\ (h.failed = 0 => Complete(o, rc, h, w, r))
  BY QueueFacts, ToSetFacts DEF Synced
<1>2. o.cur.type = "data" /\ ~AsksPast(o) /\ ~AsksFor(o) /\ o.cur # NoPacket /\ \A m : o.cur = Data(m) <=> m = n
  BY PacketFacts DEF AsksPast, AsksFor
<1>3. Kept(o) = Again(o) /\ Mine(o) = Kept(o) \cup {n} /\ n < o.next /\ o.next - n <= Window
      /\ \A m \in Kept(o) : n < m /\ m < o.next
  BY <1>1, <1>2 DEF Queues, Mine
<1>4. Idle.st = "idle"
  BY AirFacts
<1>5. /\ g.low = <<n>> \o more /\ g.retry = Without(o.retry, M)
      /\ g.pkts = InsertAll(Without(o.pkts, M), <<n>> \o more)
      /\ g.next = (IF Last(more) < o.next THEN o.next ELSE Last(more) + 1)
      /\ g.cur = o.cur /\ g.start = o.start /\ g \in Origs
  BY AggregateToAmpduTyped DEF AggregateToAmpdu, Origs
<1> HIDE DEF g
<1>6. \A m \in M : m \in Int /\ n < m /\ n <= m /\ m < n + Window
  <2> SUFFICES ASSUME NEW m \in M PROVE m \in Int /\ n < m /\ n <= m /\ m < n + Window
    OBVIOUS
  <2>1. m \in Int /\ n < m /\ m < n + Window
    BY <1>1
  <2> QED BY <1>1, <2>1
<1> DEFINE low == <<n>> \o more
<1>7. /\ low \in Seq(Msdus) /\ low # <<>> /\ low[1] = n /\ ToSet(low) = {n} \cup M /\ Sorted(low)
  BY FrontFacts
<1>8. g.low = low
  BY <1>5
<1>9. Again(g) = Again(o) \ M /\ Sorted(g.retry)
  BY <1>1, <1>5, WithoutFacts DEF Again, Queues
<1>10. Kept(g) = (Kept(o) \ M) \cup {n} \cup M /\ Sorted(g.pkts)
  <2> DEFINE left == Without(o.pkts, M)
  <2>1. left \in Seq(Msdus) /\ ToSet(left) = Kept(o) \ M /\ Sorted(left)
    BY <1>1, WithoutFacts DEF Kept, Queues
  <2>2. g.pkts = InsertAll(left, low)
    BY <1>5
  <2> HIDE DEF left, low
  <2>3. ToSet(left) \cap ToSet(low) = {}
    <3>1. n \notin Kept(o)
      BY <1>1, <1>3
    <3> QED BY <1>7, <2>1, <3>1
  <2>4. \A m \in ToSet(left) \cup ToSet(low) : m \in Int /\ n <= m /\ m < n + Window
    <3>1. n \in Int /\ n <= n /\ n < n + Window
      BY <1>1, Sizes
    <3>2. \A m \in Kept(o) : m \in Int /\ n <= m /\ m < n + Window
      <4> SUFFICES ASSUME NEW m \in Kept(o) PROVE m \in Int /\ n <= m /\ m < n + Window
        OBVIOUS
      <4>1. m \in Int /\ n < m /\ m < o.next
        BY <1>1, <1>3
      <4> QED BY <1>1, <1>3, <4>1, Sizes
    <3> QED BY <1>7, <1>6, <2>1, <3>1, <3>2
  <2>5. \A m, x \in ToSet(left) \cup ToSet(low) : m - x < Half
    BY <1>1, <2>4, Sizes
  <2> QED BY <1>7, <2>1, <2>2, <2>3, <2>5, InsertAllFacts DEF Kept
<1> HIDE DEF low
<1>11. Mine(g) = Mine(o) \cup M /\ Mine(g) = Kept(g)
  BY <1>2, <1>3, <1>5, <1>9, <1>10 DEF Mine
<1>12. Last(more) \in M /\ Last(more) \in Int /\ Last(more) \in Msdus /\ \A m \in M : m <= Last(more)
  BY <1>1, LastFacts
<1>13. /\ N \in Int /\ o.next <= N /\ N <= n + Window /\ (\A m \in M : m < N)
       /\ (\A m \in Int : o.next <= m /\ m < N => m <= Last(more)) /\ (N # o.next => o.next <= Last(more))
  <2> DEFINE l == Last(more)
  <2>1. l \in Int /\ l \in M /\ l < n + Window /\ N = (IF l < o.next THEN o.next ELSE l + 1)
    BY <1>5, <1>12, <1>6
  <2> HIDE DEF l, M, N
  <2>2. N \in Int /\ o.next <= N /\ l < N /\ (N # o.next => N = l + 1 /\ o.next <= l)
    BY <1>1, <2>1
  <2>3. N <= n + Window
    BY <1>1, <1>3, <2>1, <2>2, Sizes
  <2>4. \A m \in M : m < N
    <3> SUFFICES ASSUME NEW m \in M PROVE m < N
      OBVIOUS
    <3>1. m \in Int /\ m <= l
      BY <1>12, <1>6 DEF l
    <3> QED BY <2>1, <2>2, <3>1
  <2>5. \A m \in Int : o.next <= m /\ m < N => m <= l
    BY <1>1, <2>1, <2>2
  <2> QED BY <2>2, <2>3, <2>4, <2>5 DEF l
<1> HIDE DEF M, N
<1>14. \A m \in Mine(o) : m \in Int /\ n <= m /\ m < o.next
  <2> SUFFICES ASSUME NEW m \in Kept(o) \cup {n} PROVE m \in Int /\ n <= m /\ m < o.next
    BY <1>3
  <2>1. CASE m = n
    BY <1>1, <1>3, <2>1
  <2>2. CASE m \in Kept(o)
    <3>1. m \in Int /\ n < m /\ m < o.next
      BY <1>1, <1>3, <2>2
    <3> QED BY <1>1, <3>1
  <2> QED BY <2>1, <2>2
<1>15. \A m \in Mine(g) : n <= m /\ m < N
  <2> SUFFICES ASSUME NEW m \in Mine(o) \cup M PROVE n <= m /\ m < N
    BY <1>11
  <2>1. CASE m \in M
    BY <1>13, <1>6, <2>1
  <2>2. CASE m \in Mine(o)
    BY <1>1, <1>13, <1>14, <2>2
  <2> QED BY <2>1, <2>2
<1>16. n <= r
  <2>1. \A m \in Mine(o) : n <= m
    BY <1>14
  <2>2. n \in 1 .. o.next
    BY <1>1, <1>3, Sizes DEF Msdus
  <2> QED BY <1>1, <1>2, <2>1, <2>2, Reached
<1>17. Recipient(rc, w, r, N)
  <2>1. N - w <= 2 * Window
    BY <1>1, <1>13, <1>16, Sizes DEF Recipient, Stored, Windows
  <2> QED BY <1>1, <1>13, <2>1, RecipientGrows
<1>18. Queues(g)
  <2>1. \A m \in Mine(g) : m < g.next /\ g.next - m <= Window
    <3> SUFFICES ASSUME NEW m \in Mine(g) PROVE m < N /\ N - m <= Window
      BY DEF N
    <3>1. m \in Int
      BY <1>1, <1>3, <1>11
    <3> QED BY <1>1, <1>13, <1>15, <3>1, Sizes
  <2>2. Least(g, n)
    BY <1>10, <1>11, <1>15 DEF Least
  <2>3. Kept(g) = Again(g) \cup ToSet(g.low) /\ Again(g) \cap ToSet(g.low) = {}
    BY <1>1, <1>3, <1>7, <1>8, <1>9, <1>10
  <2>4. NoWrap => g.start <= Sn(g.next)
    <3> SUFFICES ASSUME NoWrap PROVE g.start <= Sn(N)
      BY DEF N
    <3>1. o.start <= Sn(o.next)
      BY <1>1 DEF Queues
    <3>2. CASE N = o.next
      BY <1>5, <3>1, <3>2
    <3>3. CASE N # o.next
      <4>1. o.next \in Msdus /\ o.next < N /\ N \in 1 .. MaxMsdus + 1
        <5>1. o.next <= Last(more) /\ Last(more) \in Int /\ Last(more) <= MaxMsdus
          BY <1>12, <1>13, <3>3, Sizes DEF Msdus
        <5>2. o.next \in Msdus
          BY <1>1, <5>1, Sizes DEF Msdus
        <5>3. N \in 1 .. MaxMsdus + 1
          BY <1>5 DEF N, Origs
        <5> QED BY <1>1, <1>13, <3>3, <5>2, <5>3
      <4>2. Sn(o.next) <= Sn(N)
        BY <4>1, StartBelow
      <4>3. o.start \in Int /\ Sn(o.next) \in Int /\ Sn(N) \in Int
        BY <1>1, <1>13, SnNumber, Sizes DEF Origs, Numbers
      <4> QED BY <1>5, <3>1, <4>2, <4>3
    <3> QED BY <3>2, <3>3
  <2> QED BY <1>2, <1>5, <1>7, <1>8, <1>9, <1>10, <1>3, <2>1, <2>2, <2>3, <2>4 DEF Queues
<1>19. Settled(g, rc, r)
  <2> SUFFICES ASSUME NEW m \in Msdus, m < N, m \notin Mine(g) PROVE Has(rc, r, m)
    BY DEF Settled, N
  <2>1. m < o.next
    <3> SUFFICES ASSUME o.next <= m PROVE FALSE
      BY <1>1
    <3>1. m <= Last(more)
      BY <1>1, <1>13
    <3>2. m \in M
      BY <1>12, <3>1 DEF M
    <3> QED BY <1>11, <3>2
  <2> QED BY <1>1, <1>2, <1>11, <2>1 DEF Settled
<1>20. ASSUME NEW m \in Kept(g), Bit(rc, w, m) PROVE m = n
  <2> SUFFICES ASSUME m # n PROVE FALSE
    OBVIOUS
  <2>1. m \notin Again(o)
    BY <1>1, <1>2, <1>20 DEF Unheard
  <2>2. m \in M /\ o.next <= m /\ m \in Int
    <3>1. m \in M
      BY <1>3, <1>10, <1>20, <2>1
    <3>2. m < o.next => m \in Again(o)
      BY <3>1 DEF M
    <3> QED BY <1>1, <1>6, <2>1, <3>1, <3>2
  <2>3. m \in w .. w + Window - 1 /\ Sn(m) \in rc.bits
    BY <1>1, <1>20, <2>2, Sizes DEF Bit
  <2>4. Has(rc, r, m)
    BY <1>1, <2>3 DEF Recipient, Stored, Heard
  <2>5. m \in Held(rc)
    BY <1>1, <2>2, <2>4 DEF Has
  <2> QED BY <1>1, <2>2, <2>5 DEF Recipient, Stored
<1>21. Unheard(g, rc, Idle, w)
  <2>1. Least(g, n)
    BY <1>10, <1>11, <1>15 DEF Least
  <2>2. \A m \in Again(g) : ~Bit(rc, w, m)
    BY <1>1, <1>2, <1>9 DEF Unheard
  <2> QED BY <1>4, <1>20, <2>1, <2>2 DEF Unheard
<1>22. h.failed = 0 => Complete(g, rc, h, w, r)
  <2> SUFFICES ASSUME h.failed = 0 PROVE Complete(g, rc, h, w, r)
    OBVIOUS
  <2>1. w <= n /\ InTurn(rc, r) /\ (\A m \in Again(o) : ~Bit(rc, w, m)) /\ \A m \in h.acked : Has(rc, r, m)
    BY <1>1, <1>3 DEF Complete
  <2>2. ~AsksPast(g)
    BY <1>5, <1>2, PacketFacts DEF AsksPast
  <2>3. \A m \in Mine(g) : w <= m
    <3> SUFFICES ASSUME NEW m \in Mine(g) PROVE w <= m
      OBVIOUS
    <3>1. m \in Int
      BY <1>11, <1>6, <1>14
    <3> QED BY <1>1, <1>15, <2>1, <3>1
  <2> QED BY <1>9, <2>1, <2>2, <2>3 DEF Complete
<1>23. Synced(g, rc, Idle, h, w, r)
  BY <1>4, <1>17, <1>18, <1>19, <1>21, <1>22 DEF Synced, Answered, N
<1> QED BY <1>13, <1>23 DEF N, g

\* A frame that goes out or is missed changes what neither end knows.
LEMMA FrameSynced ==
  ASSUME NEW o \in Origs, NEW rc, NEW h, NEW w, NEW r, NEW b, NEW a, Synced(o, rc, b, h, w, r),
         b.st \notin {"ampdu", "ba"} \/ o.low = <<>>, a.st \notin {"ack", "ba"},
         a.st = "ampdu" => o.low # <<>> /\ a.rest = o.low
  PROVE  Synced(o, rc, a, h, w, r)
<1>1. /\ Queues(o) /\ Recipient(rc, w, r, o.next) /\ Settled(o, rc, r) /\ Unheard(o, rc, b, w)
      /\ (h.failed = 0 => Complete(o, rc, h, w, r))
  BY DEF Synced
<1>2. AsksFor(o) \/ \A n \in Kept(o) : Bit(rc, w, n) => Least(o, n)
  BY <1>1 DEF Unheard
<1>3. a.st = "ampdu" => /\ Sorted(a.rest) /\ ToSet(a.rest) \subseteq ToSet(o.low)
                        /\ \A n \in ToSet(a.rest) : Bit(rc, w, n) => Least(o, n)
  <2> SUFFICES ASSUME a.st = "ampdu"
               PROVE  Sorted(o.low) /\ \A n \in ToSet(o.low) : Bit(rc, w, n) => Least(o, n)
    OBVIOUS
  <2>1. o.cur = Data(o.low[1]) /\ ToSet(o.low) \subseteq Kept(o) /\ Sorted(o.low)
    BY <1>1 DEF Queues
  <2>2. ~AsksFor(o)
    BY <2>1, PacketFacts DEF AsksFor
  <2> QED BY <1>2, <2>1, <2>2
<1>4. Unheard(o, rc, a, w)
  BY <1>1, <1>2, <1>3 DEF Unheard
<1> QED BY <1>1, <1>4 DEF Synced, Answered

\* After too many retries the request for the next new packet takes the place of the
\* current packet.
LEMMA GiveUpSynced ==
  ASSUME first \in Numbers, NEW o \in Origs, NEW c \in Origs, NEW rc \in Rcpts, NEW h, NEW h2,
         NEW w \in 1 .. o.next, NEW r \in 1 .. o.next, NEW b, b.st \notin {"ampdu", "ba"},
         Synced(o, rc, b, h, w, r), h2.failed # 0, o.cur.type = "data",
         c.cur = Bar(Sn(o.next)), c.low = <<>>, c.pkts = o.pkts, c.retry = o.retry,
         c.next = o.next, c.start = o.start
  PROVE  Synced(c, rc, Idle, h2, w, r)
<1>1. /\ Queues(o) /\ Recipient(rc, w, r, o.next) /\ Settled(o, rc, r) /\ Unheard(o, rc, b, w)
  BY DEF Synced
<1>2. Idle.st = "idle" /\ c.cur.type = "bar" /\ \A m : c.cur # Data(m)
  BY AirFacts, PacketFacts
<1>3. Kept(c) = Kept(o) /\ Again(c) = Again(o) /\ Mine(c) \subseteq Mine(o) /\ \A n : Least(c, n) <=> Least(o, n)
  BY <1>2 DEF Kept, Again, Mine, Least
<1>4. AsksPast(c)
  BY DEF AsksPast
<1>5. Queues(c)
  <2>1. Sorted(c.low)
    BY DEF Sorted
  <2> QED BY <1>1, <1>2, <1>3, <1>4, <2>1 DEF Queues
<1>6. Unheard(c, rc, Idle, w)
  <2>1. o.cur # NoPacket /\ ~AsksFor(o)
    BY <1>1, PacketFacts DEF AsksFor
  <2>2. \A n \in Again(c) : ~Bit(rc, w, n)
    BY <1>1, <1>3, <2>1 DEF Unheard
  <2> QED BY <1>1, <1>2, <1>3, <2>1, <2>2 DEF Unheard
<1> QED BY <1>1, <1>2, <1>4, <1>5, <1>6 DEF Synced, Settled, Answered

\* An ACK: the packet is no longer current, and the recipient has it.
LEMMA GotAckSynced ==
  ASSUME first \in Numbers, NEW o \in Origs, NEW c \in Origs, NEW rc \in Rcpts, NEW h, NEW h2,
         NEW w \in 1 .. o.next, NEW r \in 1 .. o.next, Synced(o, rc, Ack, h, w, r),
         NEW n \in Msdus, o.cur = Data(n), o.low = <<>>,
         h2.failed = h.failed, h2.acked = h.acked \cup {n},
         c.cur = NoPacket, c.low = <<>>, c.pkts = o.pkts, c.retry = o.retry,
         c.next = o.next, c.start = o.start
  PROVE  Synced(c, rc, Idle, h2, w, r)
<1>1. /\ Queues(o) /\ Recipient(rc, w, r, o.next) /\ Settled(o, rc, r) /\ Unheard(o, rc, Ack, w)
      /\ Answered(o, rc, Ack, w, r) /\ (h.failed = 0 => Complete(o, rc, h, w, r))
  BY DEF Synced
<1>2. Idle.st = "idle" /\ Ack.st = "ack" /\ c.cur.type = "none" /\ ~AsksPast(c) /\ ~AsksPast(o) /\ ~AsksFor(o)
      /\ (\A m : c.cur # Data(m)) /\ \A m : o.cur = Data(m) <=> m = n
  BY AirFacts, PacketFacts DEF AsksPast, AsksFor
<1>3. Kept(c) = Kept(o) /\ Again(c) = Again(o) /\ Mine(c) = Kept(o) /\ \A m : Least(c, m) <=> Least(o, m)
  BY <1>2 DEF Kept, Again, Mine, Least
<1>4. Mine(o) = Kept(o) \cup {n}
  BY <1>2 DEF Mine
<1>5. Has(rc, r, n)
  BY <1>1, <1>2 DEF Answered
<1>6. Queues(c)
  <2>1. o.cur.type # "bar"
    BY PacketFacts
  <2> QED BY <1>1, <1>2, <1>3, <1>4, <2>1 DEF Queues
<1>7. Settled(c, rc, r)
  BY <1>1, <1>2, <1>3, <1>4, <1>5 DEF Settled
<1>8. Unheard(c, rc, Idle, w)
  BY <1>1, <1>2, <1>3 DEF Unheard
<1>9. h2.failed = 0 => Complete(c, rc, h2, w, r)
  BY <1>1, <1>2, <1>3, <1>4, <1>5 DEF Complete
<1> QED BY <1>1, <1>2, <1>6, <1>7, <1>8, <1>9 DEF Synced, Answered

\* A block ack: what it does not acknowledge is to be sent again.
LEMMA GotBlockAckSynced ==
  ASSUME first \in Numbers, NEW o \in Origs, NEW c \in Origs, NEW rc \in Rcpts, NEW h, NEW h2,
         NEW w \in 1 .. o.next, NEW r \in 1 .. o.next, NEW a, a.st = "ba", Shape(o, a), Synced(o, rc, a, h, w, r),
         h2.failed = h.failed, h2.acked = h.acked \cup (Kept(o) \ ToSet(Lost(a, o.pkts))),
         c.cur = NoPacket, c.low = <<>>, c.pkts = Lost(a, o.pkts), c.next = o.next,
         c.retry = InsertAll(o.retry, Without(c.pkts, Again(o))),
         c.start = IF c.pkts = <<>> THEN Sn(o.next) ELSE Sn(c.pkts[1])
  PROVE  Synced(c, rc, Idle, h2, w, r)
<1> DEFINE L == ToSet(Lost(a, o.pkts))
<1>1. /\ Queues(o) /\ Recipient(rc, w, r, o.next) /\ Settled(o, rc, r) /\ Unheard(o, rc, a, w)
      /\ Answered(o, rc, a, w, r) /\ (h.failed = 0 => Complete(o, rc, h, w, r))
      /\ w \in Int /\ r \in Int /\ o.next \in Int /\ Kept(o) \subseteq Msdus /\ Msdus \subseteq Int
      /\ o.pkts \in Seq(Msdus) /\ o.retry \in Seq(Msdus)
  BY QueueFacts DEF Synced
<1>2. Idle.st = "idle" /\ c.cur.type = "none" /\ ~AsksPast(c) /\ (\A m : c.cur # Data(m))
  BY AirFacts, PacketFacts DEF AsksPast
<1>3. /\ o.cur # NoPacket
      /\ \/ o.low # <<>> /\ o.cur = Data(o.low[1]) /\ o.low[1] \in Kept(o) /\ ~AsksPast(o)
         \/ o.low = <<>> /\ o.cur.type = "bar"
  <2>1. CASE o.low # <<>>
    BY <1>1, <2>1, PacketFacts DEF Queues, Least, AsksPast
  <2>2. CASE o.low = <<>>
    BY <2>2, PacketFacts DEF Shape
  <2> QED BY <2>1, <2>2
<1>4. \A n \in Kept(o) : n \in Int /\ n < o.next /\ o.next - n <= Window
  BY <1>1 DEF Queues, Mine
<1>5. w <= r /\ r <= o.next /\ o.next - w <= 2 * Window
  BY <1>1 DEF Recipient, Stored, Windows
<1>6. PICK x \in Int : /\ a.start = Sn(x) /\ x <= w /\ (AsksPast(o) => w = o.next)
                       /\ x = w \/ \A n \in Kept(o) : x <= n /\ n < x + Window
  <2>1. CASE o.low # <<>>
    <3>1. a.start = Sn(w) /\ w <= w /\ ~AsksPast(o)
      BY <1>1, <1>3, <2>1 DEF Answered
    <3> QED BY <1>1, <3>1
  <2>2. CASE o.cur.type = "bar" /\ AsksPast(o)
    <3>1. a.start = o.cur.start /\ o.cur = Bar(Sn(o.next)) /\ w = o.next
      BY <1>1, <2>2 DEF Answered, AsksPast
    <3>2. a.start = Sn(w) /\ w <= w
      BY <1>1, <3>1, PacketFacts
    <3> QED BY <1>1, <3>1, <3>2
  <2>3. CASE o.cur.type = "bar" /\ ~AsksPast(o)
    <3>1. PICK n \in Kept(o) : Least(o, n) /\ o.cur = Bar(Sn(n))
      BY <1>1, <2>3 DEF Queues, AsksFor
    <3>2. a.start = Sn(n) /\ n <= w /\ n \in Int
      BY <1>1, <1>4, <2>3, <3>1, PacketFacts DEF Answered
    <3>3. \A m \in Kept(o) : n <= m /\ m < n + Window
      <4> SUFFICES ASSUME NEW m \in Kept(o) PROVE n <= m /\ m < n + Window
        OBVIOUS
      <4>1. n <= m
        BY <3>1 DEF Least
      <4> QED BY <1>1, <1>4, <4>1, Sizes
    <3> QED BY <2>3, <3>2, <3>3
  <2> QED BY <1>3, <2>1, <2>2, <2>3
<1>7. ASSUME NEW n \in Kept(o)
      PROVE  IsPacketReceived(a, n) <=> x <= n /\ n < x + Window /\ Sn(n) \in rc.bits
  <2>1. n \in Int /\ n < o.next /\ o.next - n <= Window
    BY <1>4
  <2>2. n - x < SeqSpace /\ x - n <= SeqSpace - Window
    <3>1. CASE x = w
      BY <1>1, <1>5, <2>1, <3>1, Sizes
    <3>2. CASE x <= n /\ n < x + Window
      BY <2>1, <3>2, Sizes
    <3> QED BY <1>6, <3>1, <3>2
  <2>3. IsInWindow(Sn(n), a.start, Window) <=> x <= n /\ n < x + Window
    BY <1>6, <2>1, <2>2, InWindowIsBetween, Sizes
  <2>4. Sn(n) \in a.bits <=> Sn(n) \in rc.bits /\ IsInWindow(Sn(n), a.start, Window)
    BY <1>1 DEF Answered, FillBlockAckBitmap
  <2> QED BY <2>3, <2>4 DEF IsPacketReceived
<1>8. L = {n \in Kept(o) : ~IsPacketReceived(a, n)} /\ Sorted(c.pkts) /\ c.pkts \in Seq(Msdus)
  BY <1>1, LostFacts DEF Kept, Queues
<1>9. Kept(c) = L
  BY DEF Kept
<1> HIDE DEF L
<1>10. ASSUME NEW n \in Kept(o), n \notin L PROVE Has(rc, r, n)
  <2>1. n \in Int /\ x <= n /\ n < w + Window /\ Sn(n) \in rc.bits
    BY <1>1, <1>4, <1>6, <1>7, <1>8, <1>10, Sizes
  <2>2. CASE n < w
    BY <1>1, <1>5, <2>1, <2>2 DEF Has
  <2>3. CASE w <= n
    <3>1. n \in w .. w + Window - 1
      BY <1>1, <2>1, <2>3, Sizes
    <3> QED BY <1>1, <2>1, <3>1 DEF Recipient, Stored, Heard
  <2> QED BY <1>1, <2>1, <2>2, <2>3
<1>11. ASSUME NEW n \in L, Bit(rc, w, n) PROVE n < w /\ Least(o, n)
  <2>1. n \in Kept(o) /\ n \in Int /\ Sn(n) \in rc.bits /\ n < w + Window /\ ~(x <= n /\ n < x + Window)
    BY <1>4, <1>7, <1>8, <1>11 DEF Bit
  <2>2. n < w
    BY <1>1, <1>6, <2>1
  <2> QED BY <1>1, <1>11, <2>1, <2>2 DEF Unheard
<1>12. Again(o) \subseteq L
  <2> SUFFICES ASSUME NEW n \in Again(o), n \notin L PROVE FALSE
    OBVIOUS
  <2>1. n \in Kept(o) /\ ~Bit(rc, w, n)
    BY <1>1, <1>3 DEF Queues, Unheard
  <2>2. n \in Int /\ n < x + Window /\ Sn(n) \in rc.bits
    BY <1>4, <1>7, <1>8, <2>1
  <2> QED BY <1>1, <1>6, <2>1, <2>2, Sizes DEF Bit
<1>13. Again(c) = L /\ Sorted(c.retry)
  <2> DEFINE rest == Without(c.pkts, Again(o))
  <2>1. rest \in Seq(Msdus) /\ ToSet(rest) = L \ Again(o) /\ Sorted(rest)
    BY <1>8, <1>9, WithoutFacts DEF Kept
  <2>2. c.retry = InsertAll(o.retry, rest)
    OBVIOUS
  <2> HIDE DEF rest
  <2>3. ToSet(o.retry) \cup ToSet(rest) = L /\ ToSet(o.retry) \cap ToSet(rest) = {}
    BY <1>12, <2>1 DEF Again
  <2>4. \A m, n \in ToSet(o.retry) \cup ToSet(rest) : m - n < Half
    <3> SUFFICES ASSUME NEW m \in L, NEW n \in L PROVE m - n < Half
      BY <2>3
    <3>1. m \in Int /\ m < o.next /\ n \in Int /\ o.next - n <= Window
      BY <1>4, <1>8
    <3> QED BY <1>1, <3>1, Sizes
  <2>5. Sorted(o.retry)
    BY <1>1 DEF Queues
  <2>6. /\ ToSet(InsertAll(o.retry, rest)) = ToSet(o.retry) \cup ToSet(rest)
        /\ Sorted(InsertAll(o.retry, rest))
    BY <1>1, <2>1, <2>3, <2>4, <2>5, InsertAllFacts
  <2> QED BY <2>2, <2>3, <2>6 DEF Again
<1>14. Mine(c) = L /\ L \subseteq Kept(o) /\ \A n \in L : Least(o, n) => Least(c, n)
  BY <1>2, <1>8, <1>9 DEF Mine, Least
<1>15. Queues(c)
  <2>1. NoWrap => c.start <= Sn(c.next)
    <3>1. CASE c.pkts = <<>>
      <4>1. Sn(o.next) \in Numbers
        BY <1>1, SnNumber
      <4>2. Sn(o.next) \in Int /\ c.start = Sn(o.next) /\ c.next = o.next
        BY <3>1, <4>1, Sizes DEF Numbers
      <4> QED BY <4>2
    <3>2. CASE c.pkts # <<>>
      <4>1. c.pkts[1] \in Msdus /\ c.pkts[1] \in L
        BY <1>9, <3>2, FirstIsLeast, <1>8 DEF Least
      <4>2. c.pkts[1] < o.next
        BY <1>4, <1>14, <4>1
      <4> QED BY <3>2, <4>1, <4>2, StartBelow, QueueFacts
    <3> QED BY <3>1, <3>2
  <2>2. Sorted(c.low)
    BY DEF Sorted
  <2>3. \A n \in Mine(c) : n < c.next /\ c.next - n <= Window
    BY <1>4, <1>14
  <2> QED BY <1>2, <1>8, <1>9, <1>13, <2>1, <2>2, <2>3 DEF Queues
<1>16. Settled(c, rc, r)
  <2> SUFFICES ASSUME NEW n \in Msdus, n < o.next, n \notin L PROVE Has(rc, r, n)
    BY <1>14 DEF Settled
  <2>1. CASE n \in Kept(o)
    BY <1>10, <2>1
  <2>2. CASE n \notin Kept(o) /\ AsksPast(o)
    BY <1>1, <1>5, <1>6, <2>2 DEF Has
  <2>3. CASE n \notin Kept(o) /\ ~AsksPast(o)
    <3>1. o.cur # Data(n)
      BY <1>3, <2>3, PacketFacts
    <3>2. n \notin Mine(o)
      BY <2>3, <3>1 DEF Mine
    <3> QED BY <1>1, <2>3, <3>2 DEF Settled
  <2> QED BY <2>1, <2>2, <2>3
<1>17. Unheard(c, rc, Idle, w)
  BY <1>2, <1>9, <1>11, <1>13, <1>14 DEF Unheard
<1>18. h2.failed = 0 => Complete(c, rc, h2, w, r)
  <2> SUFFICES ASSUME h.failed = 0 PROVE Complete(c, rc, h2, w, r)
    OBVIOUS
  <2>1. Complete(o, rc, h, w, r)
    BY <1>1
  <2>2. \A n \in L : w <= n /\ ~(n < w)
    <3> SUFFICES ASSUME NEW n \in L PROVE w <= n /\ ~(n < w)
      OBVIOUS
    <3>1. n \in Mine(o) /\ n \in Int
      BY <1>4, <1>14 DEF Mine
    <3> QED BY <1>1, <2>1, <3>1 DEF Complete
  <2>3. \A n \in Again(c) : ~Bit(rc, w, n)
    BY <1>11, <1>13, <2>2
  <2>4. \A n \in h2.acked : Has(rc, r, n)
    BY <1>10, <2>1 DEF Complete, L
  <2> QED BY <1>2, <1>14, <2>1, <2>2, <2>3, <2>4 DEF Complete
<1> QED BY <1>1, <1>2, <1>15, <1>16, <1>17, <1>18 DEF Synced, Answered

\* A missed block ack: the request starts at the first packet of the buffer, or it is the
\* one already sent; it is not thrown away.
LEMMA MissedBlockAckSynced ==
  ASSUME first \in Numbers, NEW o \in Origs, NEW rc \in Rcpts, NEW h,
         NEW w \in 1 .. o.next, NEW r \in 1 .. o.next, NEW a, a.st \in {"ba", "bar", "ampdu"},
         Shape(o, a), Synced(o, rc, a, h, w, r), Insisted(h),
         NEW s \in Numbers, s = IF o.cur.type = "data" THEN Sn(o.cur.msdu) ELSE o.cur.start,
         NEW g \in Origs, g.next = o.next, g.pkts = o.pkts, g.retry = o.retry, g.low = <<>>,
         g.cur = Bar(s), g.start = IF o.pkts = <<>> THEN o.start ELSE Sn(o.pkts[1])
  PROVE  NeedBarRetransmission(g, s) /\ Synced(g, rc, Idle, h, w, r)
<1>1. /\ Queues(o) /\ Recipient(rc, w, r, o.next) /\ Settled(o, rc, r) /\ Unheard(o, rc, a, w)
      /\ (h.failed = 0 => Complete(o, rc, h, w, r))
      /\ o.pkts \in Seq(Msdus) /\ o.next \in Int /\ Msdus \subseteq Int /\ Kept(o) \subseteq Msdus
  BY QueueFacts DEF Synced
<1>2. Idle.st = "idle" /\ g.cur.type = "bar" /\ (\A m : g.cur # Data(m)) /\ s \in Int
  BY AirFacts, PacketFacts, Sizes DEF Numbers
<1>3. Kept(g) = Kept(o) /\ Again(g) = Again(o) /\ Mine(g) = Kept(o) /\ \A m : Least(g, m) <=> Least(o, m)
  BY <1>2 DEF Kept, Again, Mine, Least
<1>4. ASSUME NEW n \in Kept(o), Least(o, n) PROVE o.pkts # <<>> /\ o.pkts[1] = n
  <2>1. o.pkts # <<>>
    BY QueueFacts
  <2>2. o.pkts[1] \in Msdus /\ Least(o, o.pkts[1])
    BY <1>1, <2>1, FirstIsLeast DEF Queues
  <2>3. o.pkts[1] <= n /\ n <= o.pkts[1] /\ n \in Int /\ o.pkts[1] \in Int
    BY <1>1, <1>4, <2>2 DEF Least
  <2> QED BY <2>1, <2>3
<1>5. NoWrap => g.start <= Sn(o.next)
  BY <1>1, CleanupAlike, CleanupBuffersTyped DEF Alike
<1>6. CASE o.low # <<>>
  <2> DEFINE n == o.low[1]
  <2>1. n \in Kept(o) /\ Least(o, n) /\ o.cur = Data(n) /\ n \in Int /\ n < o.next /\ o.next - n <= Window
    BY <1>1, <1>6 DEF Queues, Least, Mine
  <2> HIDE DEF n
  <2>2. s = Sn(n) /\ ~AsksPast(o) /\ ~AsksFor(o) /\ o.cur # NoPacket /\ g.start = s
    BY <1>4, <2>1, PacketFacts DEF AsksPast, AsksFor
  <2>3. NeedBarRetransmission(g, s)
    BY <1>2, <2>2, Sizes DEF NeedBarRetransmission
  <2>4. AsksFor(g)
    BY <1>3, <2>1, <2>2 DEF AsksFor
  <2>5. ~AsksPast(g)
    <3>1. Sn(n) # Sn(o.next)
      <4>1. n - o.next < SeqSpace /\ o.next - n < SeqSpace /\ n # o.next
        BY <1>1, <2>1, Sizes
      <4> QED BY <1>1, <2>1, <4>1, SnDiffers
    <3>2. Bar(Sn(n)) # Bar(Sn(o.next))
      BY <3>1, PacketFacts
    <3> QED BY <2>2, <3>2 DEF AsksPast
  <2>6. Mine(o) = Kept(o)
    BY <2>1, PacketFacts DEF Mine
  <2>7. Queues(g)
    <3>1. Sorted(g.low)
      BY DEF Sorted
    <3>2. \A m \in Mine(g) : m < g.next /\ g.next - m <= Window
      BY <1>1, <1>3, <2>6 DEF Queues
    <3> QED BY <1>1, <1>2, <1>3, <1>5, <2>4, <3>1, <3>2 DEF Queues
  <2>8. Settled(g, rc, r)
    BY <1>1, <1>3, <2>2, <2>6 DEF Settled
  <2>9. Unheard(g, rc, Idle, w)
    BY <1>1, <1>2, <1>3, <2>2, <2>4 DEF Unheard
  <2>10. h.failed = 0 => Complete(g, rc, h, w, r)
    BY <1>1, <1>3, <2>5, <2>6 DEF Complete
  <2> QED BY <1>1, <1>2, <2>3, <2>7, <2>8, <2>9, <2>10 DEF Synced, Answered
<1>7. CASE o.low = <<>>
  <2>1. o.cur.type = "bar" /\ o.cur.type # "data" /\ s = o.cur.start
    BY <1>7 DEF Shape
  <2>2. g.cur = o.cur
    BY <2>1, QueueFacts, CurFacts
  <2>3. Alike(o, g)
    BY <1>1, <1>3, <1>5, <1>7, <2>2 DEF Alike, Queues
  <2>4. Synced(g, rc, a, h, w, r)
    BY <2>3, AlikeSynced
  <2>5. Synced(g, rc, Idle, h, w, r)
    <3>1. Idle.st \notin {"ack", "ba"} /\ Idle.st # "ampdu"
      BY AirFacts
    <3> QED BY <2>4, <3>1, FrameSynced
  <2>6. NeedBarRetransmission(g, s)
    <3>1. CASE AsksFor(o)
      <4>1. PICK n \in Kept(o) : Least(o, n) /\ o.cur = Bar(Sn(n))
        BY <3>1 DEF AsksFor
      <4>2. s = Sn(n) /\ g.start = s
        BY <1>4, <2>1, <4>1, PacketFacts
      <4> QED BY <1>2, <4>2, Sizes DEF NeedBarRetransmission
    <3>2. CASE AsksPast(o)
      <4>1. NoWrap
        BY <1>1, <3>2 DEF Insisted, Complete
      <4>2. s = Sn(o.next)
        BY <2>1, <3>2, PacketFacts DEF AsksPast
      <4>3. g.start <= s /\ g.start \in Int
        BY <1>5, <4>1, <4>2, Sizes DEF Origs, Numbers
      <4> QED BY <1>2, <4>3, Sizes DEF NeedBarRetransmission
    <3> QED BY <1>1, <2>1, <3>1, <3>2 DEF Queues
  <2> QED BY <2>5, <2>6
<1> QED BY <1>6, <1>7

\* What a reception means for the originator, which has not heard of it.
LEMMA GetsKept ==
  ASSUME NEW o \in Origs, NEW rc \in Rcpts, NEW rc2, NEW h \in Hists,
         NEW w \in 1 .. o.next, NEW r \in 1 .. o.next, NEW w2 \in 1 .. o.next, NEW r2 \in 1 .. o.next,
         Queues(o), Recipient(rc, w, r, o.next), Settled(o, rc, r), ~AsksPast(o),
         h.failed = 0 => Complete(o, rc, h, w, r),
         \A m \in Again(o) : ~Bit(rc, w, m),
         NEW n \in Mine(o), n \notin Again(o), Gets(rc, w, r, rc2, w2, r2, o.next, n)
  PROVE  /\ Recipient(rc2, w2, r2, o.next) /\ Settled(o, rc2, r2) /\ Has(rc2, r2, n)
         /\ \A m \in Mine(o) : Bit(rc2, w2, m) => Bit(rc, w, m) \/ (m = n /\ ~(m < w2))
         /\ \A m \in Mine(o) : m < w2 => m < w
         /\ \A m \in Again(o) : ~Bit(rc2, w2, m)
         /\ h.failed = 0 => Complete(o, rc2, h, w2, r2)
<1>1. /\ Mine(o) \subseteq Int /\ Again(o) \subseteq Mine(o) /\ n \in Int /\ o.next \in Int /\ w \in Int /\ r \in Int
      /\ w2 \in Int /\ w <= r /\ Msdus \subseteq Int
  BY QueueFacts DEF Queues, Mine, Recipient, Stored, Windows
<1>2. \A m \in Mine(o) : m < o.next /\ o.next - m <= Window
  BY DEF Queues
<1>3. /\ (w2 = w \/ w2 = n - Window + 1) /\ Recipient(rc2, w2, r2, o.next)
      /\ \A m \in Int : Has(rc2, r2, m) <=> Has(rc, r, m) \/ m = n
      /\ \A m \in Int : o.next - m <= Window /\ Bit(rc2, w2, m) => Bit(rc, w, m) \/ (m = n /\ r <= n)
      /\ InTurn(rc, r) => InTurn(rc2, r2)
  BY DEF Gets
<1>4. ASSUME NEW m \in Mine(o), m < w2 PROVE w2 = w
  <2> SUFFICES ASSUME w2 = n - Window + 1 PROVE FALSE
    BY <1>3
  <2>1. m \in Int /\ o.next - m <= Window /\ n < o.next
    BY <1>1, <1>2
  <2> QED BY <1>1, <1>4, <2>1, Sizes
<1>5. ASSUME NEW m \in Mine(o), Bit(rc2, w2, m) PROVE Bit(rc, w, m) \/ (m = n /\ ~(m < w2))
  <2>1. Bit(rc, w, m) \/ (m = n /\ r <= n)
    BY <1>1, <1>2, <1>3, <1>5
  <2>2. m = n /\ r <= n => ~(m < w2)
    BY <1>1, <1>4
  <2> QED BY <2>1, <2>2
<1>6. \A m \in Again(o) : ~Bit(rc2, w2, m)
  BY <1>1, <1>5
<1>7. Settled(o, rc2, r2)
  BY <1>1, <1>3 DEF Settled
<1>8. h.failed = 0 => Complete(o, rc2, h, w2, r2)
  <2> SUFFICES ASSUME h.failed = 0, Complete(o, rc, h, w, r) PROVE Complete(o, rc2, h, w2, r2)
    OBVIOUS
  <2>1. \A m \in Mine(o) : w2 <= m
    <3> SUFFICES ASSUME NEW m \in Mine(o) PROVE w2 <= m
      OBVIOUS
    <3>1. m \in Int /\ w <= m
      BY <1>1 DEF Complete
    <3> QED BY <1>1, <1>4, <3>1
  <2>2. h.acked \subseteq Int
    BY <1>1 DEF Hists
  <2>3. \A m \in h.acked : Has(rc2, r2, m)
    BY <1>3, <2>2 DEF Complete
  <2> QED BY <1>3, <1>6, <2>1, <2>3 DEF Complete
<1> QED BY <1>1, <1>3, <1>4, <1>5, <1>6, <1>7, <1>8

\* A packet on its own is the first of those without an answer.
LEMMA ReceiveSingleSynced ==
  ASSUME first \in Numbers, NEW o \in Origs, NEW rc \in Rcpts, NEW h \in Hists,
         NEW w \in 1 .. o.next, NEW r \in 1 .. o.next, Synced(o, rc, Single, h, w, r),
         NEW n \in Msdus, o.cur = Data(n), o.low = <<>>
  PROVE  \E w2, r2 \in 1 .. o.next :
           Synced(o, ForwardUntilFirstLost(ForwardSmaller(ReceiveMpdu(rc, n))), Ack, h, w2, r2)
<1> DEFINE rc2 == ForwardUntilFirstLost(ForwardSmaller(ReceiveMpdu(rc, n)))
<1>1. /\ Queues(o) /\ Recipient(rc, w, r, o.next) /\ Settled(o, rc, r) /\ Unheard(o, rc, Single, w)
      /\ (h.failed = 0 => Complete(o, rc, h, w, r)) /\ o.next \in 1 .. MaxMsdus + 1 /\ Msdus \subseteq Int
      /\ Mine(o) \subseteq Msdus /\ o.next \in Int /\ n \in Int /\ w \in Int /\ r \in Int
  BY QueueFacts DEF Synced
<1>2. Ack.st = "ack" /\ Single.st = "single" /\ o.cur # NoPacket /\ ~AsksPast(o) /\ ~AsksFor(o)
      /\ o.cur.type = "data" /\ \A m : o.cur = Data(m) <=> m = n
  BY AirFacts, PacketFacts DEF AsksPast, AsksFor
<1>3. n \in Mine(o) /\ n < o.next /\ o.next - n <= Window /\ n \notin Kept(o) /\ \A m \in Mine(o) : n <= m
  <2>1. n \in Mine(o) /\ \A m \in Kept(o) : n < m
    BY <1>1 DEF Mine, Queues
  <2>2. Mine(o) = Kept(o) \cup {n}
    BY <1>2 DEF Mine
  <2> QED BY <1>1, <2>1, <2>2 DEF Queues
<1>4. n <= r
  <2>1. n \in 1 .. o.next
    BY <1>1, <1>3, Sizes DEF Msdus
  <2> QED BY <1>1, <1>2, <1>3, <2>1, Reached
<1>5. Awaits(rc, r, o.next, n)
  <2>1. n \notin Held(rc)
    BY <1>1, <1>4 DEF Recipient, Stored
  <2> QED BY <1>1, <1>3, <1>4, <2>1, Sizes DEF Awaits
<1>6. PICK w2 \in 1 .. o.next, r2 \in 1 .. o.next : Gets(rc, w, r, rc2, w2, r2, o.next, n)
  BY <1>1, <1>5, ReceiveSingleFacts
<1> HIDE DEF rc2
<1>7. (\A m \in Again(o) : ~Bit(rc, w, m)) /\ n \notin Again(o) /\ Kept(o) \subseteq Mine(o)
  BY <1>1, <1>2, <1>3 DEF Unheard, Queues, Mine
<1>8. /\ Recipient(rc2, w2, r2, o.next) /\ Settled(o, rc2, r2) /\ Has(rc2, r2, n)
      /\ \A m \in Mine(o) : Bit(rc2, w2, m) => Bit(rc, w, m) \/ (m = n /\ ~(m < w2))
      /\ \A m \in Again(o) : ~Bit(rc2, w2, m)
      /\ (h.failed = 0 => Complete(o, rc2, h, w2, r2))
  <2>1. /\ Queues(o) /\ Recipient(rc, w, r, o.next) /\ Settled(o, rc, r) /\ ~AsksPast(o)
        /\ (h.failed = 0 => Complete(o, rc, h, w, r)) /\ (\A m \in Again(o) : ~Bit(rc, w, m))
        /\ n \in Mine(o) /\ n \notin Again(o)
    BY <1>1, <1>2, <1>3, <1>7
  <2> QED BY <1>6, <2>1, GetsKept
<1>9. Unheard(o, rc2, Ack, w2)
  <2>1. \A m \in Kept(o) : Bit(rc2, w2, m) => Least(o, m)
    BY <1>1, <1>2, <1>3, <1>7, <1>8 DEF Unheard
  <2> QED BY <1>2, <1>8, <2>1 DEF Unheard
<1>10. Answered(o, rc2, Ack, w2, r2)
  BY <1>2, <1>8 DEF Answered
<1>11. Synced(o, rc2, Ack, h, w2, r2)
  BY <1>1, <1>8, <1>9, <1>10 DEF Synced
<1> QED BY <1>11 DEF rc2

\* The next packet of an A-MPDU arrives: the recipient does not have it, but possibly the
\* first of them.
LEMMA ReceiveInAmpduSynced ==
  ASSUME first \in Numbers, NEW o \in Origs, NEW rc \in Rcpts, NEW h \in Hists,
         NEW w \in 1 .. o.next, NEW r \in 1 .. o.next,
         NEW rest \in Seq(Msdus), NEW heard \in BOOLEAN, rest # <<>>, o.low # <<>>,
         Synced(o, rc, Ampdu(rest, heard), h, w, r)
  PROVE  \E w2, r2 \in 1 .. o.next :
           Synced(o, ReceiveMpdu(rc, Head(rest)), Ampdu(Tail(rest), TRUE), h, w2, r2)
<1> DEFINE n == Head(rest)
           rc2 == ReceiveMpdu(rc, n)
           a == Ampdu(rest, heard)
           a2 == Ampdu(Tail(rest), TRUE)
           b == o.low[1]
<1>1. /\ Queues(o) /\ Recipient(rc, w, r, o.next) /\ Settled(o, rc, r) /\ Unheard(o, rc, a, w)
      /\ (h.failed = 0 => Complete(o, rc, h, w, r)) /\ o.next \in 1 .. MaxMsdus + 1 /\ Msdus \subseteq Int
      /\ Mine(o) \subseteq Msdus /\ o.next \in Int /\ w \in Int /\ r \in Int
  BY QueueFacts DEF Synced
<1>2. a.st = "ampdu" /\ a.rest = rest /\ a2.st = "ampdu" /\ a2.rest = Tail(rest)
  BY DEF Ampdu
<1> HIDE DEF a, a2
<1>3. /\ o.cur = Data(b) /\ b \in Kept(o) /\ Least(o, b)
      /\ ToSet(o.low) \subseteq Kept(o) /\ Again(o) \cap ToSet(o.low) = {}
  BY <1>1 DEF Queues, Least
<1> HIDE DEF b
<1>4. o.cur # NoPacket /\ ~AsksPast(o) /\ ~AsksFor(o) /\ o.cur.type = "data" /\ Mine(o) = Kept(o)
  BY <1>3, PacketFacts DEF AsksPast, AsksFor, Mine
<1>5. n = rest[1] /\ n \in ToSet(rest) /\ Sorted(Tail(rest)) /\ \A m \in ToSet(Tail(rest)) : m \in ToSet(rest) /\ n < m
  BY <1>1, <1>2, TailFacts DEF Unheard
<1>6. /\ ToSet(rest) \subseteq ToSet(o.low) /\ \A m \in ToSet(rest) : Bit(rc, w, m) => Least(o, m)
  BY <1>1, <1>2 DEF Unheard
<1> HIDE DEF n
<1>7. n \in Mine(o) /\ n \notin Again(o) /\ n \in Msdus /\ n \in Int /\ b \in Int /\ b \in Msdus
  BY <1>1, <1>3, <1>4, <1>5, <1>6
<1>8. n < o.next /\ o.next - n <= Window /\ b < o.next /\ o.next - b <= Window
  BY <1>1, <1>3, <1>4, <1>7 DEF Queues
<1>9. b <= r
  <2>1. b \in 1 .. o.next /\ \A m \in Mine(o) : b <= m
    BY <1>1, <1>3, <1>4, <1>7, <1>8, Sizes DEF Msdus, Least
  <2> QED BY <1>1, <1>4, <2>1, Reached
<1>10. n \notin Held(rc)
  <2> SUFFICES ASSUME n \in Held(rc) PROVE FALSE
    OBVIOUS
  <2>1. r < n /\ w <= n /\ n < w + Window
    BY <1>1, <1>7 DEF Recipient, Stored, Windows
  <2>2. n \in w .. w + Window - 1
    BY <1>1, <1>7, <2>1, Sizes
  <2>3. Bit(rc, w, n)
    BY <1>1, <2>1, <2>2 DEF Recipient, Stored, Heard, Has, Bit
  <2>4. n <= b
    BY <1>3, <1>5, <1>6, <2>3 DEF Least
  <2> QED BY <1>1, <1>7, <1>9, <2>1, <2>4
<1>11. Awaits(rc, r, o.next, n)
  BY <1>1, <1>7, <1>8, <1>9, <1>10, Sizes DEF Awaits
<1>12. PICK w2 \in 1 .. o.next, r2 \in 1 .. o.next : Gets(rc, w, r, rc2, w2, r2, o.next, n)
  BY <1>1, <1>7, <1>11, ReceiveMpduFacts
<1> HIDE DEF rc2
<1>13. \A m \in Again(o) : ~Bit(rc, w, m)
  BY <1>1, <1>4 DEF Unheard
<1>14. /\ Recipient(rc2, w2, r2, o.next) /\ Settled(o, rc2, r2)
       /\ \A m \in Mine(o) : Bit(rc2, w2, m) => Bit(rc, w, m) \/ (m = n /\ ~(m < w2))
       /\ \A m \in Mine(o) : m < w2 => m < w
       /\ \A m \in Again(o) : ~Bit(rc2, w2, m)
       /\ (h.failed = 0 => Complete(o, rc2, h, w2, r2))
  BY <1>1, <1>4, <1>7, <1>12, <1>13, GetsKept
<1>15. Unheard(o, rc2, a2, w2)
  <2>1. \A m \in Kept(o) : m < w2 /\ Bit(rc2, w2, m) => Least(o, m)
    BY <1>1, <1>4, <1>14 DEF Unheard
  <2>2. ASSUME NEW m \in ToSet(Tail(rest)), Bit(rc2, w2, m) PROVE Least(o, m)
    <3>1. m \in ToSet(rest) /\ n < m /\ m \in Mine(o) /\ m \in Int
      BY <1>1, <1>3, <1>4, <1>5, <1>6
    <3>2. Bit(rc, w, m)
      BY <1>7, <1>14, <2>2, <3>1
    <3> QED BY <1>6, <3>1, <3>2
  <2>3. ToSet(Tail(rest)) \subseteq ToSet(o.low)
    BY <1>5, <1>6
  <2> QED BY <1>2, <1>5, <1>14, <2>1, <2>2, <2>3 DEF Unheard
<1>16. Answered(o, rc2, a2, w2, r2)
  BY <1>2 DEF Answered
<1>17. Synced(o, rc2, a2, h, w2, r2)
  BY <1>1, <1>14, <1>15, <1>16 DEF Synced
<1> QED BY <1>17 DEF rc2, a2, n

\* The next packet of an A-MPDU is lost.
LEMMA LoseInAmpduSynced ==
  ASSUME NEW o, NEW rc, NEW h, NEW w, NEW r,
         NEW rest \in Seq(Msdus), NEW heard \in BOOLEAN, rest # <<>>,
         Synced(o, rc, Ampdu(rest, heard), h, w, r)
  PROVE  Synced(o, rc, Ampdu(Tail(rest), heard), h, w, r)
<1> DEFINE a == Ampdu(rest, heard)
           a2 == Ampdu(Tail(rest), heard)
<1>1. /\ Queues(o) /\ Recipient(rc, w, r, o.next) /\ Settled(o, rc, r) /\ Unheard(o, rc, a, w)
      /\ (h.failed = 0 => Complete(o, rc, h, w, r))
  BY DEF Synced
<1>2. a.st = "ampdu" /\ a.rest = rest /\ a2.st = "ampdu" /\ a2.rest = Tail(rest)
  BY DEF Ampdu
<1> HIDE DEF a, a2
<1>3. Sorted(Tail(rest)) /\ ToSet(Tail(rest)) \subseteq ToSet(rest)
  BY <1>1, <1>2, TailFacts DEF Unheard
<1>4. Unheard(o, rc, a2, w)
  BY <1>1, <1>2, <1>3 DEF Unheard
<1>5. Synced(o, rc, a2, h, w, r)
  BY <1>1, <1>2, <1>4 DEF Synced, Answered
<1> QED BY <1>5 DEF a2

\* The block ack after an A-MPDU tells of the window of the cache.
LEMMA SendBlockAckSynced ==
  ASSUME NEW o, NEW rc, NEW h, NEW w, NEW r, o.low # <<>>,
         Synced(o, rc, Ampdu(<<>>, TRUE), h, w, r)
  PROVE  Synced(o, rc, BlockAckFrame(rc.wstart, FillBlockAckBitmap(rc, rc.wstart)), h, w, r)
<1> DEFINE a == Ampdu(<<>>, TRUE)
           a2 == BlockAckFrame(rc.wstart, FillBlockAckBitmap(rc, rc.wstart))
<1>1. /\ Queues(o) /\ Recipient(rc, w, r, o.next) /\ Settled(o, rc, r) /\ Unheard(o, rc, a, w)
      /\ (h.failed = 0 => Complete(o, rc, h, w, r))
  BY DEF Synced
<1>2. a2.st = "ba" /\ a2.start = rc.wstart /\ a2.bits = FillBlockAckBitmap(rc, rc.wstart)
  BY DEF BlockAckFrame
<1> HIDE DEF a, a2
<1>3. o.cur = Data(o.low[1]) /\ rc.wstart = Sn(w)
  BY <1>1 DEF Queues, Recipient, Stored
<1>4. o.cur.type # "bar" /\ ~AsksPast(o) /\ \A n : o.cur # Bar(Sn(n))
  BY <1>3, PacketFacts DEF AsksPast
<1>5. Answered(o, rc, a2, w, r)
  BY <1>2, <1>3, <1>4 DEF Answered
<1>6. Unheard(o, rc, a2, w)
  BY <1>1, <1>2 DEF Unheard
<1>7. Synced(o, rc, a2, h, w, r)
  BY <1>1, <1>5, <1>6 DEF Synced
<1> QED BY <1>7 DEF a2

\* A request moves the windows of the recipient, and the block ack tells of them.
LEMMA ReceiveBarSynced ==
  ASSUME first \in Numbers, NEW o \in Origs, NEW rc \in Rcpts, NEW h \in Hists,
         NEW w \in 1 .. o.next, NEW r \in 1 .. o.next, Synced(o, rc, BarFrame, h, w, r), Insisted(h),
         o.cur.type = "bar", o.low = <<>>, NEW s \in Numbers, s = o.cur.start
  PROVE  \E w2, r2 \in 1 .. o.next :
           Synced(o, AfterBar(rc, s),
                  BlockAckFrame(s, FillBlockAckBitmap(UpdateWithBlockAckReq(rc, s), s)), h, w2, r2)
<1> DEFINE rc2 == AfterBar(rc, s)
           a == BlockAckFrame(s, FillBlockAckBitmap(UpdateWithBlockAckReq(rc, s), s))
<1>1. /\ Queues(o) /\ Recipient(rc, w, r, o.next) /\ Settled(o, rc, r) /\ Unheard(o, rc, BarFrame, w)
      /\ (h.failed = 0 => Complete(o, rc, h, w, r)) /\ o.next \in 1 .. MaxMsdus + 1 /\ Msdus \subseteq Int
      /\ Mine(o) \subseteq Msdus /\ o.next \in Int /\ w \in Int /\ r \in Int /\ w <= o.next
  BY QueueFacts DEF Synced
<1>2. BarFrame.st = "bar" /\ a.st = "ba" /\ a.start = s
      /\ a.bits = FillBlockAckBitmap(UpdateWithBlockAckReq(rc, s), s)
  BY AirFacts DEF BlockAckFrame
<1>3. o.cur # NoPacket /\ o.cur = Bar(s) /\ (\A m : o.cur # Data(m)) /\ Mine(o) = Kept(o)
  BY QueueFacts, CurFacts, PacketFacts DEF Mine
<1>4. /\ \A m \in Kept(o) : m \in Msdus /\ m \in Int /\ m < o.next /\ o.next - m <= Window
      /\ Again(o) \subseteq Kept(o) /\ \A m \in Again(o) : ~Bit(rc, w, m)
  BY <1>1, <1>3 DEF Queues, Unheard
<1>5. \/ \E x \in Kept(o) : Least(o, x) /\ s = Sn(x) /\ AsksFor(o) /\ ~AsksPast(o)
      \/ s = Sn(o.next) /\ AsksPast(o) /\ ~AsksFor(o) /\ NoWrap
  <2>1. CASE AsksFor(o)
    <3>1. PICK x \in Kept(o) : Least(o, x) /\ o.cur = Bar(Sn(x))
      BY <2>1 DEF AsksFor
    <3>2. s = Sn(x)
      BY <1>3, <3>1, PacketFacts
    <3>3. ~AsksPast(o)
      <4>1. x - o.next < SeqSpace /\ o.next - x < SeqSpace /\ x # o.next /\ x \in Int
        BY <1>1, <1>4, Sizes
      <4>2. Sn(x) # Sn(o.next)
        BY <1>1, <4>1, SnDiffers
      <4> QED BY <3>1, <4>2, PacketFacts DEF AsksPast
    <3> QED BY <2>1, <3>1, <3>2, <3>3
  <2>2. CASE ~AsksFor(o)
    <3>1. AsksPast(o)
      BY <1>1, <2>2 DEF Queues
    <3>2. s = Sn(o.next)
      BY <1>3, <3>1, PacketFacts DEF AsksPast
    <3>3. NoWrap
      BY <1>1, <3>1 DEF Insisted, Complete
    <3> QED BY <2>2, <3>1, <3>2, <3>3
  <2> QED BY <2>1, <2>2
<1>6. PICK x \in 1 .. o.next :
        /\ o.next - x <= Window /\ s = Sn(x)
        /\ \/ Least(o, x) /\ AsksFor(o) /\ ~AsksPast(o) /\ x <= r
           \/ x = o.next /\ AsksPast(o) /\ ~AsksFor(o) /\ NoWrap
  <2>1. CASE \E x \in Kept(o) : Least(o, x) /\ s = Sn(x) /\ AsksFor(o) /\ ~AsksPast(o)
    <3>1. PICK x \in Kept(o) : Least(o, x) /\ s = Sn(x) /\ AsksFor(o) /\ ~AsksPast(o)
      BY <2>1
    <3>2. x \in 1 .. o.next /\ \A m \in Mine(o) : x <= m
      BY <1>1, <1>3, <1>4, <3>1, Sizes DEF Msdus, Least
    <3>3. x <= r
      BY <1>1, <3>1, <3>2, Reached
    <3> QED BY <1>4, <3>1, <3>2, <3>3
  <2>2. CASE s = Sn(o.next) /\ AsksPast(o) /\ ~AsksFor(o) /\ NoWrap
    <3>1. o.next \in 1 .. o.next /\ o.next - o.next <= Window
      BY <1>1, Sizes
    <3> QED BY <2>2, <3>1
  <2> QED BY <1>5, <2>1, <2>2
<1>7. /\ \E w2, r2 \in 1 .. o.next : Moves(rc, w, r, rc2, w2, r2, o.next, x)
      /\ rc2.bits = UpdateWithBlockAckReq(rc, s).bits
  BY <1>1, <1>6, ReceiveBarFacts
<1>8. PICK w2 \in 1 .. o.next, r2 \in 1 .. o.next : Moves(rc, w, r, rc2, w2, r2, o.next, x)
  BY <1>7
<1>9. a.bits = FillBlockAckBitmap(rc2, s)
  BY <1>2, <1>7 DEF FillBlockAckBitmap
<1> HIDE DEF rc2, a
<1>10. /\ w2 = (IF x < w THEN w ELSE x) /\ Recipient(rc2, w2, r2, o.next) /\ x \in Int
       /\ \A m \in Int : Has(rc2, r2, m) <=> Has(rc, r, m) \/ m < x
       /\ \A m \in Msdus : (x <= m \/ NoWrap) /\ Bit(rc2, w2, m) => Bit(rc, w, m)
       /\ InTurn(rc, r) /\ x <= r => InTurn(rc2, r2)
  BY <1>8 DEF Moves
<1>11. ASSUME NEW m \in Kept(o), Bit(rc2, w2, m) PROVE Bit(rc, w, m)
  <2>1. x <= m \/ NoWrap
    BY <1>6 DEF Least
  <2> QED BY <1>4, <1>10, <1>11, <2>1
<1>12. \A m \in Again(o) : ~Bit(rc2, w2, m)
  BY <1>4, <1>11
<1>13. AsksFor(o) => \A m \in Kept(o) : x <= m
  BY <1>6 DEF Least
<1>14. ~AsksFor(o) => \A m \in Kept(o) : Bit(rc, w, m) => Least(o, m)
  BY <1>1, <1>2 DEF Unheard
<1>15. \A m \in Kept(o) : m < w2 /\ Bit(rc2, w2, m) => Least(o, m)
  <2> SUFFICES ASSUME NEW m \in Kept(o), m < w2, Bit(rc2, w2, m) PROVE Least(o, m)
    OBVIOUS
  <2>1. Bit(rc, w, m)
    BY <1>11
  <2>2. CASE AsksFor(o)
    <3>1. x <= m /\ m \in Int
      BY <1>4, <1>13, <2>2
    <3>2. m < w
      BY <1>1, <1>10, <3>1
    <3> QED BY <1>1, <2>1, <3>2 DEF Unheard
  <2>3. CASE ~AsksFor(o)
    BY <1>14, <2>1, <2>3
  <2> QED BY <2>2, <2>3
<1>16. Unheard(o, rc2, a, w2)
  BY <1>2, <1>11, <1>12, <1>14, <1>15 DEF Unheard
<1>17. Settled(o, rc2, r2)
  BY <1>1, <1>10 DEF Settled
<1>18. Answered(o, rc2, a, w2, r2)
  <2>1. AsksPast(o) => w2 = o.next
    BY <1>1, <1>6, <1>10
  <2>2. ASSUME NEW m \in Kept(o), Least(o, m), o.cur = Bar(Sn(m)) PROVE m <= w2
    <3>1. AsksFor(o)
      BY <2>2 DEF AsksFor
    <3>2. x \in Kept(o) /\ m <= x /\ m \in Int
      BY <1>4, <1>6, <2>2, <3>1 DEF Least
    <3> QED BY <1>1, <1>10, <3>2
  <2> QED BY <1>2, <1>9, <2>1, <2>2 DEF Answered
<1>19. h.failed = 0 => Complete(o, rc2, h, w2, r2)
  <2> SUFFICES ASSUME h.failed = 0, Complete(o, rc, h, w, r) PROVE Complete(o, rc2, h, w2, r2)
    BY <1>1
  <2>1. ~AsksPast(o) /\ AsksFor(o) /\ x <= r
    BY <1>6 DEF Complete
  <2>2. \A m \in Mine(o) : w2 <= m
    BY <1>3, <1>10, <1>13, <2>1 DEF Complete
  <2>3. h.acked \subseteq Int
    BY <1>1 DEF Hists
  <2>4. \A m \in h.acked : Has(rc2, r2, m)
    BY <1>10, <2>3 DEF Complete
  <2> QED BY <1>10, <1>12, <2>1, <2>2, <2>4 DEF Complete
<1>20. Synced(o, rc2, a, h, w2, r2)
  BY <1>1, <1>10, <1>16, <1>17, <1>18, <1>19 DEF Synced
<1> QED BY <1>20 DEF rc2, a

-----------------------------------------------------------------------------
(* The steps *)

Sync == Insisted(hist) => \E w, r \in 1 .. orig.next : Synced(orig, rcpt, air, hist, w, r)

\* What has been shown of values holds of the next state that has them.
LEMMA SyncCarried ==
  ASSUME NEW o, NEW rc, NEW a, NEW h,
         first' = first, orig' = o, rcpt' = rc, air' = a, hist' = h,
         NEW w \in 1 .. o.next, NEW r \in 1 .. o.next, Synced(o, rc, a, h, w, r)
  PROVE  Sync'
<1>1. \A n : Sn(n)' = Sn(n)
  BY DEF Sn
<1>2. Kept(orig)' = Kept(o) /\ Again(orig)' = Again(o) /\ Mine(orig)' = Mine(o) /\ Held(rcpt)' = Held(rc)
  BY DEF Kept, Again, Mine, Held
<1>3. \A n : Least(orig, n)' <=> Least(o, n)
  BY <1>2 DEF Least
<1>4. \A n : Bit(rcpt, w, n)' <=> Bit(rc, w, n)
  BY <1>1 DEF Bit
<1>5. \A n : Has(rcpt, r, n)' <=> Has(rc, r, n)
  BY <1>2 DEF Has
<1>6. (AsksPast(orig)' <=> AsksPast(o)) /\ (AsksFor(orig)' <=> AsksFor(o))
  BY <1>1, <1>2, <1>3 DEF AsksPast, AsksFor
<1>7. NoWrap' <=> NoWrap
  BY DEF NoWrap
<1>8. Queues(orig)'
  BY <1>1, <1>2, <1>3, <1>6, <1>7 DEF Synced, Queues
<1>9. Recipient(rcpt, w, r, orig.next)'
  BY <1>1, <1>2, <1>5, <1>7 DEF Synced, Recipient, Stored, Heard
<1>10. Settled(orig, rcpt, r)'
  BY <1>2, <1>5, <1>6 DEF Synced, Settled
<1>11. Unheard(orig, rcpt, air, w)'
  BY <1>2, <1>3, <1>4, <1>6 DEF Synced, Unheard
<1>12. FillBlockAckBitmap(rcpt, air.start)' = FillBlockAckBitmap(rc, a.start)
  BY DEF FillBlockAckBitmap
<1>13. Answered(orig, rcpt, air, w, r)'
  BY <1>1, <1>2, <1>3, <1>5, <1>6, <1>12 DEF Synced, Answered
<1>14. (hist.failed = 0 => Complete(orig, rcpt, hist, w, r))'
  BY <1>2, <1>4, <1>5, <1>6 DEF Synced, Complete, InTurn
<1>15. Synced(orig, rcpt, air, hist, w, r)'
  BY <1>8, <1>9, <1>10, <1>11, <1>13, <1>14 DEF Synced
<1> QED BY <1>15 DEF Sync

\* Both at the first packet.
LEMMA SyncInit == Types /\ Init => Sync
<1> SUFFICES ASSUME Types, Init PROVE Sync
  OBVIOUS
<1>1. /\ orig.next = 1 /\ orig.start = first /\ orig.pkts = <<>> /\ orig.retry = <<>>
      /\ orig.cur = NoPacket /\ orig.low = <<>>
      /\ rcpt.start = first /\ rcpt.buffer = <<>> /\ rcpt.wstart = first /\ rcpt.bits = {} /\ rcpt.up = <<>>
      /\ air = Idle /\ hist.acked = {} /\ first \in Numbers
  BY DEF Init, Types, Typed
<1>2. Sn(1) = first
  <2>1. first + 1 - 1 = first /\ 0 <= first /\ first < SeqSpace /\ first \in Int
    BY <1>1, Sizes DEF Numbers
  <2> QED BY <2>1, ModSmall, Sizes DEF Sn
<1>3. ToSet(<<>>) = {} /\ Sorted(<<>>)
  BY DEF ToSet, Sorted
<1>4. Kept(orig) = {} /\ Again(orig) = {} /\ Held(rcpt) = {} /\ ToSet(rcpt.up) = {}
  BY <1>1, <1>3 DEF Kept, Again, Held
<1>5. orig.cur.type = "none" /\ air.st = "idle" /\ (\A n : orig.cur # Data(n)) /\ ~AsksPast(orig)
  BY <1>1, PacketFacts, AirFacts DEF AsksPast
<1>6. Mine(orig) = {}
  BY <1>4, <1>5 DEF Mine
<1>7. Queues(orig)
  <2>1. NoWrap => orig.start <= Sn(orig.next)
    BY <1>1, <1>2, Sizes DEF Numbers
  <2> QED BY <1>1, <1>3, <1>4, <1>5, <1>6, <2>1 DEF Queues
<1>8. Recipient(rcpt, 1, 1, 1)
  <2>1. Windows(1, 1, 1)
    BY Sizes DEF Windows
  <2>2. \A n \in 1 .. 1 + Window - 1 : ~Has(rcpt, 1, n)
    BY <1>4, Sizes DEF Has
  <2> QED BY <1>1, <1>2, <1>3, <1>4, <2>1, <2>2 DEF Recipient, Stored, Heard
<1>9. Settled(orig, rcpt, 1)
  BY <1>1, Sizes DEF Settled, Msdus
<1>10. Unheard(orig, rcpt, air, 1) /\ Answered(orig, rcpt, air, 1, 1)
  BY <1>4, <1>5 DEF Unheard, Answered
<1>11. Complete(orig, rcpt, hist, 1, 1)
  BY <1>1, <1>4, <1>5, <1>6 DEF Complete, InTurn
<1>12. Synced(orig, rcpt, air, hist, 1, 1)
  BY <1>1, <1>7, <1>8, <1>9, <1>10, <1>11 DEF Synced
<1>13. 1 \in 1 .. orig.next
  BY <1>1
<1> QED BY <1>12, <1>13 DEF Sync

\* The frames that may go out with a current packet, or with none.
LEMMA SendSynced ==
  ASSUME NEW o \in Origs, NEW rc, NEW h, NEW w, NEW r, NEW b, Synced(o, rc, b, h, w, r),
         b.st \notin {"ampdu", "ba"}, NEW a \in {Idle, Rts, BarFrame, DataFrame(o)}
  PROVE  Synced(o, rc, a, h, w, r)
<1>1. a.st \notin {"ack", "ba"} /\ (a.st = "ampdu" => o.low # <<>> /\ a.rest = o.low)
  <2>1. CASE a \in {Idle, Rts, BarFrame}
    BY <2>1, AirFacts
  <2>2. CASE a = DataFrame(o)
    BY <2>2, AirFacts DEF DataFrame
  <2> QED BY <2>1, <2>2
<1> QED BY <1>1, FrameSynced

LEMMA SyncNotifyAccessGranted == Types /\ Sync /\ NotifyAccessGranted => Sync'
<1> SUFFICES ASSUME Types, Sync, NotifyAccessGranted, Insisted(hist)' PROVE Sync'
  BY DEF Sync
<1> DEFINE o == Granted(orig)
<1>1. /\ first \in Numbers /\ orig \in Origs /\ rcpt \in Rcpts /\ hist \in Hists /\ Shape(orig, air)
      /\ air = Idle
  BY DEF Types, Typed, NotifyAccessGranted
<1>2. orig.low # <<>> => orig.cur.type = "data"
  BY <1>1 DEF Shape
<1>3. o \in Origs /\ (o.low # <<>> => o.cur.type = "data")
  BY <1>1, <1>2, GrantedTyped
<1>4. /\ first' = first /\ rcpt' = rcpt /\ hist' = hist
      /\ \/ /\ o.cur.type # "data"
            /\ orig' = o /\ air' = IF o.cur = NoPacket THEN Idle ELSE BarFrame
         \/ /\ o.low # <<>>
            /\ orig' = o /\ air' = Rts
         \/ /\ o.cur.type = "data" /\ o.low = <<>>
            /\ \E c \in {NextRetry(o)} :
               \E all \in {Candidates(c, o.cur.msdu)} :
               \E k \in 0 .. Len(all) :
                 orig' = AggregateToAmpdu(c, o.cur.msdu, SubSeq(all, 1, k))
            /\ air' \in {Rts, DataFrame(orig')}
  BY DEF NotifyAccessGranted, Granted
<1>5. Insisted(hist)
  BY <1>4 DEF Insisted, NoWrap
<1>6. PICK w \in 1 .. orig.next, r \in 1 .. orig.next : Synced(orig, rcpt, Idle, hist, w, r)
  BY <1>1, <1>5 DEF Sync
<1>7. orig.next <= o.next /\ Synced(o, rcpt, Idle, hist, w, r)
  BY <1>1, <1>2, <1>6, GrantedSynced
<1> HIDE DEF o
<1>8. w \in 1 .. o.next /\ r \in 1 .. o.next /\ o.cur \in Curs /\ Idle.st = "idle"
  BY <1>1, <1>3, <1>6, <1>7, Sizes, AirFacts DEF Origs
<1>9. CASE o.cur.type # "data" /\ orig' = o /\ air' = IF o.cur = NoPacket THEN Idle ELSE BarFrame
  <2>1. Synced(o, rcpt, IF o.cur = NoPacket THEN Idle ELSE BarFrame, hist, w, r)
    BY <1>3, <1>7, <1>8, SendSynced
  <2> QED BY <1>4, <1>8, <1>9, <2>1, SyncCarried
<1>10. CASE o.low # <<>> /\ orig' = o /\ air' = Rts
  <2>1. Synced(o, rcpt, Rts, hist, w, r)
    BY <1>3, <1>7, <1>8, SendSynced
  <2> QED BY <1>4, <1>8, <1>10, <2>1, SyncCarried
<1>11. ASSUME o.cur.type = "data", o.low = <<>>,
              NEW k \in 0 .. Len(Candidates(NextRetry(o), o.cur.msdu)),
              orig' = AggregateToAmpdu(NextRetry(o), o.cur.msdu,
                                       SubSeq(Candidates(NextRetry(o), o.cur.msdu), 1, k)),
              air' \in {Rts, DataFrame(orig')}
       PROVE  Sync'
  <2> DEFINE c == NextRetry(o)
             n == o.cur.msdu
             more == SubSeq(Candidates(c, n), 1, k)
             g == AggregateToAmpdu(c, n, more)
  <2>1. c \in Origs /\ c.cur = o.cur /\ c.low = <<>> /\ c.next = o.next /\ n \in Msdus /\ o.cur = Data(n)
    BY <1>1, <1>3, <1>8, <1>11, NextRetryTyped, CurFacts
  <2>2. Alike(o, c)
    BY <1>1, <1>3, <1>7, NextRetryAlike DEF Synced
  <2> HIDE DEF c, n
  <2>3. Synced(c, rcpt, Idle, hist, w, r) /\ Queues(c)
    BY <1>7, <2>2, AlikeSynced DEF Synced
  <2>4. k \in 0 .. Len(Candidates(c, n)) /\ orig' = g
    BY <1>11 DEF c, n
  <2>5. /\ more \in Seq(Msdus) /\ Sorted(more)
        /\ \A m \in ToSet(more) : n < m /\ m < n + Window /\ (m < c.next => m \in Again(c))
        /\ \A m \in ToSet(more) : \A x \in Msdus : c.next <= x /\ x <= m => x \in ToSet(more)
    BY <1>1, <2>1, <2>3, <2>4, CandidatesFacts
  <2> HIDE DEF more
  <2>6. g \in Origs
    BY <1>1, <2>1, <2>5, AggregateToAmpduTyped
  <2>7. c.next <= g.next /\ Synced(g, rcpt, Idle, hist, w, r)
    <3>1. CASE more = <<>>
      <4>1. g = c
        BY <3>1 DEF AggregateToAmpdu
      <4>2. c.next \in Int
        BY <2>1, QueueFacts
      <4> QED BY <2>3, <4>1, <4>2
    <3>2. CASE more # <<>>
      <4>1. w \in 1 .. c.next /\ r \in 1 .. c.next /\ c.cur = Data(n)
        BY <1>8, <2>1
      <4> QED BY <1>1, <2>1, <2>3, <2>5, <3>2, <4>1, AggregateSynced
    <3> QED BY <3>1, <3>2
  <2> HIDE DEF g
  <2>8. w \in 1 .. g.next /\ r \in 1 .. g.next
    BY <1>3, <1>8, <2>1, <2>6, <2>7, QueueFacts
  <2>9. air' \in {Rts, DataFrame(g)}
    BY <1>11, <2>4
  <2>10. \A a \in {Rts, DataFrame(g)} : Synced(g, rcpt, a, hist, w, r)
    BY <1>8, <2>6, <2>7, SendSynced
  <2> QED BY <1>4, <2>4, <2>8, <2>9, <2>10, SyncCarried
<1> QED BY <1>4, <1>9, <1>10, <1>11

LEMMA SyncGotCts == Types /\ Sync /\ GotCts => Sync'
<1> SUFFICES ASSUME Types, Sync, GotCts, Insisted(hist)' PROVE Sync'
  BY DEF Sync
<1>1. /\ orig \in Origs /\ air = Rts /\ air' = DataFrame(orig) /\ UNCHANGED <<first, orig, rcpt, hist>>
  BY DEF Types, Typed, GotCts
<1>2. Insisted(hist)
  BY <1>1 DEF Insisted, NoWrap
<1>3. PICK w \in 1 .. orig.next, r \in 1 .. orig.next : Synced(orig, rcpt, Rts, hist, w, r)
  BY <1>1, <1>2 DEF Sync
<1>4. Synced(orig, rcpt, DataFrame(orig), hist, w, r)
  BY <1>1, <1>3, SendSynced, AirFacts
<1> QED BY <1>1, <1>4, SyncCarried

\* A missed CTS or ACK: the packet is sent again, or given up.
LEMMA GiveUpSync ==
  ASSUME Types, Sync, air.st \in {"rts", "single", "ack"}, first' = first, rcpt' = rcpt, air' = Idle,
         GiveUp \/ UNCHANGED <<orig, hist>>
  PROVE  Sync'
<1> SUFFICES ASSUME Insisted(hist)' PROVE Sync'
  BY DEF Sync
<1>1. first \in Numbers /\ orig \in Origs /\ rcpt \in Rcpts /\ hist \in Hists /\ Shape(orig, air)
  BY DEF Types, Typed
<1>2. CASE UNCHANGED <<orig, hist>>
  <2>1. Insisted(hist)
    BY <1>2 DEF Insisted, NoWrap
  <2>2. PICK w \in 1 .. orig.next, r \in 1 .. orig.next : Synced(orig, rcpt, air, hist, w, r)
    BY <2>1 DEF Sync
  <2>3. Synced(orig, rcpt, Idle, hist, w, r)
    BY <1>1, <2>2, SendSynced
  <2> QED BY <1>1, <1>2, <2>3, SyncCarried
<1>3. CASE GiveUp
  <2> DEFINE s == Sn(orig.next)
             o == [orig EXCEPT !.cur = Bar(s), !.low = <<>>]
             h == [hist EXCEPT !.failed = @ + 1, !.left = @ - 1]
  <2>1. s \in Numbers
    BY <1>1, SnNumber, Sizes DEF Origs
  <2>2. orig' = o /\ hist' = h
    BY <1>3 DEF GiveUp
  <2>3. h.failed # 0 /\ h.failed = hist.failed + 1
    BY <1>1 DEF Hists
  <2>4. Insisted(hist)
    <3>1. hist'.failed # 0
      BY <2>2, <2>3
    <3> QED BY <3>1 DEF Insisted, NoWrap
  <2> HIDE DEF h, s
  <2>5. /\ o \in Origs /\ o.cur = Bar(s) /\ o.low = <<>> /\ o.pkts = orig.pkts /\ o.retry = orig.retry
        /\ o.next = orig.next /\ o.start = orig.start
    <3>1. Bar(s) \in Curs /\ <<>> \in Seq(Msdus)
      BY <2>1, EmptySeq DEF Curs
    <3> QED BY <1>1, <3>1 DEF Origs
  <2> HIDE DEF o
  <2>6. PICK w \in 1 .. orig.next, r \in 1 .. orig.next : Synced(orig, rcpt, air, hist, w, r)
    BY <2>4 DEF Sync
  <2>7. orig.cur.type = "data"
    BY <1>1 DEF Shape
  <2>8. o.cur = Bar(Sn(orig.next)) /\ air.st \notin {"ampdu", "ba"}
    BY <2>5 DEF s
  <2>9. Synced(o, rcpt, Idle, h, w, r)
    BY <1>1, <2>3, <2>5, <2>6, <2>7, <2>8, GiveUpSynced
  <2>10. w \in 1 .. o.next /\ r \in 1 .. o.next
    BY <2>5
  <2> QED BY <2>2, <2>9, <2>10, SyncCarried
<1> QED BY <1>2, <1>3

LEMMA SyncMissedCts == Types /\ Sync /\ MissedCts => Sync'
BY GiveUpSync, AirFacts DEF MissedCts

LEMMA SyncMissedAck == Types /\ Sync /\ MissedAck => Sync'
<1> SUFFICES ASSUME Types, Sync, MissedAck PROVE Sync'
  OBVIOUS
<1>1. air.st \in {"single", "ack"}
  BY AirFacts DEF MissedAck
<1> QED BY <1>1, GiveUpSync DEF MissedAck

LEMMA SyncGotAck == Types /\ Sync /\ GotAck => Sync'
<1> SUFFICES ASSUME Types, Sync, GotAck, Insisted(hist)' PROVE Sync'
  BY DEF Sync
<1> DEFINE n == orig.cur.msdu
           c == [orig EXCEPT !.cur = NoPacket]
           g == RestartAccessIfNeeded(c)
           h == [hist EXCEPT !.acked = @ \cup {n}]
<1>1. /\ first \in Numbers /\ orig \in Origs /\ rcpt \in Rcpts /\ hist \in Hists /\ Shape(orig, air)
      /\ air = Ack /\ air' = Idle /\ UNCHANGED <<first, rcpt>> /\ orig' = g /\ hist' = h
  BY DEF Types, Typed, GotAck
<1>2. orig.cur.type = "data" /\ orig.low = <<>>
  BY <1>1, AirFacts DEF Shape
<1>3. n \in Msdus /\ orig.cur = Data(n)
  BY <1>1, <1>2, CurFacts DEF Origs
<1> HIDE DEF n
<1>4. h.failed = hist.failed /\ h.acked = hist.acked \cup {n}
  BY <1>1 DEF Hists
<1>5. /\ c \in Origs /\ c.cur = NoPacket /\ c.low = <<>> /\ c.pkts = orig.pkts /\ c.retry = orig.retry
      /\ c.next = orig.next /\ c.start = orig.start
  <2>1. NoPacket \in Curs
    BY DEF Curs
  <2> QED BY <1>1, <1>2, <2>1 DEF Origs
<1> HIDE DEF c, h
<1>6. Insisted(hist)
  BY <1>1, <1>4 DEF Insisted, NoWrap
<1>7. PICK w \in 1 .. orig.next, r \in 1 .. orig.next : Synced(orig, rcpt, Ack, hist, w, r)
  BY <1>1, <1>6 DEF Sync
<1>8. Synced(c, rcpt, Idle, h, w, r)
  BY <1>1, <1>2, <1>3, <1>4, <1>5, <1>7, GotAckSynced
<1>9. Alike(c, g)
  BY <1>1, <1>5, <1>8, RestartAlike DEF Synced
<1> HIDE DEF g
<1>10. Synced(g, rcpt, Idle, h, w, r)
  BY <1>8, <1>9, AlikeSynced
<1>11. w \in 1 .. g.next /\ r \in 1 .. g.next
  BY <1>5, <1>9 DEF Alike
<1> QED BY <1>1, <1>10, <1>11, SyncCarried

LEMMA SyncGotBlockAck == Types /\ Sync /\ GotBlockAck => Sync'
<1> SUFFICES ASSUME Types, Sync, GotBlockAck, Insisted(hist)' PROVE Sync'
  BY DEF Sync
<1> DEFINE lost == Lost(air, orig.pkts)
           n == NotifyGotBlockAck(orig, lost)
           c == [n EXCEPT !.cur = NoPacket, !.low = <<>>]
           g == RestartAccessIfNeeded(c)
           h == [hist EXCEPT !.acked = @ \cup (ToSet(orig.pkts) \ ToSet(lost))]
<1>1. /\ first \in Numbers /\ orig \in Origs /\ rcpt \in Rcpts /\ hist \in Hists /\ Shape(orig, air)
      /\ air.st = "ba" /\ air' = Idle /\ UNCHANGED <<first, rcpt>> /\ orig' = g /\ hist' = h
  BY DEF Types, Typed, GotBlockAck, Lost
<1>2. lost \in Seq(Msdus)
  <2>1. orig.pkts \in Seq(Msdus)
    BY <1>1 DEF Origs
  <2> QED BY <2>1, LostFacts
<1>3. h.failed = hist.failed /\ h.acked = hist.acked \cup (Kept(orig) \ ToSet(lost))
  BY <1>1 DEF Hists, Kept
<1> HIDE DEF lost, h
<1>4. /\ n \in Origs /\ n.next = orig.next /\ n.pkts = lost
      /\ n.retry = InsertAll(orig.retry, Without(lost, ToSet(orig.retry)))
      /\ n.start = IF lost = <<>> THEN Sn(orig.next) ELSE Sn(lost[1])
  BY <1>1, <1>2, NotifyGotBlockAckTyped
<1> HIDE DEF n
<1>5. /\ c \in Origs /\ c.cur = NoPacket /\ c.low = <<>> /\ c.pkts = n.pkts /\ c.retry = n.retry
      /\ c.next = n.next /\ c.start = n.start
  <2>1. NoPacket \in Curs /\ <<>> \in Seq(Msdus)
    BY EmptySeq DEF Curs
  <2> QED BY <1>4, <2>1 DEF Origs
<1> HIDE DEF c
<1>6. Insisted(hist)
  BY <1>1, <1>3 DEF Insisted, NoWrap
<1>7. PICK w \in 1 .. orig.next, r \in 1 .. orig.next : Synced(orig, rcpt, air, hist, w, r)
  BY <1>6 DEF Sync
<1>8. /\ c.pkts = Lost(air, orig.pkts) /\ c.next = orig.next
      /\ c.retry = InsertAll(orig.retry, Without(c.pkts, Again(orig)))
      /\ c.start = (IF c.pkts = <<>> THEN Sn(orig.next) ELSE Sn(c.pkts[1]))
      /\ h.acked = hist.acked \cup (Kept(orig) \ ToSet(Lost(air, orig.pkts)))
  BY <1>3, <1>4, <1>5 DEF Again, lost
<1>9. Synced(c, rcpt, Idle, h, w, r)
  BY <1>1, <1>3, <1>5, <1>7, <1>8, GotBlockAckSynced
<1>10. Alike(c, g)
  BY <1>1, <1>5, <1>9, RestartAlike DEF Synced
<1> HIDE DEF g
<1>11. Synced(g, rcpt, Idle, h, w, r)
  BY <1>9, <1>10, AlikeSynced
<1>12. w \in 1 .. g.next /\ r \in 1 .. g.next
  BY <1>8, <1>10 DEF Alike
<1> QED BY <1>1, <1>11, <1>12, SyncCarried

LEMMA SyncMissedBlockAck == Types /\ Sync /\ MissedBlockAck => Sync'
<1> SUFFICES ASSUME Types, Sync, MissedBlockAck, Insisted(hist)' PROVE Sync'
  BY DEF Sync
<1> DEFINE b == CleanupBuffers(orig)
           c == [b EXCEPT !.low = <<>>]
           s == IF orig.cur.type = "data" THEN Sn(orig.cur.msdu) ELSE orig.cur.start
           d == [c EXCEPT !.cur = Bar(s)]
           g == IF NeedBarRetransmission(c, s) THEN d
                ELSE RestartAccessIfNeeded([c EXCEPT !.cur = NoPacket])
<1>1. /\ first \in Numbers /\ orig \in Origs /\ rcpt \in Rcpts /\ hist \in Hists
      /\ AirTyped(air) /\ Shape(orig, air)
      /\ air.st = "ba" \/ air = BarFrame \/ air = Ampdu(<<>>, FALSE)
      /\ air' = Idle /\ UNCHANGED <<first, rcpt, hist>> /\ orig' = g
  BY DEF Types, Typed, MissedBlockAck
<1>2. air.st \in {"ba", "bar", "ampdu"}
  <2>1. BarFrame.st = "bar" /\ Ampdu(<<>>, FALSE).st = "ampdu"
    BY DEF BarFrame, Ampdu
  <2> QED BY <1>1, <2>1
<1>3. s \in Numbers
  <2>1. orig.cur \in Curs /\ orig.cur.type \in {"data", "bar"}
    BY <1>1, <1>2 DEF Origs, Shape
  <2>2. orig.cur.type = "data" => orig.cur.msdu \in Int
    BY <2>1, CurFacts, Sizes DEF Msdus
  <2> QED BY <1>1, <2>1, <2>2, CurFacts, SnNumber
<1> HIDE DEF s
<1>4. /\ b \in Origs /\ b.next = orig.next /\ b.pkts = orig.pkts /\ b.retry = orig.retry
      /\ b.start = IF orig.pkts = <<>> THEN orig.start ELSE Sn(orig.pkts[1])
  BY <1>1, CleanupBuffersTyped
<1> HIDE DEF b
<1>5. c \in Origs /\ c.low = <<>> /\ c.next = b.next /\ c.pkts = b.pkts /\ c.retry = b.retry /\ c.start = b.start
  <2>1. <<>> \in Seq(Msdus)
    BY EmptySeq
  <2> QED BY <1>4, <2>1 DEF Origs
<1> HIDE DEF c
<1>6. /\ d \in Origs /\ d.cur = Bar(s) /\ d.low = <<>> /\ d.next = c.next /\ d.pkts = c.pkts
      /\ d.retry = c.retry /\ d.start = c.start
  <2>1. Bar(s) \in Curs
    BY <1>3 DEF Curs
  <2> QED BY <1>5, <2>1 DEF Origs
<1> HIDE DEF d
<1>7. Insisted(hist)
  BY <1>1 DEF Insisted, NoWrap
<1>8. PICK w \in 1 .. orig.next, r \in 1 .. orig.next : Synced(orig, rcpt, air, hist, w, r)
  BY <1>7 DEF Sync
<1>9. /\ d.next = orig.next /\ d.pkts = orig.pkts /\ d.retry = orig.retry
      /\ d.start = (IF orig.pkts = <<>> THEN orig.start ELSE Sn(orig.pkts[1]))
  BY <1>4, <1>5, <1>6
<1>10. s = IF orig.cur.type = "data" THEN Sn(orig.cur.msdu) ELSE orig.cur.start
  BY DEF s
<1>11. NeedBarRetransmission(d, s) /\ Synced(d, rcpt, Idle, hist, w, r)
  BY <1>1, <1>2, <1>3, <1>6, <1>7, <1>8, <1>9, <1>10, MissedBlockAckSynced
<1>12. g = d
  BY <1>6, <1>11 DEF NeedBarRetransmission
<1> HIDE DEF g
<1>13. w \in 1 .. d.next /\ r \in 1 .. d.next
  BY <1>9
<1> QED BY <1>1, <1>11, <1>12, <1>13, SyncCarried

LEMMA SyncReceiveSingle == Types /\ Sync /\ ReceiveSingle => Sync'
<1> SUFFICES ASSUME Types, Sync, ReceiveSingle, Insisted(hist)' PROVE Sync'
  BY DEF Sync
<1> DEFINE n == orig.cur.msdu
           x == ForwardUntilFirstLost(ForwardSmaller(ReceiveMpdu(rcpt, n)))
<1>1. /\ first \in Numbers /\ orig \in Origs /\ rcpt \in Rcpts /\ hist \in Hists /\ Shape(orig, air)
      /\ air = Single /\ air' = Ack /\ UNCHANGED <<first, orig, hist>> /\ rcpt' = x
  BY DEF Types, Typed, ReceiveSingle
<1>2. orig.cur.type = "data" /\ orig.low = <<>>
  BY <1>1, AirFacts DEF Shape
<1>3. n \in Msdus /\ orig.cur = Data(n)
  BY <1>1, <1>2, CurFacts DEF Origs
<1> HIDE DEF n
<1>4. Insisted(hist)
  BY <1>1 DEF Insisted, NoWrap
<1>5. PICK w \in 1 .. orig.next, r \in 1 .. orig.next : Synced(orig, rcpt, Single, hist, w, r)
  BY <1>1, <1>4 DEF Sync
<1>6. PICK w2 \in 1 .. orig.next, r2 \in 1 .. orig.next : Synced(orig, x, Ack, hist, w2, r2)
  BY <1>1, <1>2, <1>3, <1>5, ReceiveSingleSynced
<1> HIDE DEF x
<1> QED BY <1>1, <1>6, SyncCarried

\* What is left of an A-MPDU.
LEMMA AmpduParts ==
  ASSUME Types, air.st = "ampdu"
  PROVE  air.rest \in Seq(Msdus) /\ air.heard \in BOOLEAN /\ air = Ampdu(air.rest, air.heard) /\ orig.low # <<>>
BY AirParts DEF Types, Typed, Shape

LEMMA SyncReceiveInAmpdu == ASSUME Types, Sync, NEW n \in Msdus, ReceiveInAmpdu(n) PROVE Sync'
<1> SUFFICES ASSUME Insisted(hist)' PROVE Sync'
  BY DEF Sync
<1> DEFINE a == Ampdu(Tail(air.rest), TRUE)
           x == ReceiveMpdu(rcpt, Head(air.rest))
<1>1. /\ first \in Numbers /\ orig \in Origs /\ rcpt \in Rcpts /\ hist \in Hists
      /\ air.st = "ampdu" /\ air.rest # <<>> /\ air' = a
      /\ UNCHANGED <<first, orig, hist>> /\ rcpt' = x
  BY DEF Types, Typed, ReceiveInAmpdu
<1>2. air.rest \in Seq(Msdus) /\ air.heard \in BOOLEAN /\ air = Ampdu(air.rest, air.heard) /\ orig.low # <<>>
  BY <1>1, AmpduParts
<1>3. Insisted(hist)
  BY <1>1 DEF Insisted, NoWrap
<1>4. PICK w \in 1 .. orig.next, r \in 1 .. orig.next :
        Synced(orig, rcpt, Ampdu(air.rest, air.heard), hist, w, r)
  BY <1>2, <1>3 DEF Sync
<1>5. PICK w2 \in 1 .. orig.next, r2 \in 1 .. orig.next : Synced(orig, x, a, hist, w2, r2)
  BY <1>1, <1>2, <1>4, ReceiveInAmpduSynced
<1> HIDE DEF a, x
<1> QED BY <1>1, <1>5, SyncCarried

LEMMA SyncLoseInAmpdu == Types /\ Sync /\ LoseInAmpdu => Sync'
<1> SUFFICES ASSUME Types, Sync, LoseInAmpdu, Insisted(hist)' PROVE Sync'
  BY DEF Sync
<1> DEFINE a == Ampdu(Tail(air.rest), air.heard)
<1>1. air.st = "ampdu" /\ air.rest # <<>> /\ air' = a /\ UNCHANGED <<first, orig, rcpt, hist>>
  BY DEF LoseInAmpdu
<1>2. air.rest \in Seq(Msdus) /\ air.heard \in BOOLEAN /\ air = Ampdu(air.rest, air.heard)
  BY <1>1, AmpduParts
<1>3. Insisted(hist)
  BY <1>1 DEF Insisted, NoWrap
<1>4. PICK w \in 1 .. orig.next, r \in 1 .. orig.next :
        Synced(orig, rcpt, Ampdu(air.rest, air.heard), hist, w, r)
  BY <1>2, <1>3 DEF Sync
<1>5. Synced(orig, rcpt, a, hist, w, r)
  BY <1>1, <1>2, <1>4, LoseInAmpduSynced
<1> HIDE DEF a
<1> QED BY <1>1, <1>5, SyncCarried

LEMMA SyncSendBlockAckAfterAmpdu == Types /\ Sync /\ SendBlockAckAfterAmpdu => Sync'
<1> SUFFICES ASSUME Types, Sync, SendBlockAckAfterAmpdu, Insisted(hist)' PROVE Sync'
  BY DEF Sync
<1> DEFINE a == BlockAckFrame(rcpt.wstart, FillBlockAckBitmap(rcpt, rcpt.wstart))
<1>1. air = Ampdu(<<>>, TRUE) /\ air' = a /\ UNCHANGED <<first, orig, rcpt, hist>>
  BY DEF SendBlockAckAfterAmpdu
<1>2. orig.low # <<>>
  BY <1>1, AmpduParts, AirFacts
<1>3. Insisted(hist)
  BY <1>1 DEF Insisted, NoWrap
<1>4. PICK w \in 1 .. orig.next, r \in 1 .. orig.next : Synced(orig, rcpt, Ampdu(<<>>, TRUE), hist, w, r)
  BY <1>1, <1>3 DEF Sync
<1>5. Synced(orig, rcpt, a, hist, w, r)
  BY <1>2, <1>4, SendBlockAckSynced
<1> HIDE DEF a
<1> QED BY <1>1, <1>5, SyncCarried

LEMMA SyncReceiveBar == Types /\ Sync /\ ReceiveBar => Sync'
<1> SUFFICES ASSUME Types, Sync, ReceiveBar, Insisted(hist)' PROVE Sync'
  BY DEF Sync
<1> DEFINE s == orig.cur.start
           x == AfterBar(rcpt, s)
           a == BlockAckFrame(s, FillBlockAckBitmap(UpdateWithBlockAckReq(rcpt, s), s))
<1>1. /\ first \in Numbers /\ orig \in Origs /\ rcpt \in Rcpts /\ hist \in Hists /\ Shape(orig, air)
      /\ air = BarFrame /\ air' = a /\ UNCHANGED <<first, orig, hist>> /\ rcpt' = x
  BY DEF Types, Typed, ReceiveBar, AfterBar
<1>2. orig.cur.type = "bar" /\ orig.low = <<>>
  BY <1>1, AirFacts DEF Shape
<1>3. s \in Numbers
  BY <1>1, <1>2, CurFacts DEF Origs
<1>4. Insisted(hist)
  BY <1>1 DEF Insisted, NoWrap
<1>5. PICK w \in 1 .. orig.next, r \in 1 .. orig.next : Synced(orig, rcpt, BarFrame, hist, w, r)
  BY <1>1, <1>4 DEF Sync
<1>6. PICK w2 \in 1 .. orig.next, r2 \in 1 .. orig.next : Synced(orig, x, a, hist, w2, r2)
  BY <1>1, <1>2, <1>3, <1>4, <1>5, ReceiveBarSynced
<1> HIDE DEF x, a
<1> QED BY <1>1, <1>6, SyncCarried

LEMMA SyncNext == Types /\ Sync /\ [Next]_vars => Sync'
<1> SUFFICES ASSUME Types, Sync, [Next]_vars PROVE Sync'
  OBVIOUS
<1>1. CASE UNCHANGED vars
  <2> SUFFICES ASSUME Insisted(hist)' PROVE Sync'
    BY DEF Sync
  <2>1. first' = first /\ orig' = orig /\ rcpt' = rcpt /\ air' = air /\ hist' = hist
    BY <1>1 DEF vars
  <2>2. Insisted(hist)
    BY <2>1 DEF Insisted, NoWrap
  <2>3. PICK w \in 1 .. orig.next, r \in 1 .. orig.next : Synced(orig, rcpt, air, hist, w, r)
    BY <2>2 DEF Sync
  <2> QED BY <2>1, <2>3, SyncCarried
<1>2. CASE \E n \in Msdus : ReceiveInAmpdu(n)
  BY <1>2, SyncReceiveInAmpdu
<1> QED BY <1>1, <1>2, SyncNotifyAccessGranted, SyncGotCts, SyncMissedCts, SyncGotAck, SyncMissedAck,
           SyncGotBlockAck, SyncMissedBlockAck, SyncReceiveSingle, SyncLoseInAmpdu,
           SyncSendBlockAckAfterAmpdu, SyncReceiveBar DEF Next

\* The two ends know each other's windows: the inductive invariant of the properties.
LEMMA BothEnds == Spec => [](Types /\ TypeOK /\ Sync)
BY TypesInit, TypesNext, TypeCorrect, SyncInit, SyncNext, PTL DEF Spec

\* With any losses, and given up or not unless a request may be thrown away: what is to be
\* sent again is in the buffer of the originator, and all of the buffer is to be sent again
\* while no block ack is awaited.
THEOREM TrackedHolds == Spec => []Tracked
<1>1. Types /\ TypeOK /\ Sync => Tracked
  <2> SUFFICES ASSUME Types, TypeOK, Sync, BarsInsisted
               PROVE  /\ ToSet(orig.retry) \subseteq ToSet(orig.pkts)
                      /\ Awaited \/ ToSet(orig.pkts) = ToSet(orig.retry)
    BY DEF Tracked
  <2>1. PICK w \in 1 .. orig.next, r \in 1 .. orig.next : Synced(orig, rcpt, air, hist, w, r)
    BY DEF Sync, Insisted, BarsInsisted, NothingGivenUp, NoWrap
  <2>2. Queues(orig)
    BY <2>1 DEF Synced
  <2> QED BY <2>2 DEF Queues, Kept, Again, Awaited
<1> QED BY <1>1, BothEnds, PTL

\* The recipient passes packets up in order and once, and with nothing given up all of them.
THEOREM InSequenceHolds == Spec => []InSequence
<1>1. Types /\ TypeOK /\ Sync => InSequence
  <2> SUFFICES ASSUME Types, Sync PROVE InSequence
    OBVIOUS
  <2>1. rcpt.up \in Seq(Msdus)
    BY DEF Types, Typed, Rcpts
  <2>2. Len(rcpt.up) \in Nat /\ DOMAIN rcpt.up = 1 .. Len(rcpt.up)
    BY <2>1, ToSetFacts
  <2>3. ASSUME BarsInsisted, NEW i \in 1 .. Len(rcpt.up) - 1 PROVE rcpt.up[i] < rcpt.up[i + 1]
    <3>1. PICK w \in 1 .. orig.next, r \in 1 .. orig.next : Synced(orig, rcpt, air, hist, w, r)
      BY <2>3 DEF Sync, Insisted, BarsInsisted, NothingGivenUp, NoWrap
    <3>2. Sorted(rcpt.up)
      BY <3>1 DEF Synced, Recipient, Stored
    <3>3. i \in DOMAIN rcpt.up /\ i + 1 \in DOMAIN rcpt.up /\ i < i + 1
      BY <2>2
    <3> QED BY <3>2, <3>3 DEF Sorted
  <2>4. ASSUME NothingGivenUp, NEW i \in 1 .. Len(rcpt.up) PROVE rcpt.up[i] = i
    <3>1. PICK w \in 1 .. orig.next, r \in 1 .. orig.next : Synced(orig, rcpt, air, hist, w, r)
      BY <2>4 DEF Sync, Insisted, NothingGivenUp
    <3>2. InTurn(rcpt, r)
      BY <2>4, <3>1 DEF Synced, Complete, NothingGivenUp
    <3> QED BY <3>2 DEF InTurn
  <2> QED BY <2>3, <2>4 DEF InSequence
<1> QED BY <1>1, BothEnds, PTL

\* With nothing given up: what the originator takes for acknowledged the recipient has, and
\* what the recipient has is not sent again once the originator has an answer.
THEOREM EndsAgreeHolds == Spec => []EndsAgree
<1>1. Types /\ TypeOK /\ Sync => EndsAgree
  <2> SUFFICES ASSUME Types, Sync, NothingGivenUp
               PROVE  /\ hist.acked \subseteq Forwarded \cup Buffered
                      /\ ToSet(orig.retry) \cap (Forwarded \cup Buffered) = {}
    BY DEF EndsAgree
  <2>1. PICK w \in 1 .. orig.next, r \in 1 .. orig.next : Synced(orig, rcpt, air, hist, w, r)
    BY DEF Sync, Insisted, NothingGivenUp
  <2>2. Complete(orig, rcpt, hist, w, r) /\ Recipient(rcpt, w, r, orig.next) /\ Queues(orig)
    BY <2>1 DEF Synced, NothingGivenUp
  <2>3. /\ orig \in Origs /\ rcpt \in Rcpts /\ hist.acked \subseteq Msdus /\ Msdus \subseteq Int
        /\ orig.next \in Int /\ w \in Int /\ r \in Int
    BY QueueFacts DEF Types, Typed, Hists
  <2>4. rcpt.up \in Seq(Msdus) /\ Len(rcpt.up) = r - 1 /\ \A i \in 1 .. r - 1 : rcpt.up[i] = i
    BY <2>2, <2>3 DEF Complete, InTurn, Rcpts
  <2>5. \A n : n \in Forwarded <=> n \in 1 .. r - 1
    <3>1. \A n : n \in Forwarded <=> \E i \in 1 .. r - 1 : n = rcpt.up[i]
      BY <2>4, ToSetFacts DEF Forwarded
    <3> QED BY <2>4, <3>1
  <2>6. ASSUME NEW n \in hist.acked PROVE n \in Forwarded \cup Buffered
    <3>1. Has(rcpt, r, n) /\ n \in Int /\ 1 <= n
      BY <2>2, <2>3, Sizes DEF Complete, Msdus
    <3> QED BY <2>3, <2>5, <3>1 DEF Has, Held, Buffered
  <2>7. ASSUME NEW n \in ToSet(orig.retry), n \in Forwarded \cup Buffered PROVE FALSE
    <3>1. n \in Again(orig) /\ n \in Mine(orig) /\ n \in Int
      BY <2>2, <2>3, QueueFacts DEF Queues, Again, Mine
    <3>2. w <= n /\ ~Bit(rcpt, w, n)
      BY <2>2, <3>1 DEF Complete
    <3>3. Has(rcpt, r, n) /\ n < w + Window
      <4>1. CASE n \in Forwarded
        BY <2>2, <2>3, <2>5, <3>1, <4>1, Sizes DEF Has, Recipient, Stored, Windows
      <4>2. CASE n \in Buffered
        BY <2>2, <4>2 DEF Has, Held, Buffered, Recipient, Stored
      <4> QED BY <2>7, <4>1, <4>2
    <3>4. n \in w .. w + Window - 1
      BY <2>3, <3>1, <3>2, <3>3, Sizes
    <3>5. Sn(n) \in rcpt.bits
      BY <2>2, <3>3, <3>4 DEF Recipient, Stored, Heard
    <3> QED BY <3>2, <3>3, <3>5 DEF Bit
  <2> QED BY <2>6, <2>7
<1> QED BY <1>1, BothEnds, PTL
=============================================================================
