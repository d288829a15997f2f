------------------------- MODULE RaydiumClient_proofs -------------------------
(***************************************************************************)
(* Proofs about RaydiumClient, for every u64 and u8 value of the fields    *)
(* and whatever bytes follow the packed ones.  The recursive functions of  *)
(* RaydiumInstructions are shown to exist and to follow their equations,   *)
(* and what they compute is proved by induction, in terms of sets.  Then   *)
(* the account lists, for every choice of accounts that a client may give. *)
(***************************************************************************)
EXTENDS RaydiumClient, SequenceTheorems, FiniteSetTheorems, WellFoundedInduction, TLAPS

-----------------------------------------------------------------------------
(* Induction and recursion up to a bound.                                  *)

LEMMA LeastNumber ==
    ASSUME NEW T, T \subseteq Nat, T # {}
    PROVE  \E m \in T : \A k \in T : m <= k
<1> DEFINE below == {ss \in Nat \X Nat : ss[1] < ss[2]}
<1>1. below = OpToRel(<, Nat)
  BY DEF OpToRel
<1>2. IsWellFoundedOn(below, Nat)
  BY <1>1, NatLessThanWellFounded
<1> HIDE DEF below
<1>3. PICK m \in T : \A k \in T : ~ (<<k, m>> \in below)
  BY <1>2, WFMin
<1>4. \A k \in T : ~ (k < m)
  BY <1>3 DEF below
<1> QED
  BY <1>4

LEMMA NextPlace ==
    ASSUME NEW n \in Nat, NEW i \in 0..n - 1
    PROVE  i + 1 \in 0..n /\ i + 1 \in 1..n /\ (i + 1) - 1 = i
OBVIOUS

LEMMA Within ==
    ASSUME NEW start \in Nat, NEW width \in Nat, NEW total \in Nat, NEW length \in Nat,
           start + width <= total, length >= total, NEW k \in start + 1..start + width
    PROVE  k \in 1..length
OBVIOUS

(* What holds at the start and from each number to the next holds up to n. *)
LEMMA Climb ==
    ASSUME NEW n \in Nat, NEW T, 0 \in T,
           \A i \in 0..n - 1 : i \in T => i + 1 \in T
    PROVE  \A i \in 0..n : i \in T
<1> DEFINE Bad == {i \in 0..n : i \notin T}
<1>1. SUFFICES ASSUME Bad # {} PROVE FALSE
  OBVIOUS
<1>a. Bad \subseteq Nat
  OBVIOUS
<1>2. PICK m \in Bad : \A k \in Bad : m <= k
  <2> HIDE DEF Bad
  <2> QED
    BY <1>1, <1>a, LeastNumber
<1>3. m - 1 \in 0..n - 1 /\ m - 1 \notin Bad
  BY <1>2
<1> QED
  BY <1>2, <1>3

LEMMA ClimbFromOne ==
    ASSUME NEW n \in Nat, NEW T, 1 \in T,
           \A i \in 1..n - 1 : i \in T => i + 1 \in T
    PROVE  \A i \in 1..n : i \in T
<1> DEFINE U == T \union {0}
<1>1. 0 \in U /\ \A i \in 0..n - 1 : i \in U => i + 1 \in U
  OBVIOUS
<1> HIDE DEF U
<1>2. \A i \in 0..n : i \in U
  BY <1>1, Climb
<1> QED
  BY <1>2 DEF U

(* A function that starts at base and takes a step at every number.        *)
Follows(g, n, base, step) ==
    g[0] = base /\ \A i \in 1..n : g[i] = step[i][g[i - 1]]

LEMMA RecursionExists ==
    ASSUME NEW V, NEW base \in V, NEW n \in Nat, NEW step \in [1..n -> [V -> V]]
    PROVE  \E g \in [0..n -> V] : Follows(g, n, base, step)
<1> DEFINE T == {i \in 0..n : \E g \in [0..i -> V] : Follows(g, i, base, step)}
<1>1. 0 \in T
  <2> DEFINE g == [i \in 0..0 |-> base]
  <2>1. g \in [0..0 -> V] /\ Follows(g, 0, base, step)
    BY DEF Follows
  <2> QED
    BY <2>1
<1>2. ASSUME NEW i \in 0..n - 1, i \in T PROVE i + 1 \in T
  <2>1. PICK g \in [0..i -> V] : Follows(g, i, base, step)
    BY <1>2
  <2> DEFINE h == [j \in 0..i + 1 |-> IF j = i + 1 THEN step[i + 1][g[i]] ELSE g[j]]
  <2>2. h \in [0..i + 1 -> V]
    BY <2>1
  <2>3. Follows(h, i + 1, base, step)
    BY <2>1 DEF Follows
  <2> QED
    BY <2>2, <2>3
<1> HIDE DEF T
<1>3. \A i \in 0..n : i \in T
  BY <1>1, <1>2, Climb
<1> QED
  BY <1>3 DEF T

-----------------------------------------------------------------------------
(* The functions of RaydiumInstructions, one step after the other.         *)
PowerOver(width, g) ==
    g = [i \in 0..width |-> IF i = 0 THEN 1 ELSE g[i - 1] * ByteBase]

LEMMA ValuesIsPower ==
    ASSUME NEW width \in Nat
    PROVE  \E power \in [0..width -> Nat] :
              /\ power[0] = 1 /\ Values(width) = power[width]
              /\ \A i \in 1..width : power[i] = power[i - 1] * ByteBase
<1> DEFINE step == [i \in 1..width |-> [x \in Nat |-> x * ByteBase]]
           power == CHOOSE g : PowerOver(width, g)
<1>1. step \in [1..width -> [Nat -> Nat]]
  BY BufferAssumption
<1>2. \A i \in 1..width, x \in Nat : step[i][x] = x * ByteBase
  OBVIOUS
<1> HIDE DEF step
<1>3. PICK g \in [0..width -> Nat] : Follows(g, width, 1, step)
  BY <1>1, RecursionExists
<1>4. PowerOver(width, g)
  <2>1. \A i \in 1..width : g[i] = g[i - 1] * ByteBase
    BY <1>2, <1>3 DEF Follows
  <2> QED
    BY <1>3, <2>1 DEF PowerOver, Follows
<1>5. PowerOver(width, power)
  BY <1>4
<1>6. Values(width) = power[width]
  BY DEF Values, PowerOver
<1> HIDE DEF power
<1>7. DOMAIN power = 0..width /\ power = [i \in 0..width |-> power[i]]
  BY <1>5 DEF PowerOver
<1>8. power[0] = 1 /\ \A i \in 1..width : power[i] = power[i - 1] * ByteBase
  BY <1>5 DEF PowerOver
<1>9. \A i \in 0..width : power[i] \in Nat
  <2> DEFINE T == {i \in 0..width : power[i] \in Nat}
  <2>1. 0 \in T
    BY <1>8
  <2>2. ASSUME NEW i \in 0..width - 1, i \in T PROVE i + 1 \in T
    BY <1>8, <2>2, BufferAssumption
  <2> HIDE DEF T
  <2>3. \A i \in 0..width : i \in T
    BY <2>1, <2>2, Climb
  <2> QED
    BY <2>3 DEF T
<1> QED
  BY <1>6, <1>7, <1>8, <1>9

LEMMA Base == ByteBase \in Nat /\ ByteBase > 0
  BY BufferAssumption

LEMMA Division ==
    ASSUME NEW a \in Nat, NEW b \in Nat, b > 0
    PROVE  /\ a \div b \in Nat /\ a % b \in 0..b - 1
           /\ a = (a \div b) * b + (a % b)
           /\ \A p \in Nat : a < p * b => a \div b < p
<1>1. a \div b \in Nat /\ a % b \in 0..b - 1 /\ a = (a \div b) * b + (a % b)
  OBVIOUS
<1>2. ASSUME NEW p \in Nat, a < p * b PROVE a \div b < p
  BY <1>2
<1> QED
  BY <1>1, <1>2

(* What is left of n when its first i bytes are taken.                     *)
RestOver(n, width, g) ==
    g = [i \in 0..width |-> IF i = 0 THEN n ELSE g[i - 1] \div ByteBase]

LEMMA ToBytesTakesRests ==
    ASSUME NEW n \in Nat, NEW width \in Nat
    PROVE  \E rest \in [0..width -> Nat] :
              /\ rest[0] = n
              /\ \A i \in 1..width : rest[i] = rest[i - 1] \div ByteBase
              /\ ToBytes(n, width) = [i \in 1..width |-> rest[i - 1] % ByteBase]
<1> DEFINE step == [i \in 1..width |-> [x \in Nat |-> x \div ByteBase]]
           rest == CHOOSE g : RestOver(n, width, g)
<1>1. step \in [1..width -> [Nat -> Nat]]
  BY BufferAssumption
<1>2. \A i \in 1..width, x \in Nat : step[i][x] = x \div ByteBase
  OBVIOUS
<1> HIDE DEF step
<1>3. PICK g \in [0..width -> Nat] : Follows(g, width, n, step)
  BY <1>1, RecursionExists
<1>4. RestOver(n, width, g)
  <2>1. \A i \in 1..width : g[i] = g[i - 1] \div ByteBase
    BY <1>2, <1>3 DEF Follows
  <2> QED
    BY <1>3, <2>1 DEF RestOver, Follows
<1>5. RestOver(n, width, rest)
  BY <1>4
<1>6. ToBytes(n, width) = [i \in 1..width |-> rest[i - 1] % ByteBase]
  BY DEF ToBytes, RestOver
<1> HIDE DEF rest
<1>7. DOMAIN rest = 0..width /\ rest = [i \in 0..width |-> rest[i]]
  BY <1>5 DEF RestOver
<1>8. rest[0] = n /\ \A i \in 1..width : rest[i] = rest[i - 1] \div ByteBase
  BY <1>5 DEF RestOver
<1>9. \A i \in 0..width : rest[i] \in Nat
  <2> DEFINE T == {i \in 0..width : rest[i] \in Nat}
  <2>1. 0 \in T
    BY <1>8
  <2>2. ASSUME NEW i \in 0..width - 1, i \in T PROVE i + 1 \in T
    <3>1. rest[i + 1] = rest[i] \div ByteBase /\ rest[i] \in Nat
      BY <1>8, <2>2
    <3>2. rest[i] \div ByteBase \in Nat
      BY <3>1, Division, Base
    <3> QED
      BY <3>1, <3>2
  <2> HIDE DEF T
  <2>3. \A i \in 0..width : i \in T
    BY <2>1, <2>2, Climb
  <2> QED
    BY <2>3 DEF T
<1> QED
  BY <1>6, <1>7, <1>8, <1>9

(* The value of the last i bytes.                                          *)
LastOver(bytes, g) ==
    g = [i \in 0..Len(bytes) |->
            IF i = 0 THEN 0 ELSE g[i - 1] * ByteBase + bytes[Len(bytes) + 1 - i]]

LEMMA FromBytesAddsUp ==
    ASSUME NEW bytes \in Seq(Nat)
    PROVE  \E last \in [0..Len(bytes) -> Nat] :
              /\ last[0] = 0 /\ FromBytes(bytes) = last[Len(bytes)]
              /\ \A i \in 1..Len(bytes) :
                    last[i] = last[i - 1] * ByteBase + bytes[Len(bytes) + 1 - i]
<1> DEFINE n == Len(bytes)
           step == [i \in 1..n |-> [x \in Nat |-> x * ByteBase + bytes[n + 1 - i]]]
           last == CHOOSE g : LastOver(bytes, g)
<1>1. n \in Nat /\ \A i \in 1..n : bytes[n + 1 - i] \in Nat
  OBVIOUS
<1>2. step \in [1..n -> [Nat -> Nat]]
  BY <1>1, BufferAssumption
<1>3. \A i \in 1..n, x \in Nat : step[i][x] = x * ByteBase + bytes[n + 1 - i]
  OBVIOUS
<1> HIDE DEF step
<1>4. PICK g \in [0..n -> Nat] : Follows(g, n, 0, step)
  <2> HIDE DEF n
  <2> QED
    BY <1>1, <1>2, RecursionExists
<1>5. LastOver(bytes, g)
  <2>1. ASSUME NEW i \in 1..n PROVE g[i] = g[i - 1] * ByteBase + bytes[n + 1 - i]
    <3>1. g[i] = step[i][g[i - 1]]
      BY <1>4 DEF Follows
    <3>2. g[i - 1] \in Nat
      <4>1. i - 1 \in 0..n
        BY <1>1
      <4> HIDE DEF n
      <4> QED
        BY <1>4, <4>1
    <3> QED
      BY <1>3, <3>1, <3>2
  <2> QED
    BY <1>4, <2>1 DEF LastOver, Follows
<1>6. LastOver(bytes, last)
  BY <1>5
<1>7. FromBytes(bytes) = last[n]
  BY DEF FromBytes, LastOver
<1> HIDE DEF last
<1>8. DOMAIN last = 0..n /\ last = [i \in 0..n |-> last[i]]
  BY <1>6 DEF LastOver
<1>9. last[0] = 0 /\ \A i \in 1..n : last[i] = last[i - 1] * ByteBase + bytes[n + 1 - i]
  <2>1. \A i \in 0..n :
            last[i] = IF i = 0 THEN 0 ELSE last[i - 1] * ByteBase + bytes[n + 1 - i]
    BY <1>6 DEF LastOver
  <2> QED
    BY <1>1, <2>1
<1>10. \A i \in 0..n : last[i] \in Nat
  <2> DEFINE T == {i \in 0..n : last[i] \in Nat}
  <2>1. 0 \in T
    BY <1>1, <1>9
  <2>2. ASSUME NEW i \in 0..n - 1, i \in T PROVE i + 1 \in T
    <3>1. last[i + 1] = last[i] * ByteBase + bytes[n + 1 - (i + 1)]
      BY <1>1, <1>9
    <3>2. last[i] \in Nat /\ bytes[n + 1 - (i + 1)] \in Nat
      BY <1>1, <2>2
    <3>3. last[i] * ByteBase \in Nat
      BY <3>2, BufferAssumption
    <3> QED
      BY <1>1, <3>1, <3>2, <3>3
  <2> HIDE DEF T, n
  <2>3. \A i \in 0..n : i \in T
    BY <1>1, <2>1, <2>2, Climb
  <2> QED
    BY <2>3 DEF T
<1> QED
  BY <1>7, <1>8, <1>9, <1>10

EndOver(widths, g) ==
    g = [i \in 0..Len(widths) |-> IF i = 0 THEN 0 ELSE g[i - 1] + widths[i]]

LEMMA EndsAddUp ==
    ASSUME NEW widths \in Seq(Nat)
    PROVE  /\ Ends(widths) \in [0..Len(widths) -> Nat]
           /\ Ends(widths)[0] = 0
           /\ \A i \in 1..Len(widths) :
                    Ends(widths)[i] = Ends(widths)[i - 1] + widths[i]
<1> DEFINE n == Len(widths)
           step == [i \in 1..n |-> [x \in Nat |-> x + widths[i]]]
           end == CHOOSE g : EndOver(widths, g)
<1>1. n \in Nat /\ \A i \in 1..n : widths[i] \in Nat
  OBVIOUS
<1>2. step \in [1..n -> [Nat -> Nat]]
  BY <1>1
<1>3. \A i \in 1..n, x \in Nat : step[i][x] = x + widths[i]
  OBVIOUS
<1> HIDE DEF step
<1>4. PICK g \in [0..n -> Nat] : Follows(g, n, 0, step)
  <2> HIDE DEF n
  <2> QED
    BY <1>1, <1>2, RecursionExists
<1>5. EndOver(widths, g)
  <2>1. ASSUME NEW i \in 1..n PROVE g[i] = g[i - 1] + widths[i]
    <3>1. g[i] = step[i][g[i - 1]]
      BY <1>4 DEF Follows
    <3>2. g[i - 1] \in Nat
      <4>1. i - 1 \in 0..n
        BY <1>1
      <4> HIDE DEF n
      <4> QED
        BY <1>4, <4>1
    <3> QED
      BY <1>3, <3>1, <3>2
  <2> QED
    BY <1>4, <2>1 DEF EndOver, Follows
<1>6. EndOver(widths, end)
  BY <1>5
<1>7. Ends(widths) = end
  BY DEF Ends, EndOver
<1> HIDE DEF end
<1>8. DOMAIN end = 0..n /\ end = [i \in 0..n |-> end[i]]
  BY <1>6 DEF EndOver
<1>9. end[0] = 0 /\ \A i \in 1..n : end[i] = end[i - 1] + widths[i]
  BY <1>1, <1>6, SMTT(20) DEF EndOver
<1>10. \A i \in 0..n : end[i] \in Nat
  <2> DEFINE T == {i \in 0..n : end[i] \in Nat}
  <2>1. 0 \in T
    BY <1>1, <1>9
  <2>2. ASSUME NEW i \in 0..n - 1, i \in T PROVE i + 1 \in T
    <3>1. i + 1 \in 0..n /\ i + 1 \in 1..n /\ (i + 1) - 1 = i
      BY <1>1, NextPlace
    <3>2. end[i + 1] = end[i] + widths[i + 1] /\ widths[i + 1] \in Nat
      BY <1>1, <1>9, <3>1
    <3> HIDE DEF n
    <3> QED
      BY <2>2, <3>1, <3>2
  <2> HIDE DEF T, n
  <2>3. \A i \in 0..n : i \in T
    BY <1>1, <2>1, <2>2, Climb
  <2> QED
    BY <2>3 DEF T
<1> QED
  BY <1>7, <1>8, <1>9, <1>10

-----------------------------------------------------------------------------
(* to_le_bytes and from_le_bytes are inverse on every value that fits.     *)
LEMMA BytesAreBytes ==
    ASSUME NEW n \in Nat, NEW width \in Nat
    PROVE  /\ ToBytes(n, width) \in Seq(Nat) /\ Len(ToBytes(n, width)) = width
           /\ \A i \in 1..width : ToBytes(n, width)[i] \in 0..ByteBase - 1
<1>1. PICK rest \in [0..width -> Nat] :
          ToBytes(n, width) = [i \in 1..width |-> rest[i - 1] % ByteBase]
  BY ToBytesTakesRests, ZenonT(30)
<1>2. ASSUME NEW i \in 1..width PROVE rest[i - 1] % ByteBase \in 0..ByteBase - 1
  <2>1. rest[i - 1] \in Nat
    BY <1>1
  <2> QED
    BY <2>1, Division, Base
<1>3. \A i \in 1..width : rest[i - 1] % ByteBase \in Nat
  BY <1>2, Base
<1> QED
  BY <1>1, <1>2, <1>3

LEMMA RoundTrip ==
    ASSUME NEW width \in Nat, NEW n \in 0..Values(width) - 1
    PROVE  FromBytes(ToBytes(n, width)) = n
<1> DEFINE bytes == ToBytes(n, width)
<1>1. PICK power \in [0..width -> Nat] :
          /\ power[0] = 1 /\ Values(width) = power[width]
          /\ \A i \in 1..width : power[i] = power[i - 1] * ByteBase
  BY ValuesIsPower
<1>2. n \in Nat /\ n < power[width]
  BY <1>1
<1>3. PICK rest \in [0..width -> Nat] :
          /\ rest[0] = n
          /\ \A i \in 1..width : rest[i] = rest[i - 1] \div ByteBase
          /\ bytes = [i \in 1..width |-> rest[i - 1] % ByteBase]
  BY <1>2, ToBytesTakesRests
<1>4. bytes \in Seq(Nat) /\ Len(bytes) = width
  BY <1>2, BytesAreBytes
<1> HIDE DEF bytes
<1>5. PICK last \in [0..width -> Nat] :
          /\ last[0] = 0 /\ FromBytes(bytes) = last[width]
          /\ \A i \in 1..width : last[i] = last[i - 1] * ByteBase + bytes[width + 1 - i]
  BY <1>4, FromBytesAddsUp
(* What is left fits in the bytes that are left.                           *)
<1>6. \A i \in 0..width : rest[i] < power[width - i]
  <2> DEFINE T == {i \in 0..width : rest[i] < power[width - i]}
  <2>1. 0 \in T
    BY <1>2, <1>3
  <2>2. ASSUME NEW i \in 0..width - 1, i \in T PROVE i + 1 \in T
    <3> DEFINE r == rest[i]
               p == power[width - (i + 1)]
    <3>1. power[width - i] = power[(width - i) - 1] * ByteBase
      BY <1>1
    <3>2. (width - i) - 1 = width - (i + 1) /\ width - (i + 1) \in 0..width
      OBVIOUS
    <3>3. r < p * ByteBase /\ r \in Nat /\ p \in Nat
      BY <1>1, <1>3, <2>2, <3>1, <3>2
    <3>4. rest[i + 1] = r \div ByteBase
      BY <1>3
    <3> HIDE DEF r, p
    <3>5. r \div ByteBase < p
      BY <3>3, Division, Base
    <3> QED
      BY <3>4, <3>5 DEF p
  <2> HIDE DEF T
  <2>3. \A i \in 0..width : i \in T
    BY <2>1, <2>2, Climb
  <2> QED
    BY <2>3 DEF T
(* The last i bytes have the value that was left before they were taken.   *)
<1>7. \A i \in 0..width : last[i] = rest[width - i]
  <2> DEFINE T == {i \in 0..width : last[i] = rest[width - i]}
  <2>1. 0 \in T
    <3>1. rest[width] < power[0]
      BY <1>6
    <3> QED
      BY <1>1, <1>3, <1>5, <3>1
  <2>2. ASSUME NEW i \in 0..width - 1, i \in T PROVE i + 1 \in T
    <3> DEFINE r == rest[width - (i + 1)]
    <3>1. last[i + 1] = last[i] * ByteBase + bytes[width - i]
      BY <1>5
    <3>2. last[i] = r \div ByteBase
      BY <1>3, <2>2
    <3>3. bytes[width - i] = r % ByteBase
      BY <1>3
    <3>4. r \in Nat
      BY <1>3
    <3> HIDE DEF r
    <3>5. last[i + 1] = r
      BY <3>1, <3>2, <3>3, <3>4, Division, Base
    <3> QED
      BY <3>5 DEF r
  <2> HIDE DEF T
  <2>3. \A i \in 0..width : i \in T
    BY <2>1, <2>2, Climb
  <2> QED
    BY <2>3 DEF T
<1>8. last[width] = rest[0]
  BY <1>7
<1> QED
  BY <1>3, <1>5, <1>8 DEF bytes

-----------------------------------------------------------------------------
(* Every field lies in the flattened bytes where its offset says.          *)
FlattenOver(parts, g) ==
    g = [i \in 1..Len(parts) |-> IF i = 1 THEN parts[i] ELSE g[i - 1] \o parts[i]]

LEMMA FlattenAppends ==
    ASSUME NEW parts \in Seq(Seq(Nat)), Len(parts) # 0
    PROVE  \E flat \in [1..Len(parts) -> Seq(Nat)] :
              /\ flat[1] = parts[1] /\ FlattenSeq(parts) = flat[Len(parts)]
              /\ \A i \in 2..Len(parts) : flat[i] = flat[i - 1] \o parts[i]
<1> DEFINE n == Len(parts)
           step == [i \in 1..n |-> [x \in Seq(Nat) |-> x \o parts[i]]]
           flat == CHOOSE g : FlattenOver(parts, g)
<1>1. n \in Nat /\ n > 0 /\ \A i \in 1..n : parts[i] \in Seq(Nat)
  OBVIOUS
<1>2. step \in [1..n -> [Seq(Nat) -> Seq(Nat)]]
  BY <1>1
<1>3. \A i \in 1..n, x \in Seq(Nat) : step[i][x] = x \o parts[i]
  OBVIOUS
<1> HIDE DEF step
<1>4. PICK h \in [0..n -> Seq(Nat)] : Follows(h, n, << >>, step)
  <2> HIDE DEF n
  <2>1. << >> \in Seq(Nat)
    OBVIOUS
  <2> QED
    BY <1>1, <1>2, <2>1, RecursionExists
<1> DEFINE g == [i \in 1..n |-> h[i]]
<1>5. FlattenOver(parts, g)
  <2>1. ASSUME NEW i \in 1..n
        PROVE  g[i] = IF i = 1 THEN parts[i] ELSE g[i - 1] \o parts[i]
    <3>1. h[i] = step[i][h[i - 1]]
      BY <1>4 DEF Follows
    <3>2. i - 1 \in 0..n /\ h[i - 1] \in Seq(Nat)
      <4>1. i - 1 \in 0..n
        BY <1>1
      <4> HIDE DEF n
      <4> QED
        BY <1>4, <4>1
    <3>3. h[i] = h[i - 1] \o parts[i]
      BY <1>3, <3>1, <3>2
    <3>4. CASE i = 1
      <4>1. h[i - 1] = << >>
        BY <1>4, <3>4 DEF Follows
      <4> QED
        BY <1>1, <3>3, <3>4, <4>1, ConcatEmptySeq
    <3>5. CASE i # 1
      <4>1. i - 1 \in 1..n
        BY <1>1, <3>5
      <4> QED
        BY <3>3, <3>5, <4>1
    <3> QED
      BY <3>4, <3>5
  <2> HIDE DEF g
  <2>2. g = [i \in 1..n |-> g[i]]
    BY DEF g
  <2> QED
    BY <2>1, <2>2 DEF FlattenOver
<1>6. FlattenOver(parts, flat)
  BY <1>5
<1>7. FlattenSeq(parts) = flat[n]
  BY DEF FlattenSeq, FlattenOver
<1> HIDE DEF flat
<1>8. DOMAIN flat = 1..n /\ flat = [i \in 1..n |-> flat[i]]
  BY <1>6 DEF FlattenOver
<1>9. \A i \in 1..n : flat[i] = IF i = 1 THEN parts[i] ELSE flat[i - 1] \o parts[i]
  BY <1>6 DEF FlattenOver
<1> HIDE DEF n
<1>10. flat[1] = parts[1] /\ \A i \in 2..n : flat[i] = flat[i - 1] \o parts[i]
  <2>1. 1 \in 1..n
    BY <1>1
  <2>2. ASSUME NEW i \in 2..n PROVE flat[i] = flat[i - 1] \o parts[i]
    <3>1. i \in 1..n /\ i # 1
      BY <1>1
    <3> QED
      BY <1>9, <3>1
  <2> QED
    BY <1>9, <2>1, <2>2
<1>11. \A i \in 1..n : flat[i] \in Seq(Nat)
  <2> DEFINE T == {i \in 1..n : flat[i] \in Seq(Nat)}
  <2>1. 1 \in T
    BY <1>1, <1>10
  <2>2. ASSUME NEW i \in 1..n - 1, i \in T PROVE i + 1 \in T
    <3>1. i + 1 \in 2..n /\ i + 1 \in 1..n /\ (i + 1) - 1 = i
      BY <1>1
    <3>2. flat[i + 1] = flat[i] \o parts[i + 1]
      BY <1>10, <3>1
    <3>3. flat[i] \in Seq(Nat) /\ parts[i + 1] \in Seq(Nat)
      BY <1>1, <2>2, <3>1
    <3>4. flat[i] \o parts[i + 1] \in Seq(Nat)
      BY <3>3, ConcatProperties
    <3> QED
      BY <3>1, <3>2, <3>4
  <2> HIDE DEF T
  <2>3. \A i \in 1..n : i \in T
    BY <1>1, <2>1, <2>2, ClimbFromOne
  <2> QED
    BY <2>3 DEF T
<1> QED
  BY <1>7, <1>8, <1>10, <1>11 DEF n

(* In the first i parts, the j-th lies behind those before it.             *)
Placed(flat, parts, end, i, j) ==
    /\ end[j - 1] \in Nat /\ end[j] <= end[i]
    /\ end[j] = end[j - 1] + Len(parts[j])
    /\ \A k \in 1..Len(parts[j]) : flat[i][end[j - 1] + k] = parts[j][k]

LEMMA PlacedStep ==
    ASSUME NEW flat, NEW parts, NEW end, NEW m \in Nat,
           flat[m] \in Seq(Nat), parts[m + 1] \in Seq(Nat), end[m] \in Nat,
           Len(flat[m]) = end[m], end[m + 1] = end[m] + Len(parts[m + 1]),
           flat[m + 1] = flat[m] \o parts[m + 1],
           \A j \in 1..m : parts[j] \in Seq(Nat) /\ Placed(flat, parts, end, m, j)
    PROVE  /\ Len(flat[m + 1]) = end[m + 1]
           /\ \A j \in 1..m + 1 : Placed(flat, parts, end, m + 1, j)
<1> DEFINE a == flat[m]
           b == parts[m + 1]
           c == flat[m + 1]
           e == end[m]
           f == end[m + 1]
<1>1. /\ a \in Seq(Nat) /\ b \in Seq(Nat) /\ e \in Nat /\ Len(a) = e
      /\ f = e + Len(b) /\ c = a \o b
  OBVIOUS
<1> HIDE DEF a, b, c, e, f
<1>2. Len(b) \in Nat /\ f \in Nat /\ e <= f
  BY <1>1
<1>3. /\ Len(c) = f
      /\ \A k \in 1..f : c[k] = IF k <= e THEN a[k] ELSE b[k - e]
  BY <1>1, ConcatProperties
<1>4. ASSUME NEW j \in 1..m PROVE Placed(flat, parts, end, m + 1, j)
  <2> DEFINE d == end[j - 1]
             p == parts[j]
  <2>1. /\ d \in Nat /\ end[j] <= e /\ end[j] = d + Len(p)
        /\ \A k \in 1..Len(p) : a[d + k] = p[k]
    BY DEF Placed, a, e
  <2>2. Len(p) \in Nat
    OBVIOUS
  <2> HIDE DEF d, p
  <2>3. ASSUME NEW k \in 1..Len(p) PROVE c[d + k] = p[k]
    <3>1. d + k \in 1..f /\ d + k <= e
      BY <1>1, <1>2, <2>1, <2>2
    <3> QED
      BY <1>3, <2>1, <3>1
  <2>4. end[j] <= f
    BY <1>1, <1>2, <2>1, <2>2
  <2> QED
    BY <2>1, <2>3, <2>4 DEF Placed, c, d, f, p
<1>5. Placed(flat, parts, end, m + 1, m + 1)
  <2>1. (m + 1) - 1 = m
    OBVIOUS
  <2>2. ASSUME NEW k \in 1..Len(b) PROVE c[e + k] = b[k]
    <3>1. e + k \in 1..f /\ ~ (e + k <= e) /\ (e + k) - e = k
      BY <1>1, <1>2
    <3> QED
      BY <1>3, <3>1
  <2>3. f <= f
    BY <1>2
  <2> QED
    BY <1>1, <2>1, <2>2, <2>3 DEF Placed, b, c, e, f
<1>6. \A j \in 1..m + 1 : j \in 1..m \/ j = m + 1
  OBVIOUS
<1> QED
  BY <1>3, <1>4, <1>5, <1>6 DEF c, f

LEMMA FieldsInPlace ==
    ASSUME NEW parts \in Seq(Seq(Nat)), NEW widths \in Seq(Nat), Len(parts) = Len(widths),
           \A i \in 1..Len(widths) : Len(parts[i]) = widths[i]
    PROVE  /\ FlattenSeq(parts) \in Seq(Nat)
           /\ Len(FlattenSeq(parts)) = TotalWidth(widths)
           /\ \A i \in 1..Len(widths) :
                 /\ Offset(widths, i) \in Nat
                 /\ Offset(widths, i) + widths[i] <= TotalWidth(widths)
                 /\ \A k \in 1..widths[i] :
                        FlattenSeq(parts)[Offset(widths, i) + k] = parts[i][k]
<1> DEFINE n == Len(widths)
           end == Ends(widths)
           Joined(flat) == /\ flat[1] = parts[1] /\ FlattenSeq(parts) = flat[n]
                           /\ \A i \in 2..n : flat[i] = flat[i - 1] \o parts[i]
<1>1. /\ n \in Nat /\ n = Len(parts)
      /\ \A i \in 1..n : /\ widths[i] \in Nat /\ parts[i] \in Seq(Nat)
                         /\ Len(parts[i]) = widths[i]
  OBVIOUS
<1>2. /\ end \in [0..n -> Nat] /\ end[0] = 0
      /\ \A i \in 1..n : end[i] = end[i - 1] + widths[i]
  BY EndsAddUp
<1>3. TotalWidth(widths) = end[n] /\ \A i \in 1..n : Offset(widths, i) = end[i - 1]
  BY DEF TotalWidth, Offset
<1>4. CASE n = 0
  <2>1. parts = << >>
    BY <1>4
  <2>2. FlattenSeq(parts) = << >>
    BY <2>1 DEF FlattenSeq
  <2> QED
    BY <1>2, <1>3, <1>4, <2>2
<1>5. CASE n # 0
  <2>1. PICK flat \in [1..n -> Seq(Nat)] : Joined(flat)
    <3>1. \E flat \in [1..Len(parts) -> Seq(Nat)] :
              /\ flat[1] = parts[1] /\ FlattenSeq(parts) = flat[Len(parts)]
              /\ \A i \in 2..Len(parts) : flat[i] = flat[i - 1] \o parts[i]
      BY <1>1, <1>5, FlattenAppends
    <3> QED
      BY <1>1, <3>1, ZenonT(30)
  <2> DEFINE T == {i \in 1..n : /\ Len(flat[i]) = end[i]
                                /\ \A j \in 1..i : Placed(flat, parts, end, i, j)}
  <2> HIDE DEF n, end
  <2>2. 1 \in T
    <3>1. 1 \in 1..n /\ 1 - 1 = 0
      BY <1>1, <1>5
    <3>2. end[1] = Len(parts[1]) /\ flat[1] = parts[1] /\ end[1] \in Nat
      BY <1>1, <1>2, <2>1, <3>1
    <3>3. Placed(flat, parts, end, 1, 1)
      BY <1>2, <3>1, <3>2 DEF Placed
    <3>4. \A j \in 1..1 : j = 1
      OBVIOUS
    <3> QED
      BY <3>1, <3>2, <3>3, <3>4
  <2>3. ASSUME NEW m \in 1..n - 1, m \in T PROVE m + 1 \in T
    <3>1. m \in 1..n /\ m + 1 \in 2..n /\ m + 1 \in 1..n /\ (m + 1) - 1 = m /\ m \in 0..n
      BY <1>1
    <3>2. Len(flat[m]) = end[m] /\ \A j \in 1..m : Placed(flat, parts, end, m, j)
      BY <2>3
    <3>3. flat[m + 1] = flat[m] \o parts[m + 1]
      BY <2>1, <3>1
    <3>4. flat[m] \in Seq(Nat) /\ parts[m + 1] \in Seq(Nat) /\ end[m] \in Nat
      BY <1>1, <1>2, <2>1, <3>1
    <3>5. end[m + 1] = end[m] + Len(parts[m + 1])
      BY <1>1, <1>2, <3>1
    <3>6. \A j \in 1..m : parts[j] \in Seq(Nat)
      BY <1>1, <3>1
    <3>7. m \in Nat
      BY <3>1
    <3>8. /\ Len(flat[m + 1]) = end[m + 1]
          /\ \A j \in 1..m + 1 : Placed(flat, parts, end, m + 1, j)
      BY <3>2, <3>3, <3>4, <3>5, <3>6, <3>7, PlacedStep
    <3> QED
      BY <3>1, <3>8
  <2> HIDE DEF T
  <2>4. \A i \in 1..n : i \in T
    BY <1>1, <2>2, <2>3, ClimbFromOne
  <2>5. n \in 1..n
    BY <1>1, <1>5
  <2>6. Len(flat[n]) = end[n] /\ \A j \in 1..n : Placed(flat, parts, end, n, j)
    BY <2>4, <2>5 DEF T
  <2>7. flat[n] \in Seq(Nat)
    BY <2>1, <2>5
  <2>8. ASSUME NEW i \in 1..n
        PROVE  /\ end[i - 1] \in Nat
               /\ end[i - 1] + widths[i] <= end[n]
               /\ \A k \in 1..widths[i] : flat[n][end[i - 1] + k] = parts[i][k]
    BY <1>1, <2>6 DEF Placed
  <2> QED
    BY <1>3, <2>1, <2>6, <2>7, <2>8 DEF n
<1> QED
  BY <1>4, <1>5

-----------------------------------------------------------------------------
(* Reading what was packed.                                                *)
Parts(fields, widths) == [i \in 1..Len(widths) |-> ToBytes(fields[i], widths[i])]

Fits(fields, widths) == \A i \in 1..Len(widths) : fields[i] \in 0..Values(widths[i]) - 1

LEMMA PartsOfFields ==
    ASSUME NEW widths \in Seq(Nat), NEW fields, Fits(fields, widths)
    PROVE  /\ Parts(fields, widths) \in Seq(Seq(Nat))
           /\ Len(Parts(fields, widths)) = Len(widths)
           /\ \A i \in 1..Len(widths) :
                 /\ Parts(fields, widths)[i] = ToBytes(fields[i], widths[i])
                 /\ Len(Parts(fields, widths)[i]) = widths[i]
<1> DEFINE n == Len(widths)
<1>1. n \in Nat /\ \A i \in 1..n : widths[i] \in Nat
  OBVIOUS
<1>2. ASSUME NEW i \in 1..n
      PROVE  ToBytes(fields[i], widths[i]) \in Seq(Nat)
             /\ Len(ToBytes(fields[i], widths[i])) = widths[i]
  <2>1. fields[i] \in 0..Values(widths[i]) - 1 /\ widths[i] \in Nat
    BY <1>1 DEF Fits
  <2>2. fields[i] \in Nat
    BY <2>1, ValuesIsPower
  <2> QED
    BY <2>1, <2>2, BytesAreBytes
<1> HIDE DEF n
<1>3. Parts(fields, widths) = [i \in 1..n |-> ToBytes(fields[i], widths[i])]
  BY DEF Parts, n
<1> QED
  BY <1>1, <1>2, <1>3 DEF n

(* A field is read once the bytes up to its end have come.                 *)
LEMMA OffsetWithin ==
    ASSUME NEW off \in Nat, NEW w \in Nat, NEW total, total = off + w
    PROVE  \A k \in 1..w : off + k \in 1..total
OBVIOUS

LEMMA FieldRead ==
    ASSUME NEW widths \in Seq(Nat), NEW fields, Fits(fields, widths),
           NEW i \in 1..Len(widths), NEW rest \in Seq(Nat),
           NEW total, total = Offset(widths, i) + widths[i], Len(rest) >= total,
           \A k \in 1..total : rest[k] = FlattenSeq(Parts(fields, widths))[k]
    PROVE  Field(rest, widths, i) = fields[i]
<1> DEFINE parts == Parts(fields, widths)
           flat == FlattenSeq(parts)
           w == widths[i]
           off == Offset(widths, i)
           part == parts[i]
           sub == SubSeq(rest, off + 1, off + w)
<1>1. /\ parts \in Seq(Seq(Nat)) /\ Len(parts) = Len(widths)
      /\ \A j \in 1..Len(widths) : /\ parts[j] = ToBytes(fields[j], widths[j])
                                   /\ Len(parts[j]) = widths[j]
  BY PartsOfFields
<1>2. off \in Nat /\ \A k \in 1..w : flat[off + k] = part[k]
  <2> HIDE DEF parts
  <2> QED
    BY <1>1, FieldsInPlace
<1>3. w \in Nat /\ total = off + w
  OBVIOUS
<1>5. w \in Nat /\ fields[i] \in 0..Values(w) - 1
  BY DEF Fits
<1>6. off \in Nat /\ total \in Nat /\ off + w <= total
      /\ \A k \in 1..w : flat[off + k] = part[k]
  BY <1>2, <1>3
<1>7. part \in Seq(Nat) /\ Len(part) = w /\ part = ToBytes(fields[i], w)
  BY <1>1
<1>8. \A k \in 1..total : rest[k] = flat[k]
  OBVIOUS
<1>9. Len(rest) \in Nat /\ Len(rest) >= total /\ \A k \in 1..Len(rest) : rest[k] \in Nat
  OBVIOUS
<1>10. Field(rest, widths, i) = FromBytes(sub)
  BY DEF Field
<1> HIDE DEF parts, flat, w, off, part, sub
<1>11. sub \in Seq(Nat) /\ Len(sub) = w /\ \A k \in 1..w : sub[k] = rest[off + k]
  <2> DEFINE a == off + 1
             b == off + w
  <2>1. /\ a \in Int /\ b \in Int /\ b - a + 1 = w
        /\ (IF a <= b THEN b - a + 1 ELSE 0) = w
        /\ \A k \in 1..w : a + k - 1 = off + k
    BY <1>5, <1>6
  <2>2. \A k \in a..b : rest[k] \in Nat
    <3>1. ASSUME NEW k \in a..b PROVE k \in 1..Len(rest)
      BY <1>3, <1>5, <1>6, <1>9, Within
    <3> QED
      BY <1>9, <3>1
  <2>3. sub = SubSeq(rest, a, b)
    BY DEF sub
  <2> HIDE DEF a, b
  <2>4. /\ sub \in Seq(Nat)
        /\ Len(sub) = IF a <= b THEN b - a + 1 ELSE 0
        /\ \A k \in 1..b - a + 1 : sub[k] = rest[a + k - 1]
    BY <2>1, <2>2, <2>3, SubSeqProperties
  <2> QED
    BY <2>1, <2>4
<1>12. \A k \in 1..w : sub[k] = part[k]
  <2>1. \A k \in 1..w : off + k \in 1..total
    BY <1>3, <1>5, <1>6, OffsetWithin
  <2> QED
    BY <1>6, <1>8, <1>11, <2>1
<1>13. sub = part
  BY <1>7, <1>11, <1>12, SeqEqual
<1> QED
  BY <1>5, <1>7, <1>10, <1>13, RoundTrip

LEMMA TotalIsNat ==
    ASSUME NEW widths \in Seq(Nat)
    PROVE  TotalWidth(widths) \in Nat
<1>1. Len(widths) \in 0..Len(widths)
  OBVIOUS
<1> QED
  BY <1>1, EndsAddUp DEF TotalWidth

(* A field ends within all of them.                                        *)
EndWithin(widths, i) ==
    /\ Offset(widths, i) \in Nat /\ Offset(widths, i) + widths[i] \in Nat
    /\ Offset(widths, i) + widths[i] <= TotalWidth(widths)

LEMMA EndsWithin ==
    ASSUME NEW widths \in Seq(Nat)
    PROVE  \A i \in 1..Len(widths) : EndWithin(widths, i)
<1> DEFINE parts == [i \in 1..Len(widths) |-> [k \in 1..widths[i] |-> 0]]
<1>1. parts \in Seq(Seq(Nat)) /\ Len(parts) = Len(widths)
      /\ \A i \in 1..Len(widths) : Len(parts[i]) = widths[i]
  OBVIOUS
<1> HIDE DEF parts
<1>2. \A i \in 1..Len(widths) : /\ Offset(widths, i) \in Nat
                                 /\ Offset(widths, i) + widths[i] <= TotalWidth(widths)
  BY <1>1, FieldsInPlace
<1> QED
  BY <1>2 DEF EndWithin

LEMMA FieldsRead ==
    ASSUME NEW widths \in Seq(Nat), NEW fields, Fits(fields, widths),
           NEW rest \in Seq(Nat), Len(rest) >= TotalWidth(widths),
           \A k \in 1..TotalWidth(widths) :
                rest[k] = FlattenSeq(Parts(fields, widths))[k]
    PROVE  \A i \in 1..Len(widths) : Field(rest, widths, i) = fields[i]
<1> SUFFICES ASSUME NEW i \in 1..Len(widths) PROVE Field(rest, widths, i) = fields[i]
  OBVIOUS
<1>1. TotalWidth(widths) \in Nat
  BY TotalIsNat
<1>2. EndWithin(widths, i)
  BY EndsWithin
<1> DEFINE total == Offset(widths, i) + widths[i]
<1>3. total \in Nat /\ total <= TotalWidth(widths)
  BY <1>2 DEF EndWithin
<1>4. \A k \in 1..total : k \in 1..TotalWidth(widths)
  BY <1>1, <1>3
<1>5. Len(rest) \in Nat /\ Len(rest) >= total
  BY <1>1, <1>3
<1> HIDE DEF total
<1>6. \A k \in 1..total : rest[k] = FlattenSeq(Parts(fields, widths))[k]
  BY <1>4
<1>7. total = Offset(widths, i) + widths[i]
  BY DEF total
<1> QED
  BY <1>5, <1>6, <1>7, FieldRead

(* The bytes of data that pack wrote are those that arrived.               *)
Arrived(packing, d) ==
    d \in Seq(Nat) /\ \A k \in 1..Len(d) : k <= Len(packing) => d[k] = packing[k]

LEMMA Zeros ==
    ASSUME NEW n \in Int
    PROVE  [i \in 1..n |-> 0] \in Seq(Nat)
<1>1. CASE n <= 0
  <2>1. [i \in 1..n |-> 0] = << >>
    BY <1>1
  <2> QED
    BY <2>1
<1>2. CASE n > 0
  BY <1>2
<1> QED
  BY <1>1, <1>2

LEMMA RestArrived ==
    ASSUME NEW packing, NEW d, Arrived(packing, d), Len(d) # 0
    PROVE  /\ Tail(d) \in Seq(Nat) /\ Len(Tail(d)) = Len(d) - 1
           /\ \A k \in 1..Len(Tail(d)) :
                    k + 1 <= Len(packing) => Tail(d)[k] = packing[k + 1]
<1>1. d \in Seq(Nat) /\ d # << >>
      /\ \A k \in 1..Len(d) : k <= Len(packing) => d[k] = packing[k]
  BY DEF Arrived
<1>2. /\ Tail(d) \in Seq(Nat) /\ Len(Tail(d)) = Len(d) - 1
      /\ \A k \in 1..Len(Tail(d)) : Tail(d)[k] = d[k + 1]
  BY <1>1, HeadTailProperties
<1>3. ASSUME NEW k \in 1..Len(Tail(d)) PROVE k + 1 \in 1..Len(d)
  BY <1>1, <1>2
<1> QED
  BY <1>1, <1>2, <1>3

(* Arithmetic of the place of a byte after the tag.                        *)
LEMMA AfterTheTag ==
    ASSUME NEW total \in Nat, NEW whole \in Nat, NEW after, after = whole - 1
    PROVE  after >= total <=> whole > total
OBVIOUS

LEMMA LongEnough ==
    ASSUME NEW end \in Nat, NEW total \in Nat, NEW n \in Nat, n > total, end <= total,
           NEW after, after = n - 1
    PROVE  after \in Nat /\ after >= end
OBVIOUS

LEMMA WithinAfter ==
    ASSUME NEW total \in Nat, NEW k \in 1..total, NEW a \in Nat, a >= total,
           NEW b \in Nat, b >= 1 + total
    PROVE  k \in 1..a /\ k + 1 <= b
OBVIOUS

LEMMA TagFirst ==
    ASSUME NEW tag \in Nat, NEW flat \in Seq(Nat), NEW zeros \in Seq(Nat),
           NEW written, written = << tag >> \o flat,
           NEW all, all = written \o zeros
    PROVE  /\ Len(written) = 1 + Len(flat)
           /\ all \in Seq(Nat) /\ Len(all) >= 1 + Len(flat) /\ all[1] = tag
           /\ \A k \in 1..Len(flat) : all[k + 1] = flat[k]
<1> DEFINE t == << tag >>
           n == Len(flat)
<1>1. t \in Seq(Nat) /\ Len(t) = 1 /\ t[1] = tag /\ n \in Nat /\ Len(zeros) \in Nat
  OBVIOUS
<1>2. written = t \o flat
  OBVIOUS
<1> HIDE DEF t
<1>3. /\ written \in Seq(Nat) /\ Len(written) = 1 + n
      /\ \A k \in 1..1 + n : written[k] = IF k <= 1 THEN t[k] ELSE flat[k - 1]
  BY <1>1, <1>2, ConcatProperties
<1>4. /\ all \in Seq(Nat) /\ Len(all) = (1 + n) + Len(zeros)
      /\ \A k \in 1..(1 + n) + Len(zeros) :
            all[k] = IF k <= 1 + n THEN written[k] ELSE zeros[k - (1 + n)]
  BY <1>3, ConcatProperties
<1> HIDE DEF n
<1>5. ASSUME NEW k \in 1..1 + n PROVE all[k] = IF k <= 1 THEN t[k] ELSE flat[k - 1]
  <2>1. k \in 1..(1 + n) + Len(zeros) /\ k <= 1 + n
    BY <1>1
  <2> QED
    BY <1>3, <1>4, <2>1
<1>6. all[1] = tag
  <2>1. 1 \in 1..1 + n
    BY <1>1
  <2> QED
    BY <1>1, <1>5, <2>1
<1>7. ASSUME NEW k \in 1..n PROVE all[k + 1] = flat[k]
  <2>1. k + 1 \in 1..1 + n /\ ~ (k + 1 <= 1) /\ (k + 1) - 1 = k
    BY <1>1
  <2> QED
    BY <1>5, <2>1
<1>8. Len(all) >= 1 + n
  BY <1>1, <1>4
<1> QED
  BY <1>3, <1>4, <1>6, <1>7, <1>8 DEF n

Message(variant, fields) == [variant |-> variant, fields |-> fields]

Flat(fields, widths) == FlattenSeq(Parts(fields, widths))
Written(tag, fields, widths) == << tag >> \o Flat(fields, widths)
ZerosAfter(p, n) == [i \in 1..PackedLength(p, n) - n |-> 0]

(* A message of the variant v whose fields fit the row of v.               *)
RowOf(p, v, fields, m, tag, widths) ==
    /\ v \in DOMAIN Packed(p) /\ m = Message(v, fields)
    /\ tag \in Nat /\ widths \in Seq(Nat) /\ Packed(p)[v] = Layout(tag, widths)
    /\ Fits(fields, widths)

PackedAs(p, fields, m, tag, widths) ==
    /\ Flat(fields, widths) \in Seq(Nat)
    /\ Len(Flat(fields, widths)) = TotalWidth(widths)
    /\ Pack(p, m) = Written(tag, fields, widths)
                       \o ZerosAfter(p, Len(Written(tag, fields, widths)))

LEMMA PackParts ==
    ASSUME NEW p, NEW v, NEW fields, NEW m, NEW tag, NEW widths,
           RowOf(p, v, fields, m, tag, widths)
    PROVE  PackedAs(p, fields, m, tag, widths)
<1> USE DEF RowOf
<1> DEFINE parts == Parts(fields, widths)
<1>1. FlattenSeq(parts) \in Seq(Nat) /\ Len(FlattenSeq(parts)) = TotalWidth(widths)
  <2>1. /\ parts \in Seq(Seq(Nat)) /\ Len(parts) = Len(widths)
        /\ \A i \in 1..Len(widths) : Len(parts[i]) = widths[i]
    BY PartsOfFields
  <2> HIDE DEF parts
  <2> QED
    BY <2>1, FieldsInPlace
<1>2. parts = [i \in 1..Len(widths) |-> ToBytes(fields[i], widths[i])]
  BY DEF Parts
<1>3. m.variant = v /\ m.fields = fields
  BY DEF Message
<1>4. Packed(p)[v].tag = tag /\ Packed(p)[v].widths = widths
  BY DEF Layout
<1>5. Pack(p, m) = (<< tag >> \o FlattenSeq(parts))
                      \o ZerosAfter(p, Len(<< tag >> \o FlattenSeq(parts)))
  BY <1>2, <1>3, <1>4 DEF Pack, ZerosAfter
<1> QED
  BY <1>1, <1>5 DEF Flat, Written, PackedAs

LEMMA PackWrites ==
    ASSUME NEW p, NEW v \in DOMAIN Packed(p), NEW fields, NEW m, m = Message(v, fields),
           NEW tag \in Nat, NEW widths \in Seq(Nat), Packed(p)[v] = Layout(tag, widths),
           Fits(fields, widths), PackedLength(p, 1 + TotalWidth(widths)) \in Int
    PROVE  /\ Pack(p, m) \in Seq(Nat)
           /\ Len(Pack(p, m)) >= 1 + TotalWidth(widths)
           /\ Pack(p, m)[1] = tag
           /\ \A k \in 1..TotalWidth(widths) :
                Pack(p, m)[k + 1] = FlattenSeq(Parts(fields, widths))[k]
<1> DEFINE flat == Flat(fields, widths)
           written == << tag >> \o flat
           padding == PackedLength(p, Len(written)) - Len(written)
           zeros == [i \in 1..padding |-> 0]
<1>1. /\ flat \in Seq(Nat) /\ Len(flat) = TotalWidth(widths)
      /\ Pack(p, m) = written \o zeros
  <2>1. RowOf(p, v, fields, m, tag, widths)
    BY DEF RowOf
  <2>2. PackedAs(p, fields, m, tag, widths)
    BY <2>1, PackParts
  <2> QED
    BY <2>2 DEF PackedAs, Written, ZerosAfter
<1>2. flat = FlattenSeq(Parts(fields, widths))
  BY DEF Flat
<1> HIDE DEF flat
<1>4. Len(written) = 1 + Len(flat)
  <2>1. << >> \in Seq(Nat)
    OBVIOUS
  <2> HIDE DEF written
  <2>2. written = << tag >> \o flat
    BY DEF written
  <2> QED
    BY <1>1, <2>1, <2>2, TagFirst
<1>5. padding \in Int
  BY <1>1, <1>4, TotalIsNat
<1>6. zeros \in Seq(Nat)
  <2> HIDE DEF padding
  <2> QED
    BY <1>5, Zeros
<1> HIDE DEF zeros
<1>7. /\ written \o zeros \in Seq(Nat) /\ Len(written \o zeros) >= 1 + Len(flat)
      /\ (written \o zeros)[1] = tag
      /\ \A k \in 1..Len(flat) : (written \o zeros)[k + 1] = flat[k]
  BY <1>1, <1>6, TagFirst
<1> HIDE DEF written
<1> QED
  BY <1>1, <1>2, <1>7

(* What a program makes of data that begins with a tag it knows.           *)
LEMMA UnpackKnown ==
    ASSUME NEW q, NEW r, NEW tag, NEW widths \in Seq(Nat),
           tag \in DOMAIN Readings(q), Readings(q)[tag] = Reading(r, widths),
           NEW packing \in Seq(Nat), Len(packing) >= 1, packing[1] = tag,
           NEW d, Arrived(packing, d)
    PROVE  Unpack(q, d) =
                IF Len(d) > TotalWidth(widths)
                THEN [variant |-> r,
                      fields |-> [i \in 1..Len(widths) |-> Field(Tail(d), widths, i)]]
                ELSE Refused
<1> DEFINE total == TotalWidth(widths)
           fields == [i \in 1..Len(widths) |-> Field(Tail(d), widths, i)]
<1>1. Readings(q)[tag].variant = r /\ Readings(q)[tag].widths = widths
  BY DEF Reading
<1>2. total \in Nat
  BY TotalIsNat
<1>3. d \in Seq(Nat) /\ Len(d) \in Nat /\ Len(packing) \in Nat
  BY DEF Arrived
<1>4. CASE Len(d) = 0
  <2>1. Unpack(q, d) = Refused
    BY <1>4 DEF Unpack
  <2> HIDE DEF fields
  <2> QED
    BY <1>2, <1>4, <2>1 DEF total
<1>5. CASE Len(d) # 0
  <2>1. Head(d) = tag
    <3>1. 1 \in 1..Len(d) /\ 1 <= Len(packing)
      BY <1>3, <1>5
    <3> QED
      BY <3>1 DEF Arrived
  <2>2. Unpack(q, d) = IF ~ Enough(Tail(d), widths) THEN Refused
                       ELSE [variant |-> r, fields |-> fields]
    BY <1>1, <1>5, <2>1 DEF Unpack
  <2>3. Len(Tail(d)) = Len(d) - 1
    BY <1>3, <1>5, RestArrived
  <2> HIDE DEF fields, total
  <2>4. Enough(Tail(d), widths) <=> Len(d) > total
    <3>1. Enough(Tail(d), widths) <=> Len(Tail(d)) >= total
      BY DEF Enough, total
    <3> QED
      BY <1>2, <1>3, <2>3, <3>1, AfterTheTag
  <2>5. Unpack(q, d) = IF Len(d) > total THEN [variant |-> r, fields |-> fields] ELSE Refused
    BY <2>2, <2>4
  <2> QED
    BY <2>5 DEF total, fields
<1> QED
  BY <1>4, <1>5 DEF total

LEMMA UnpackUnknown ==
    ASSUME NEW q, NEW tag, tag \notin DOMAIN Readings(q),
           NEW packing \in Seq(Nat), Len(packing) >= 1, packing[1] = tag,
           NEW d, Arrived(packing, d)
    PROVE  Unpack(q, d) = Refused
<1>1. d \in Seq(Nat) /\ Len(d) \in Nat /\ Len(packing) \in Nat
  BY DEF Arrived
<1>2. CASE Len(d) = 0
  BY <1>2 DEF Unpack
<1>3. CASE Len(d) # 0
  <2>1. 1 \in 1..Len(d) /\ 1 <= Len(packing)
    BY <1>1, <1>3
  <2>2. Head(d) = tag
    BY <2>1 DEF Arrived
  <2> QED
    BY <1>3, <2>2 DEF Unpack
<1> QED
  BY <1>2, <1>3

LEMMA UnpackReads ==
    ASSUME NEW p, NEW q, NEW v \in DOMAIN Packed(p), NEW fields, NEW m, m = Message(v, fields),
           NEW tag \in Nat, NEW widths \in Seq(Nat), Packed(p)[v] = Layout(tag, widths),
           tag \in DOMAIN Readings(q), Readings(q)[tag] = Reading(v, widths),
           fields \in [1..Len(widths) -> Nat], Fits(fields, widths),
           PackedLength(p, 1 + TotalWidth(widths)) \in Int,
           NEW d, Arrived(Pack(p, m), d)
    PROVE  Unpack(q, d) = IF Len(d) > TotalWidth(widths) THEN m ELSE Refused
<1> DEFINE total == TotalWidth(widths)
           packing == Pack(p, m)
           flat == FlattenSeq(Parts(fields, widths))
           rest == Tail(d)
<1>1. /\ packing \in Seq(Nat) /\ Len(packing) >= 1 + total /\ packing[1] = tag
      /\ \A k \in 1..total : packing[k + 1] = flat[k]
  <2> HIDE DEF packing, total, flat
  <2> QED
    BY PackWrites DEF packing, total, flat
<1>2. total \in Nat
  BY TotalIsNat
<1>3. d \in Seq(Nat) /\ Len(d) \in Nat /\ Arrived(packing, d)
  BY DEF Arrived
<1> HIDE DEF packing, total, flat, rest
<1>4. Len(packing) \in Nat /\ Len(packing) >= 1
  BY <1>1, <1>2
<1>5. Unpack(q, d) = IF Len(d) > total
                     THEN [variant |-> v,
                           fields |-> [i \in 1..Len(widths) |-> Field(rest, widths, i)]]
                     ELSE Refused
  BY <1>1, <1>3, <1>4, UnpackKnown DEF rest, total
<1>6. CASE Len(d) > total
  <2>1. /\ rest \in Seq(Nat) /\ Len(rest) = Len(d) - 1
        /\ \A k \in 1..Len(rest) : k + 1 <= Len(packing) => rest[k] = packing[k + 1]
    BY <1>1, <1>2, <1>3, <1>6, RestArrived DEF rest
  <2>3. Len(rest) \in Nat /\ Len(rest) >= total
    BY <1>2, <1>3, <1>6, <2>1
  <2>2. ASSUME NEW k \in 1..total PROVE rest[k] = flat[k]
    <3>1. k \in 1..Len(rest) /\ k + 1 <= Len(packing)
      BY <1>1, <1>2, <1>4, <2>3, WithinAfter
    <3> QED
      BY <1>1, <2>1, <3>1
  <2>4. \A i \in 1..Len(widths) : Field(rest, widths, i) = fields[i]
    BY <2>1, <2>2, <2>3, FieldsRead, ZenonT(30) DEF total, flat
  <2>5. [i \in 1..Len(widths) |-> Field(rest, widths, i)] = fields
    BY <2>4
  <2> QED
    BY <1>5, <1>6, <2>5 DEF total, Message
<1>7. CASE ~ (Len(d) > total)
  BY <1>5, <1>7 DEF total
<1> QED
  BY <1>6, <1>7

(* The fields that stand at the same places for both programs, and that    *)
(* lie within what the receiver asks for.                                  *)
LaidAlike(written, read) ==
    \A i \in 1..Len(written) : i \in 1..Len(read) =>
        /\ Offset(read, i) = Offset(written, i) /\ read[i] = written[i]
        /\ Offset(written, i) + written[i] <= TotalWidth(read)

(* Those are read as they were packed, whatever else is read.              *)
LEMMA UnpackPrefix ==
    ASSUME NEW p, NEW q, NEW v \in DOMAIN Packed(p), NEW fields, NEW m, m = Message(v, fields),
           NEW tag \in Nat, NEW widths \in Seq(Nat), Packed(p)[v] = Layout(tag, widths),
           NEW r, NEW read \in Seq(Nat), LaidAlike(widths, read),
           tag \in DOMAIN Readings(q), Readings(q)[tag] = Reading(r, read),
           Fits(fields, widths), PackedLength(p, 1 + TotalWidth(widths)) \in Int,
           NEW d, Arrived(Pack(p, m), d), Unpack(q, d) # Refused
    PROVE  /\ Unpack(q, d) =
                [variant |-> r, fields |-> [i \in 1..Len(read) |-> Field(Tail(d), read, i)]]
           /\ Len(d) > TotalWidth(read)
           /\ \A i \in 1..Len(widths) : i \in 1..Len(read) => Field(Tail(d), read, i) = fields[i]
<1> DEFINE total == TotalWidth(widths)
           packing == Pack(p, m)
           flat == FlattenSeq(Parts(fields, widths))
           rest == Tail(d)
<1>1. /\ packing \in Seq(Nat) /\ Len(packing) >= 1 + total /\ packing[1] = tag
      /\ \A k \in 1..total : packing[k + 1] = flat[k]
  <2> HIDE DEF packing, total, flat
  <2> QED
    BY PackWrites DEF packing, total, flat
<1>2. total \in Nat /\ TotalWidth(read) \in Nat
  BY TotalIsNat
<1>3. d \in Seq(Nat) /\ Len(d) \in Nat /\ Arrived(packing, d)
  BY DEF Arrived
<1> HIDE DEF packing, total, flat, rest
<1>4. Len(packing) \in Nat /\ Len(packing) >= 1
  BY <1>1, <1>2
<1>5. /\ Unpack(q, d) =
            [variant |-> r, fields |-> [i \in 1..Len(read) |-> Field(Tail(d), read, i)]]
      /\ Len(d) > TotalWidth(read)
  BY <1>1, <1>3, <1>4, UnpackKnown
<1>6. /\ rest \in Seq(Nat) /\ Len(rest) = Len(d) - 1
      /\ \A k \in 1..Len(rest) : k + 1 <= Len(packing) => rest[k] = packing[k + 1]
  BY <1>1, <1>2, <1>3, <1>5, RestArrived DEF rest
<1>7. ASSUME NEW i \in 1..Len(widths), i \in 1..Len(read)
      PROVE  Field(rest, read, i) = fields[i]
  <2> DEFINE end == Offset(widths, i) + widths[i]
  <2>1. /\ Offset(read, i) = Offset(widths, i) /\ read[i] = widths[i]
        /\ end <= TotalWidth(read)
    BY <1>7 DEF LaidAlike
  <2>2. end \in Nat /\ end <= total
    BY EndsWithin DEF EndWithin, total
  <2>3. Field(rest, read, i) = Field(rest, widths, i)
    BY <2>1 DEF Field
  <2>4. end = Offset(widths, i) + widths[i]
    OBVIOUS
  <2> HIDE DEF end
  <2>5. Len(rest) \in Nat /\ Len(rest) >= end
    BY <1>2, <1>3, <1>5, <1>6, <2>1, <2>2, LongEnough
  <2>6. ASSUME NEW k \in 1..end PROVE rest[k] = FlattenSeq(Parts(fields, widths))[k]
    <3>1. k \in 1..total
      BY <1>2, <2>2
    <3>2. k \in 1..Len(rest)
      BY <2>2, <2>5
    <3>3. k + 1 <= Len(packing)
      BY <1>1, <1>2, <1>4, <3>1, WithinAfter
    <3> QED
      BY <1>1, <1>6, <3>1, <3>2, <3>3 DEF flat
  <2>7. Field(rest, widths, i) = fields[i]
    BY <1>6, <2>4, <2>5, <2>6, FieldRead, ZenonT(40)
  <2> QED
    BY <2>3, <2>7
<1> QED
  BY <1>5, <1>7 DEF rest

-----------------------------------------------------------------------------
(* A row of the table that the client p writes with agrees with a row of   *)
(* the table that the program q reads with.                                *)
Agree(p, q, v, tag, widths) ==
    /\ tag \in 0..12 /\ widths \in Seq({1, 8})
    /\ v \in DOMAIN Packed(p) /\ Packed(p)[v] = Layout(tag, widths)
    /\ tag \in DOMAIN Readings(q) /\ Readings(q)[tag] = Reading(v, widths)

Known(p, q, v) == \E tag, widths : Agree(p, q, v, tag, widths)

LEMMA WidthLists ==
    /\ << >> \in Seq({1, 8}) /\ <<1>> \in Seq({1, 8}) /\ << 8 >> \in Seq({1, 8})
    /\ <<1, 8>> \in Seq({1, 8}) /\ <<8, 8>> \in Seq({1, 8}) /\ <<8, 8, 8>> \in Seq({1, 8})
    /\ <<1, 8, 8, 8>> \in Seq({1, 8}) /\ <<8, 8, 8, 8>> \in Seq({1, 8})
OBVIOUS

LEMMA AmmRows ==
    /\ DOMAIN Packed("amm") = {"Initialize", "Initialize2", "Deposit",
                               "Withdraw", "SwapBaseIn", "PreInitialize",
                               "SwapBaseOut"}
    /\ Agree("amm", "amm", "Initialize", 0, <<1, 8>>)
    /\ Agree("amm", "amm", "Initialize2", 1, <<1, 8, 8, 8>>)
    /\ Agree("amm", "amm", "Deposit", 3, <<8, 8, 8>>)
    /\ Agree("amm", "amm", "Withdraw", 4, << 8 >>)
    /\ Agree("amm", "amm", "SwapBaseIn", 9, <<8, 8>>)
    /\ Agree("amm", "amm", "PreInitialize", 10, <<1>>)
    /\ Agree("amm", "amm", "SwapBaseOut", 11, <<8, 8>>)
<1>1. Packed("amm") = AmmPack /\ Readings("amm") = AmmUnpack
  BY DEF Packed, Readings
<1>2. /\ DOMAIN AmmPack = {"Initialize", "Initialize2", "Deposit", "Withdraw",
                           "SwapBaseIn", "PreInitialize", "SwapBaseOut"}
      /\ AmmPack["Initialize"] = Layout(0, <<1, 8>>)
      /\ AmmPack["Initialize2"] = Layout(1, <<1, 8, 8, 8>>)
      /\ AmmPack["Deposit"] = Layout(3, <<8, 8, 8>>)
      /\ AmmPack["Withdraw"] = Layout(4, << 8 >>)
      /\ AmmPack["SwapBaseIn"] = Layout(9, <<8, 8>>)
      /\ AmmPack["PreInitialize"] = Layout(10, <<1>>)
      /\ AmmPack["SwapBaseOut"] = Layout(11, <<8, 8>>)
  BY DEF AmmPack
<1>3. /\ DOMAIN AmmUnpack = {0, 1, 3, 4, 9, 10, 11}
      /\ AmmUnpack[0] = Reading("Initialize", <<1, 8>>)
      /\ AmmUnpack[1] = Reading("Initialize2", <<1, 8, 8, 8>>)
      /\ AmmUnpack[3] = Reading("Deposit", <<8, 8, 8>>)
      /\ AmmUnpack[4] = Reading("Withdraw", << 8 >>)
      /\ AmmUnpack[9] = Reading("SwapBaseIn", <<8, 8>>)
      /\ AmmUnpack[10] = Reading("PreInitialize", <<1>>)
      /\ AmmUnpack[11] = Reading("SwapBaseOut", <<8, 8>>)
  BY DEF AmmUnpack
<1> QED
  BY <1>1, <1>2, <1>3, WidthLists DEF Agree

LEMMA StableRows ==
    /\ DOMAIN Packed("stable") = {"Initialize", "Deposit", "Withdraw",
                                  "SwapBaseIn", "PreInitialize", "SwapBaseOut"}
    /\ Agree("stable", "stable", "Initialize", 0, <<1, 8>>)
    /\ Agree("stable", "stable", "Deposit", 3, <<8, 8, 8>>)
    /\ Agree("stable", "stable", "Withdraw", 4, << 8 >>)
    /\ Agree("stable", "stable", "SwapBaseIn", 9, <<8, 8>>)
    /\ Agree("stable", "stable", "PreInitialize", 10, <<1>>)
    /\ Agree("stable", "stable", "SwapBaseOut", 11, <<8, 8>>)
<1>1. Packed("stable") = StablePack /\ Readings("stable") = StableUnpack
  BY DEF Packed, Readings
<1>2. /\ DOMAIN StablePack = {"Initialize", "Deposit", "Withdraw",
                              "SwapBaseIn", "PreInitialize", "SwapBaseOut"}
      /\ StablePack["Initialize"] = Layout(0, <<1, 8>>)
      /\ StablePack["Deposit"] = Layout(3, <<8, 8, 8>>)
      /\ StablePack["Withdraw"] = Layout(4, << 8 >>)
      /\ StablePack["SwapBaseIn"] = Layout(9, <<8, 8>>)
      /\ StablePack["PreInitialize"] = Layout(10, <<1>>)
      /\ StablePack["SwapBaseOut"] = Layout(11, <<8, 8>>)
  BY DEF StablePack
<1>3. /\ DOMAIN StableUnpack = {0, 3, 4, 9, 10, 11}
      /\ StableUnpack[0] = Reading("Initialize", <<1, 8>>)
      /\ StableUnpack[3] = Reading("Deposit", <<8, 8, 8>>)
      /\ StableUnpack[4] = Reading("Withdraw", << 8 >>)
      /\ StableUnpack[9] = Reading("SwapBaseIn", <<8, 8>>)
      /\ StableUnpack[10] = Reading("PreInitialize", <<1>>)
      /\ StableUnpack[11] = Reading("SwapBaseOut", <<8, 8>>)
  BY DEF StableUnpack
<1> QED
  BY <1>1, <1>2, <1>3, WidthLists DEF Agree

LEMMA RouteRows ==
    /\ DOMAIN Packed("route") = {"RouteSwapIn", "RouteSwapMinOut",
                                 "RouteStableSwapIn", "RouteStableSwapMinOut",
                                 "RouteSwapBaseInIn", "RouteSwapBaseInMinOut"}
    /\ Agree("route", "route", "RouteSwapIn", 0, <<8, 8>>)
    /\ Agree("route", "route", "RouteSwapMinOut", 1, << >>)
    /\ Agree("route", "route", "RouteStableSwapIn", 2, <<8, 8>>)
    /\ Agree("route", "route", "RouteStableSwapMinOut", 3, << >>)
    /\ Agree("route", "route", "RouteSwapBaseInIn", 4, <<8, 8>>)
    /\ Agree("route", "route", "RouteSwapBaseInMinOut", 5, << >>)
<1>1. Packed("route") = RoutePack /\ Readings("route") = RouteUnpack
  BY DEF Packed, Readings
<1>2. /\ DOMAIN RoutePack = {"RouteSwapIn", "RouteSwapMinOut",
                             "RouteStableSwapIn", "RouteStableSwapMinOut",
                             "RouteSwapBaseInIn", "RouteSwapBaseInMinOut"}
      /\ RoutePack["RouteSwapIn"] = Layout(0, <<8, 8>>)
      /\ RoutePack["RouteSwapMinOut"] = Layout(1, << >>)
      /\ RoutePack["RouteStableSwapIn"] = Layout(2, <<8, 8>>)
      /\ RoutePack["RouteStableSwapMinOut"] = Layout(3, << >>)
      /\ RoutePack["RouteSwapBaseInIn"] = Layout(4, <<8, 8>>)
      /\ RoutePack["RouteSwapBaseInMinOut"] = Layout(5, << >>)
  BY DEF RoutePack
<1>3. /\ DOMAIN RouteUnpack = 0..5
      /\ RouteUnpack[0] = Reading("RouteSwapIn", <<8, 8>>)
      /\ RouteUnpack[1] = Reading("RouteSwapMinOut", << >>)
      /\ RouteUnpack[2] = Reading("RouteStableSwapIn", <<8, 8>>)
      /\ RouteUnpack[3] = Reading("RouteStableSwapMinOut", << >>)
      /\ RouteUnpack[4] = Reading("RouteSwapBaseInIn", <<8, 8>>)
      /\ RouteUnpack[5] = Reading("RouteSwapBaseInMinOut", << >>)
  BY DEF RouteUnpack
<1> QED
  BY <1>1, <1>2, <1>3, WidthLists DEF Agree

LEMMA FarmRows ==
    /\ DOMAIN Packed("farm") = {"Initialize", "Deposit", "Withdraw",
                                "UpdatePool", "EmergencyWithdraw",
                                "CreateAssociatedAccount", "DepositV2",
                                "WithdrawV2"}
    /\ Agree("farm", "farm", "Initialize", 0, <<8, 8, 8>>)
    /\ Agree("farm", "farm", "Deposit", 1, << 8 >>)
    /\ Agree("farm", "farm", "Withdraw", 2, << 8 >>)
    /\ Agree("farm", "farm", "UpdatePool", 3, << >>)
    /\ Agree("farm", "farm", "EmergencyWithdraw", 7, << >>)
    /\ Agree("farm", "farm", "CreateAssociatedAccount", 10, << >>)
    /\ Agree("farm", "farm", "DepositV2", 11, << 8 >>)
    /\ Agree("farm", "farm", "WithdrawV2", 12, << 8 >>)
<1>1. Packed("farm") = FarmSerialize /\ Readings("farm") = FarmDeserialize
  BY DEF Packed, Readings
<1>2. /\ DOMAIN FarmSerialize = {"Initialize", "Deposit", "Withdraw",
                                 "UpdatePool", "EmergencyWithdraw",
                                 "CreateAssociatedAccount", "DepositV2",
                                 "WithdrawV2"}
      /\ FarmSerialize["Initialize"] = Layout(0, <<8, 8, 8>>)
      /\ FarmSerialize["Deposit"] = Layout(1, << 8 >>)
      /\ FarmSerialize["Withdraw"] = Layout(2, << 8 >>)
      /\ FarmSerialize["UpdatePool"] = Layout(3, << >>)
      /\ FarmSerialize["EmergencyWithdraw"] = Layout(7, << >>)
      /\ FarmSerialize["CreateAssociatedAccount"] = Layout(10, << >>)
      /\ FarmSerialize["DepositV2"] = Layout(11, << 8 >>)
      /\ FarmSerialize["WithdrawV2"] = Layout(12, << 8 >>)
  BY DEF FarmSerialize
<1>3. /\ DOMAIN FarmDeserialize = {0, 1, 2, 3, 7, 10, 11, 12}
      /\ FarmDeserialize[0] = Reading("Initialize", <<8, 8, 8>>)
      /\ FarmDeserialize[1] = Reading("Deposit", << 8 >>)
      /\ FarmDeserialize[2] = Reading("Withdraw", << 8 >>)
      /\ FarmDeserialize[3] = Reading("UpdatePool", << >>)
      /\ FarmDeserialize[7] = Reading("EmergencyWithdraw", << >>)
      /\ FarmDeserialize[10] = Reading("CreateAssociatedAccount", << >>)
      /\ FarmDeserialize[11] = Reading("DepositV2", << 8 >>)
      /\ FarmDeserialize[12] = Reading("WithdrawV2", << 8 >>)
  BY DEF FarmDeserialize
<1> QED
  BY <1>1, <1>2, <1>3, WidthLists DEF Agree

LEMMA StakingRows ==
    /\ DOMAIN Packed("staking") = {"Initialize", "Deposit", "Withdraw",
                                   "UpdatePool", "EmergencyWithdraw",
                                   "CreateAssociatedAccount", "DepositV2",
                                   "WithdrawV2"}
    /\ Agree("staking", "staking", "Initialize", 0, <<8, 8, 8, 8>>)
    /\ Agree("staking", "staking", "Deposit", 1, << 8 >>)
    /\ Agree("staking", "staking", "Withdraw", 2, << 8 >>)
    /\ Agree("staking", "staking", "UpdatePool", 3, << >>)
    /\ Agree("staking", "staking", "EmergencyWithdraw", 7, << >>)
    /\ Agree("staking", "staking", "CreateAssociatedAccount", 9, << >>)
    /\ Agree("staking", "staking", "DepositV2", 10, << 8 >>)
    /\ Agree("staking", "staking", "WithdrawV2", 11, << 8 >>)
<1>1. Packed("staking") = StakeSerialize /\ Readings("staking") = StakeDeserialize
  BY DEF Packed, Readings
<1>2. /\ DOMAIN StakeSerialize = {"Initialize", "Deposit", "Withdraw",
                                  "UpdatePool", "EmergencyWithdraw",
                                  "CreateAssociatedAccount", "DepositV2",
                                  "WithdrawV2"}
      /\ StakeSerialize["Initialize"] = Layout(0, <<8, 8, 8, 8>>)
      /\ StakeSerialize["Deposit"] = Layout(1, << 8 >>)
      /\ StakeSerialize["Withdraw"] = Layout(2, << 8 >>)
      /\ StakeSerialize["UpdatePool"] = Layout(3, << >>)
      /\ StakeSerialize["EmergencyWithdraw"] = Layout(7, << >>)
      /\ StakeSerialize["CreateAssociatedAccount"] = Layout(9, << >>)
      /\ StakeSerialize["DepositV2"] = Layout(10, << 8 >>)
      /\ StakeSerialize["WithdrawV2"] = Layout(11, << 8 >>)
  BY DEF StakeSerialize
<1>3. /\ DOMAIN StakeDeserialize = {0, 1, 2, 3, 7, 9, 10, 11}
      /\ StakeDeserialize[0] = Reading("Initialize", <<8, 8, 8, 8>>)
      /\ StakeDeserialize[1] = Reading("Deposit", << 8 >>)
      /\ StakeDeserialize[2] = Reading("Withdraw", << 8 >>)
      /\ StakeDeserialize[3] = Reading("UpdatePool", << >>)
      /\ StakeDeserialize[7] = Reading("EmergencyWithdraw", << >>)
      /\ StakeDeserialize[9] = Reading("CreateAssociatedAccount", << >>)
      /\ StakeDeserialize[10] = Reading("DepositV2", << 8 >>)
      /\ StakeDeserialize[11] = Reading("WithdrawV2", << 8 >>)
  BY DEF StakeDeserialize
<1> QED
  BY <1>1, <1>2, <1>3, WidthLists DEF Agree

LEMMA OwnRows ==
    ASSUME NEW p \in {"amm", "stable", "route", "farm", "staking"}, NEW v \in DOMAIN Packed(p)
    PROVE  Known(p, p, v)
<1>1. CASE p = "amm"
  BY <1>1, AmmRows DEF Known
<1>2. CASE p = "stable"
  BY <1>2, StableRows DEF Known
<1>3. CASE p = "route"
  BY <1>3, RouteRows DEF Known
<1>4. CASE p = "farm"
  BY <1>4, FarmRows DEF Known
<1>5. CASE p = "staking"
  BY <1>5, StakingRows DEF Known
<1> QED
  BY <1>1, <1>2, <1>3, <1>4, <1>5

(* What the tables of the sibling programs make of each other's rows.      *)
TakenFor(p, q, v, r, tag, widths, read) ==
    /\ tag \in 0..12 /\ widths \in Seq({1, 8}) /\ read \in Seq({1, 8})
    /\ v \in DOMAIN Packed(p) /\ Packed(p)[v] = Layout(tag, widths)
    /\ tag \in DOMAIN Readings(q) /\ Readings(q)[tag] = Reading(r, read)
    /\ LaidAlike(widths, read)
    /\ widths = << >> => read = << >> \/ (p = "farm" /\ read = << 8 >>)

Taken(p, q, v, r) == \E tag, widths, read : TakenFor(p, q, v, r, tag, widths, read)

Foreign(p, q, v) ==
    \E tag, widths : Agree(p, p, v, tag, widths) /\ tag \notin DOMAIN Readings(q)

LEMMA SamePlaces ==
    ASSUME NEW widths \in Seq({1, 8})
    PROVE  LaidAlike(widths, widths)
<1>1. widths \in Seq(Nat)
  OBVIOUS
<1> QED
  BY <1>1, EndsWithin DEF EndWithin, LaidAlike

LEMMA NoPlaces ==
    ASSUME NEW widths \in Seq({1, 8})
    PROVE  LaidAlike(widths, << >>) /\ LaidAlike(<< >>, widths)
BY DEF LaidAlike

LEMMA EndsOfWords ==
    ASSUME NEW widths \in Seq(Nat), NEW n, Len(widths) = n, \A i \in 1..n : widths[i] = 8
    PROVE  /\ Ends(widths)[0] = 0
           /\ \A i \in 1..n : Ends(widths)[i] = Ends(widths)[i - 1] + 8
<1>1. /\ Ends(widths)[0] = 0
      /\ \A i \in 1..Len(widths) : Ends(widths)[i] = Ends(widths)[i - 1] + widths[i]
  BY EndsAddUp
<1>2. ASSUME NEW i \in 1..n PROVE Ends(widths)[i] = Ends(widths)[i - 1] + 8
  <2>1. i \in 1..Len(widths) /\ widths[i] = 8
    OBVIOUS
  <2> QED
    BY <1>1, <2>1
<1> QED
  BY <1>1, <1>2

(* The initialize of the farm carries the first three of the four fields   *)
(* of the other.                                                           *)
LEMMA ThreeOfFour ==
    /\ LaidAlike(<<8, 8, 8>>, <<8, 8, 8, 8>>)
    /\ LaidAlike(<<8, 8, 8, 8>>, <<8, 8, 8>>)
<1> DEFINE a == <<8, 8, 8>>
           b == <<8, 8, 8, 8>>
<1>1. /\ a \in Seq(Nat) /\ Len(a) = 3 /\ \A i \in 1..3 : a[i] = 8
      /\ b \in Seq(Nat) /\ Len(b) = 4 /\ \A i \in 1..4 : b[i] = 8
  OBVIOUS
<1> HIDE DEF a, b
<1>2. /\ Ends(a)[0] = 0 /\ \A i \in 1..3 : Ends(a)[i] = Ends(a)[i - 1] + 8
      /\ Ends(b)[0] = 0 /\ \A i \in 1..4 : Ends(b)[i] = Ends(b)[i - 1] + 8
  BY <1>1, EndsOfWords
<1>3. /\ Ends(a)[1] = 8 /\ Ends(a)[2] = 16 /\ Ends(a)[3] = 24
  <2>1. Ends(a)[1] = Ends(a)[0] + 8 /\ Ends(a)[2] = Ends(a)[1] + 8
        /\ Ends(a)[3] = Ends(a)[2] + 8
    BY <1>2
  <2> QED
    BY <1>2, <2>1
<1>4. /\ Ends(b)[1] = 8 /\ Ends(b)[2] = 16 /\ Ends(b)[3] = 24 /\ Ends(b)[4] = 32
  <2>1. Ends(b)[1] = Ends(b)[0] + 8 /\ Ends(b)[2] = Ends(b)[1] + 8
        /\ Ends(b)[3] = Ends(b)[2] + 8 /\ Ends(b)[4] = Ends(b)[3] + 8
    BY <1>2
  <2> QED
    BY <1>2, <2>1
<1>5. TotalWidth(a) = 24 /\ TotalWidth(b) = 32
  BY <1>1, <1>3, <1>4 DEF TotalWidth
<1>6. ASSUME NEW i \in 1..3
      PROVE  /\ Offset(a, i) = Offset(b, i) /\ a[i] = b[i] /\ i \in 1..4
             /\ Offset(b, i) + b[i] <= 24 /\ Offset(a, i) + a[i] <= 32
  <2>1. i = 1 \/ i = 2 \/ i = 3
    OBVIOUS
  <2>2. Offset(a, i) = Ends(a)[i - 1] /\ Offset(b, i) = Ends(b)[i - 1] /\ a[i] = 8 /\ b[i] = 8
    BY <1>1 DEF Offset
  <2>3. /\ Ends(a)[i - 1] = Ends(b)[i - 1]
        /\ Ends(b)[i - 1] + 8 <= 24 /\ Ends(a)[i - 1] + 8 <= 32
    BY <1>2, <1>3, <1>4, <2>1
  <2> QED
    BY <2>2, <2>3
<1>7. LaidAlike(a, b)
  BY <1>1, <1>5, <1>6 DEF LaidAlike
<1>8. LaidAlike(b, a)
  BY <1>1, <1>5, <1>6 DEF LaidAlike
<1> QED
  BY <1>7, <1>8 DEF a, b

(* Rows of the same fields, of any tag that both tables have.              *)
LEMMA SharedRow ==
    ASSUME NEW p, NEW q, NEW v, NEW r, NEW tag, NEW widths,
           Agree(p, p, v, tag, widths), Agree(q, q, r, tag, widths)
    PROVE  Taken(p, q, v, r)
<1>1. LaidAlike(widths, widths)
  BY SamePlaces DEF Agree
<1> QED
  BY <1>1 DEF Taken, TakenFor, Agree

LEMMA PrefixRow ==
    ASSUME NEW p, NEW q, NEW v, NEW r, NEW tag, NEW widths, NEW read,
           Agree(p, p, v, tag, widths), Agree(q, q, r, tag, read), LaidAlike(widths, read),
           widths = << >> => p = "farm" /\ read = << 8 >>
    PROVE  Taken(p, q, v, r)
BY DEF Taken, TakenFor, Agree

LEMMA KnownTags ==
    /\ DOMAIN Readings("stable") = {0, 3, 4, 9, 10, 11}
    /\ DOMAIN Readings("farm") = {0, 1, 2, 3, 7, 10, 11, 12}
    /\ DOMAIN Readings("staking") = {0, 1, 2, 3, 7, 9, 10, 11}
BY DEF Readings, StableUnpack, FarmDeserialize, StakeDeserialize

LEMMA SiblingRows ==
    ASSUME NEW p, NEW q, {p, q} \in Siblings, NEW v \in DOMAIN Packed(p), p # q
    PROVE  Taken(p, q, v, SiblingReadsAs(p, v)) \/ Foreign(p, q, v)
<1>1. \/ p = "amm" /\ q = "stable"
      \/ p = "stable" /\ q = "amm"
      \/ p = "farm" /\ q = "staking"
      \/ p = "staking" /\ q = "farm"
  BY Zenon DEF Siblings
<1>2. CASE p = "amm" /\ q = "stable"
  <2>1. SiblingReadsAs(p, v) = v
    BY <1>2 DEF SiblingReadsAs
  <2>2. CASE v = "Initialize2"
    <3>1. Agree("amm", "amm", "Initialize2", 1, <<1, 8, 8, 8>>)
      BY AmmRows
    <3>2. 1 \notin DOMAIN Readings("stable")
      BY KnownTags
    <3> QED
      BY <1>2, <2>2, <3>1, <3>2 DEF Foreign
  <2>3. CASE v # "Initialize2"
    BY <1>2, <2>1, <2>3, AmmRows, StableRows, SharedRow
  <2> QED
    BY <2>2, <2>3
<1>3. CASE p = "stable" /\ q = "amm"
  <2>1. SiblingReadsAs(p, v) = v
    BY <1>3 DEF SiblingReadsAs
  <2> QED
    BY <1>3, <2>1, AmmRows, StableRows, SharedRow
<1>4. CASE p = "farm" /\ q = "staking"
  <2>1. CASE v \in ReadAlike
    <3>1. SiblingReadsAs(p, v) = v
      BY <1>4, <2>1 DEF SiblingReadsAs, ReadAlike
    <3>2. v \in {"Deposit", "Withdraw", "UpdatePool", "EmergencyWithdraw"}
      BY <2>1 DEF ReadAlike
    <3> QED
      BY <1>4, <3>1, <3>2, FarmRows, StakingRows, SharedRow
  <2>2. CASE v = "DepositV2"
    <3>1. SiblingReadsAs(p, v) = "WithdrawV2"
      BY <1>4, <2>2 DEF SiblingReadsAs
    <3> QED
      BY <1>4, <2>2, <3>1, FarmRows, StakingRows, SharedRow
  <2>3. CASE v = "CreateAssociatedAccount"
    <3>1. SiblingReadsAs(p, v) = "DepositV2"
      BY <1>4, <2>3 DEF SiblingReadsAs
    <3>2. /\ Agree("farm", "farm", "CreateAssociatedAccount", 10, << >>)
          /\ Agree("staking", "staking", "DepositV2", 10, << 8 >>)
      BY FarmRows, StakingRows
    <3>3. LaidAlike(<< >>, << 8 >>)
      BY NoPlaces, WidthLists
    <3> QED
      BY <1>4, <2>3, <3>1, <3>2, <3>3, PrefixRow
  <2>4. CASE v = "Initialize"
    <3>1. SiblingReadsAs(p, v) = v
      BY <1>4, <2>4 DEF SiblingReadsAs
    <3>2. /\ Agree("farm", "farm", "Initialize", 0, <<8, 8, 8>>)
          /\ Agree("staking", "staking", "Initialize", 0, <<8, 8, 8, 8>>)
          /\ <<8, 8, 8>> # << >>
      BY FarmRows, StakingRows
    <3> QED
      BY <1>4, <2>4, <3>1, <3>2, ThreeOfFour, PrefixRow
  <2>5. CASE v = "WithdrawV2"
    <3>1. Agree("farm", "farm", "WithdrawV2", 12, << 8 >>) /\ 12 \notin DOMAIN Readings("staking")
      BY FarmRows, KnownTags
    <3> QED
      BY <1>4, <2>5, <3>1 DEF Foreign
  <2> QED
    BY <1>4, <2>1, <2>2, <2>3, <2>4, <2>5, FarmRows DEF ReadAlike
<1>5. CASE p = "staking" /\ q = "farm"
  <2>1. CASE v \in ReadAlike
    <3>1. SiblingReadsAs(p, v) = v
      BY <1>5, <2>1 DEF SiblingReadsAs, ReadAlike
    <3>2. v \in {"Deposit", "Withdraw", "UpdatePool", "EmergencyWithdraw"}
      BY <2>1 DEF ReadAlike
    <3> QED
      BY <1>5, <3>1, <3>2, FarmRows, StakingRows, SharedRow
  <2>2. CASE v = "WithdrawV2"
    <3>1. SiblingReadsAs(p, v) = "DepositV2"
      BY <1>5, <2>2 DEF SiblingReadsAs
    <3> QED
      BY <1>5, <2>2, <3>1, FarmRows, StakingRows, SharedRow
  <2>3. CASE v = "DepositV2"
    <3>1. SiblingReadsAs(p, v) = "CreateAssociatedAccount"
      BY <1>5, <2>3 DEF SiblingReadsAs
    <3>2. /\ Agree("staking", "staking", "DepositV2", 10, << 8 >>)
          /\ Agree("farm", "farm", "CreateAssociatedAccount", 10, << >>)
          /\ << 8 >> # << >>
      BY FarmRows, StakingRows
    <3>3. LaidAlike(<< 8 >>, << >>)
      BY NoPlaces, WidthLists
    <3> QED
      BY <1>5, <2>3, <3>1, <3>2, <3>3, PrefixRow
  <2>4. CASE v = "Initialize"
    <3>1. SiblingReadsAs(p, v) = v
      BY <1>5, <2>4 DEF SiblingReadsAs
    <3>2. /\ Agree("staking", "staking", "Initialize", 0, <<8, 8, 8, 8>>)
          /\ Agree("farm", "farm", "Initialize", 0, <<8, 8, 8>>)
          /\ <<8, 8, 8, 8>> # << >>
      BY FarmRows, StakingRows
    <3> QED
      BY <1>5, <2>4, <3>1, <3>2, ThreeOfFour, PrefixRow
  <2>5. CASE v = "CreateAssociatedAccount"
    <3>1. /\ Agree("staking", "staking", "CreateAssociatedAccount", 9, << >>)
          /\ 9 \notin DOMAIN Readings("farm")
      BY StakingRows, KnownTags
    <3> QED
      BY <1>5, <2>5, <3>1 DEF Foreign
  <2> QED
    BY <1>5, <2>1, <2>2, <2>3, <2>4, <2>5, StakingRows DEF ReadAlike
<1> QED
  BY <1>1, <1>2, <1>3, <1>4, <1>5

(* The farm pads an instruction without fields with zeros, and eight of    *)
(* those are read as the amount zero.                                      *)
Joined(all, written, zeros, a, b) ==
    /\ a = 1 /\ b = 31 /\ \A i \in 1..31 : zeros[i] = 0
    /\ \A k \in 1..a + b : all[k] = IF k <= a THEN written[k] ELSE zeros[k - a]

LEMMA ZerosBehind ==
    ASSUME NEW all, NEW written, NEW zeros, NEW a, NEW b, Joined(all, written, zeros, a, b)
    PROVE  \A k \in 2..32 : all[k] = 0
BY DEF Joined

LEMMA TagAndZeros ==
    ASSUME NEW written \in Seq(Nat), Len(written) = 1,
           NEW zeros \in Seq(Nat), Len(zeros) = 31, \A i \in 1..31 : zeros[i] = 0
    PROVE  Len(written \o zeros) = 32 /\ \A k \in 2..32 : (written \o zeros)[k] = 0
<1> DEFINE all == written \o zeros
           a == Len(written)
           b == Len(zeros)
<1>1. /\ Len(all) = a + b
      /\ \A k \in 1..a + b : all[k] = IF k <= a THEN written[k] ELSE zeros[k - a]
  BY ConcatProperties
<1>2. a = 1 /\ b = 31
  OBVIOUS
<1> HIDE DEF all, a, b
<1>3. \A k \in 2..32 : all[k] = 0
  <2>1. Joined(all, written, zeros, a, b)
    BY <1>1, <1>2 DEF Joined
  <2> QED
    BY <2>1, ZerosBehind
<1>4. Len(all) = 32
  BY <1>1, <1>2
<1> QED
  BY <1>3, <1>4 DEF all

LEMMA PaddedWithZeros ==
    ASSUME NEW p, NEW v, NEW fields, NEW m, NEW tag, NEW widths,
           RowOf(p, v, fields, m, tag, widths), Len(widths) = 0, PackedLength(p, 1) = 32
    PROVE  /\ Len(Pack(p, m)) = 32
           /\ \A k \in 2..32 : Pack(p, m)[k] = 0
<1> DEFINE flat == Flat(fields, widths)
           written == Written(tag, fields, widths)
           zeros == ZerosAfter(p, Len(written))
<1>1. PackedAs(p, fields, m, tag, widths)
  BY PackParts
<1>2. flat \in Seq(Nat) /\ Len(flat) = TotalWidth(widths) /\ Pack(p, m) = written \o zeros
  BY <1>1 DEF PackedAs
<1>3. TotalWidth(widths) = 0
  BY EndsAddUp DEF TotalWidth, RowOf
<1>4. written = << tag >> \o flat /\ tag \in Nat
  BY DEF Written, RowOf
<1> HIDE DEF flat, written
<1>5. written \in Seq(Nat) /\ Len(written) = 1
  BY <1>2, <1>3, <1>4
<1>6. zeros = [i \in 1..31 |-> 0]
  <2>1. PackedLength(p, Len(written)) - Len(written) = 31
    BY <1>5
  <2> QED
    BY <2>1 DEF ZerosAfter
<1> HIDE DEF zeros
<1>7. zeros \in Seq(Nat) /\ Len(zeros) = 31 /\ \A i \in 1..31 : zeros[i] = 0
  <2> DEFINE z == [i \in 1..31 |-> 0]
  <2>1. z \in Seq(Nat) /\ Len(z) = 31 /\ \A i \in 1..31 : z[i] = 0
    OBVIOUS
  <2> HIDE DEF z
  <2>2. zeros = z
    BY <1>6 DEF z
  <2> QED
    BY <2>1, <2>2
<1>8. Len(written \o zeros) = 32 /\ \A k \in 2..32 : (written \o zeros)[k] = 0
  BY <1>5, <1>7, TagAndZeros
<1> QED
  BY <1>2, <1>8

LEMMA NoFields ==
    ASSUME NEW n \in Nat, NEW f \in [1..n -> Nat]
    PROVE  f = << >> => n = 0
<1> SUFFICES ASSUME f = << >> PROVE n = 0
  OBVIOUS
<1>1. DOMAIN f = 1..n /\ DOMAIN << >> = {}
  OBVIOUS
<1>2. 1..n = {}
  BY <1>1
<1> QED
  BY <1>2

LEMMA OneWord ==
    ASSUME NEW one, one = << 8 >>
    PROVE  /\ one \in Seq(Nat) /\ Len(one) = 1 /\ one[1] = 8
           /\ Offset(one, 1) = 0 /\ TotalWidth(one) = 8
<1>1. one \in Seq(Nat) /\ Len(one) = 1 /\ one[1] = 8
  OBVIOUS
<1>2. \A i \in 1..1 : one[i] = 8
  BY <1>1
<1>3. Ends(one)[0] = 0 /\ Ends(one)[1] = 8
  <2> DEFINE other == one
  <2>1. other \in Seq(Nat) /\ Len(other) = 1 /\ \A i \in 1..1 : other[i] = 8
    BY <1>1, <1>2
  <2> HIDE DEF other
  <2>2. /\ Ends(other)[0] = 0
        /\ \A i \in 1..1 : Ends(other)[i] = Ends(other)[i - 1] + 8
    BY <2>1, EndsOfWords
  <2>3. 1 \in 1..1 /\ 1 - 1 = 0
    OBVIOUS
  <2>4. Ends(other)[1] = Ends(other)[0] + 8
    BY <2>2, <2>3
  <2>5. Ends(other)[0] = 0 /\ Ends(other)[1] = 8
    BY <2>2, <2>4
  <2> QED
    BY <2>5 DEF other
<1>4. Offset(one, 1) = Ends(one)[0]
  BY DEF Offset
<1>5. TotalWidth(one) = Ends(one)[1]
  BY <1>1 DEF TotalWidth
<1> QED
  BY <1>1, <1>3, <1>4, <1>5

LEMMA ZeroRead ==
    ASSUME NEW rest \in Seq(Nat), Len(rest) >= 8, \A k \in 1..8 : rest[k] = 0,
           NEW one, one = << 8 >>
    PROVE  Field(rest, one, 1) = 0
<1> DEFINE sub == SubSeq(rest, 1, 8)
<1>3. Field(rest, one, 1) = FromBytes(sub)
  <2>1. Offset(one, 1) = 0 /\ one[1] = 8
    BY OneWord
  <2> QED
    BY <2>1 DEF Field
<1>4. sub \in Seq(Nat) /\ Len(sub) = 8 /\ \A k \in 1..8 : sub[k] = 0
  OBVIOUS
<1> HIDE DEF sub
<1>5. PICK last \in [0..Len(sub) -> Nat] :
          /\ last[0] = 0 /\ FromBytes(sub) = last[Len(sub)]
          /\ \A i \in 1..Len(sub) :
                last[i] = last[i - 1] * ByteBase + sub[Len(sub) + 1 - i]
  BY <1>4, FromBytesAddsUp
<1>6. \A i \in 1..8 : last[i - 1] = 0 => last[i] = 0
  <2> SUFFICES ASSUME NEW i \in 1..8, last[i - 1] = 0 PROVE last[i] = 0
    OBVIOUS
  <2>1. 8 + 1 - i \in 1..8
    OBVIOUS
  <2>3. sub[8 + 1 - i] = 0
    BY <1>4, <2>1
  <2>2. last[i] = 0 * ByteBase + 0
    BY <1>4, <1>5, <2>3
  <2> QED
    BY <2>2, Base
<1>7. last[8] = 0
  <2>1. last[1] = 0 /\ (last[1] = 0 => last[2] = 0) /\ (last[2] = 0 => last[3] = 0)
        /\ (last[3] = 0 => last[4] = 0) /\ (last[4] = 0 => last[5] = 0)
        /\ (last[5] = 0 => last[6] = 0) /\ (last[6] = 0 => last[7] = 0)
        /\ (last[7] = 0 => last[8] = 0)
    BY <1>5, <1>6
  <2> QED
    BY <2>1
<1> QED
  BY <1>3, <1>4, <1>5, <1>7

(* Every list of field values in a message fits the widths it is for.      *)
LEMMA FieldValuesFit ==
    ASSUME NEW widths \in Seq({1, 8}), NEW fields \in FieldValues(widths)
    PROVE  fields \in [1..Len(widths) -> Nat] /\ Fits(fields, widths)
<1>1. /\ fields \in [1..Len(widths) -> Words \union Bytes]
      /\ \A i \in 1..Len(widths) : fields[i] \in IF widths[i] = 1 THEN Bytes ELSE Words
  BY DEF FieldValues
<1>2. Values(1) \in Nat /\ Values(8) \in Nat
  <2>1. ASSUME NEW width \in Nat PROVE Values(width) \in Nat
    <3>1. PICK power \in [0..width -> Nat] : Values(width) = power[width]
      BY ValuesIsPower
    <3> QED
      BY <3>1
  <2> QED
    BY <2>1
<1>3. \A i \in 1..Len(widths) : widths[i] \in {1, 8}
  OBVIOUS
<1>4. \A i \in 1..Len(widths) : fields[i] \in 0..Values(widths[i]) - 1
  BY <1>1, <1>3, ClientAssumption
<1>5. Words \subseteq Nat /\ Bytes \subseteq Nat
  BY <1>2, ClientAssumption
<1> QED
  BY <1>1, <1>4, <1>5 DEF Fits

LEMMA Delivered ==
    ASSUME NEW p, NEW q, NEW v \in DOMAIN Packed(p), Known(p, q, v),
           NEW fields \in FieldValues(Packed(p)[v].widths),
           NEW m, m = Message(v, fields)
    PROVE  /\ Pack(p, m) \in Seq(Nat) /\ Pack(p, m) # << >>
           /\ \A d : Arrived(Pack(p, m), d) =>
                Unpack(q, d) = IF Len(d) > TotalWidth(Packed(p)[v].widths) THEN m ELSE Refused
<1>1. PICK tag, widths : Agree(p, q, v, tag, widths)
  BY DEF Known
<1>2. /\ tag \in Nat /\ widths \in Seq({1, 8})
      /\ Packed(p)[v] = Layout(tag, widths)
      /\ tag \in DOMAIN Readings(q) /\ Readings(q)[tag] = Reading(v, widths)
  BY <1>1 DEF Agree
<1>3. widths \in Seq(Nat)
  BY <1>2
<1>4. Packed(p)[v].widths = widths
  BY <1>2 DEF Layout
<1>5. fields \in [1..Len(widths) -> Nat] /\ Fits(fields, widths)
  BY <1>2, <1>4, FieldValuesFit
<1>6. TotalWidth(widths) \in Nat
  BY <1>3, TotalIsNat
<1>7. PackedLength(p, 1 + TotalWidth(widths)) \in Int
  BY <1>6, BufferAssumption DEF PackedLength
<1>8. /\ Pack(p, m) \in Seq(Nat)
      /\ Len(Pack(p, m)) >= 1 + TotalWidth(widths)
  BY <1>2, <1>3, <1>5, <1>7, PackWrites
<1>9. Pack(p, m) # << >>
  <2> DEFINE packing == Pack(p, m)
  <2>1. packing \in Seq(Nat) /\ Len(packing) >= 1 + TotalWidth(widths)
    BY <1>8
  <2> HIDE DEF packing
  <2>2. packing # << >>
    BY <1>6, <2>1
  <2> QED
    BY <2>2 DEF packing
<1>10. ASSUME NEW d, Arrived(Pack(p, m), d)
       PROVE  Unpack(q, d) = IF Len(d) > TotalWidth(widths) THEN m ELSE Refused
  BY <1>2, <1>3, <1>5, <1>7, <1>10, UnpackReads
<1> QED
  BY <1>4, <1>8, <1>9, <1>10

LEMMA Reserved ==
    ASSUME NEW p \in Programs
    PROVE  /\ "Reserved" \notin DOMAIN Packed(p)
           /\ \A m : m.variant = "Reserved" => Pack(p, m) = << >>
<1>1. "Reserved" \notin DOMAIN Packed(p)
  BY ClientAssumption, AmmRows, StableRows, RouteRows, FarmRows, StakingRows
<1> QED
  BY <1>1 DEF Pack

LEMMA MessageCases ==
    ASSUME NEW p, NEW m \in Messages(p)
    PROVE  \/ m = Message("Reserved", << >>)
           \/ \E v \in DOMAIN Packed(p) :
                \E fields \in FieldValues(Packed(p)[v].widths) : m = Message(v, fields)
BY DEF Messages, Message

LEMMA PackingIsBytes ==
    ASSUME NEW p \in Programs, NEW m \in Messages(p)
    PROVE  Pack(p, m) \in Seq(Nat)
<1>1. CASE m = Message("Reserved", << >>)
  <2>1. m.variant = "Reserved"
    BY <1>1 DEF Message
  <2>2. << >> \in Seq(Nat)
    OBVIOUS
  <2>3. Pack(p, m) = << >>
    BY <2>1, Reserved
  <2> QED
    BY <2>2, <2>3
<1>2. CASE m # Message("Reserved", << >>)
  <2>1. PICK v \in DOMAIN Packed(p) :
            \E fields \in FieldValues(Packed(p)[v].widths) : m = Message(v, fields)
    BY <1>2, MessageCases
  <2>2. PICK fields \in FieldValues(Packed(p)[v].widths) : m = Message(v, fields)
    BY <2>1
  <2>3. Known(p, p, v)
    BY ClientAssumption, OwnRows
  <2> QED
    BY <2>2, <2>3, Delivered
<1> QED
  BY <1>1, <1>2

-----------------------------------------------------------------------------
(* The inductive invariant.                                                *)
Carried ==
    /\ program \in Programs /\ message \in Messages(program)
    /\ receiver = program \/ {program, receiver} \in Siblings
    /\ Arrived(Packing, data)

LEMMA CarriedInit == Init => Carried
<1>1. SUFFICES ASSUME Init PROVE Carried
  OBVIOUS
<1>2. /\ program \in Programs /\ message \in Messages(program) /\ receiver = program
      /\ data = Packing
  BY <1>1 DEF Init, Packing
<1>3. Packing \in Seq(Nat)
  BY <1>2, PackingIsBytes DEF Packing
<1> QED
  BY <1>2, <1>3 DEF Carried, Arrived

LEMMA CarriedNext == Carried /\ [Next]_vars => Carried'
<1> SUFFICES ASSUME Carried, [Next]_vars PROVE Carried'
  OBVIOUS
<1> DEFINE n == Len(Packing)
<1>1. /\ program \in Programs /\ message \in Messages(program)
      /\ receiver = program \/ {program, receiver} \in Siblings
      /\ data \in Seq(Nat)
      /\ \A k \in 1..Len(data) : k <= n => data[k] = Packing[k]
  BY DEF Carried, Arrived
<1>2. Packing \in Seq(Nat)
  BY <1>1, PackingIsBytes DEF Packing
<1>3. n \in Nat
  BY <1>2
<1>4. CASE Truncate
  <2>1. /\ 0 < Len(data) /\ data' = SubSeq(data, 1, Len(data) - 1)
        /\ UNCHANGED << program, message, receiver >>
    BY <1>4 DEF Truncate, Front
  <2>2. Packing' = Packing
    BY <2>1 DEF Packing
  <2> HIDE DEF n
  <2>3. /\ data' \in Seq(Nat) /\ Len(data') = Len(data) - 1
        /\ \A k \in 1..Len(data') : data'[k] = data[k]
    <3> DEFINE b == Len(data) - 1
    <3>1. b \in Nat /\ \A k \in 1..b : k \in 1..Len(data) /\ data[k] \in Nat
      BY <1>1, <2>1
    <3>2. data' = SubSeq(data, 1, b)
      BY <2>1
    <3> HIDE DEF b
    <3>3. /\ data' \in Seq(Nat)
          /\ Len(data') = IF 1 <= b THEN b - 1 + 1 ELSE 0
          /\ \A k \in 1..b - 1 + 1 : data'[k] = data[1 + k - 1]
      BY <3>1, <3>2, SubSeqProperties
    <3>4. Len(data') = b
      BY <3>1, <3>3
    <3>5. \A k \in 1..b : k \in 1..b - 1 + 1 /\ 1 + k - 1 = k
      BY <3>1
    <3> QED
      BY <3>1, <3>3, <3>4, <3>5 DEF b
  <2> QED
    BY <1>1, <2>1, <2>2, <2>3 DEF Carried, Arrived, n
<1>5. ASSUME NEW byte \in Bytes, Extend(byte) PROVE Carried'
  <2>1. /\ n <= Len(data) /\ data' = Append(data, byte)
        /\ UNCHANGED << program, message, receiver >>
    BY <1>5 DEF Extend
  <2>2. Packing' = Packing
    BY <2>1 DEF Packing
  <2>3. byte \in Nat
    BY ClientAssumption, ValuesIsPower
  <2> HIDE DEF n
  <2>4. /\ data' \in Seq(Nat) /\ Len(data') = Len(data) + 1
        /\ \A k \in 1..Len(data') : k <= n => data'[k] = data[k] /\ k \in 1..Len(data)
    BY <1>1, <1>3, <2>1, <2>3
  <2> QED
    BY <1>1, <2>1, <2>2, <2>4 DEF Carried, Arrived, n
<1>6. ASSUME NEW p \in Programs, SendToSibling(p) PROVE Carried'
  <2>1. /\ receiver = program /\ {program, p} \in Siblings /\ receiver' = p
        /\ UNCHANGED << program, message, data >>
    BY <1>6 DEF SendToSibling
  <2>2. Packing' = Packing
    BY <2>1 DEF Packing
  <2> QED
    BY <1>1, <2>1, <2>2 DEF Carried, Arrived
<1>7. CASE UNCHANGED vars
  BY <1>1, <1>7 DEF vars, Packing, Carried, Arrived
<1> QED
  BY <1>4, <1>5, <1>6, <1>7 DEF Next

LEMMA CarriedAlways == Spec => []Carried
BY CarriedInit, CarriedNext, PTL DEF Spec

-----------------------------------------------------------------------------
(* What arrives at the program it was packed for is unpacked as the        *)
(* message that was packed if all its bytes have come, whatever bytes      *)
(* follow, and refused otherwise: for every u64 and u8 value of a field.   *)
THEOREM IntactOrRefusedAlways == Spec => []IntactOrRefused
<1>1. Carried => IntactOrRefused
  <2> SUFFICES ASSUME Carried, receiver = program, Packing = << >> => data = << >>
               PROVE  Unpack(receiver, data) =
                        IF /\ message.variant \in DOMAIN Packed(program)
                           /\ Len(data) > TotalWidth(Packed(program)[message.variant].widths)
                        THEN message ELSE Refused
    BY DEF IntactOrRefused
  <2>1. program \in Programs /\ message \in Messages(program) /\ Arrived(Packing, data)
    BY DEF Carried
  <2>2. CASE message = Message("Reserved", << >>)
    <3>1. message.variant = "Reserved"
      BY <2>2 DEF Message
    <3>2. Packing = << >> /\ message.variant \notin DOMAIN Packed(program)
      BY <2>1, <3>1, Reserved DEF Packing
    <3> QED
      BY <3>2 DEF Unpack
  <2>3. CASE message # Message("Reserved", << >>)
    <3>1. PICK v \in DOMAIN Packed(program) :
              \E f \in FieldValues(Packed(program)[v].widths) : message = Message(v, f)
      BY <2>1, <2>3, MessageCases
    <3>2. PICK fields \in FieldValues(Packed(program)[v].widths) : message = Message(v, fields)
      BY <3>1
    <3>3. message.variant = v
      BY <3>2 DEF Message
    <3>4. Known(program, program, v)
      BY <2>1, ClientAssumption, OwnRows
    <3> QED
      BY <2>1, <3>2, <3>3, <3>4, Delivered DEF Packing
  <2> QED
    BY <2>2, <2>3
<1> QED
  BY <1>1, CarriedAlways, PTL

(* An instruction that arrives at a sibling program, whole, cut or         *)
(* followed by other bytes, is refused or read as SiblingReadsAs says, and *)
(* no amount in it becomes another: for every u64 value of a field.        *)
Sent(p, q, v, r, fields, m, d) ==
    /\ v \in DOMAIN Packed(p) /\ Taken(p, q, v, r)
    /\ fields \in FieldValues(Packed(p)[v].widths) /\ m = Message(v, fields)
    /\ Arrived(Pack(p, m), d) /\ Unpack(q, d) # Refused

ReadRightly(q, r, fields, d) ==
    /\ Unpack(q, d).variant = r
    /\ \A i \in DOMAIN Unpack(q, d).fields \intersect DOMAIN fields :
            Unpack(q, d).fields[i] = fields[i]
    /\ fields = << >> => \A i \in DOMAIN Unpack(q, d).fields : Unpack(q, d).fields[i] = 0

LEMMA SiblingReads ==
    ASSUME NEW p, NEW q, NEW v, NEW r, NEW fields, NEW m, NEW d,
           Sent(p, q, v, r, fields, m, d)
    PROVE  ReadRightly(q, r, fields, d)
<1> USE DEF Sent
<1>1. PICK tag, widths, read : TakenFor(p, q, v, r, tag, widths, read)
  BY DEF Taken
<1>2. /\ tag \in Nat /\ widths \in Seq({1, 8}) /\ read \in Seq({1, 8})
      /\ Packed(p)[v] = Layout(tag, widths)
      /\ tag \in DOMAIN Readings(q) /\ Readings(q)[tag] = Reading(r, read)
      /\ LaidAlike(widths, read)
      /\ widths = << >> => read = << >> \/ (p = "farm" /\ read = << 8 >>)
  BY <1>1 DEF TakenFor
<1>3. widths \in Seq(Nat) /\ read \in Seq(Nat)
  BY <1>2
<1>4. Packed(p)[v].widths = widths
  BY <1>2 DEF Layout
<1>5. fields \in [1..Len(widths) -> Nat] /\ Fits(fields, widths)
  BY <1>2, <1>4, FieldValuesFit
<1>6. PackedLength(p, 1 + TotalWidth(widths)) \in Int
  BY <1>3, TotalIsNat, BufferAssumption DEF PackedLength
<1> DEFINE rest == Tail(d)
           values == [i \in 1..Len(read) |-> Field(rest, read, i)]
<1>7. /\ Unpack(q, d) = [variant |-> r, fields |-> values]
      /\ Len(d) > TotalWidth(read)
      /\ \A i \in 1..Len(widths) : i \in 1..Len(read) => Field(rest, read, i) = fields[i]
  BY <1>2, <1>3, <1>5, <1>6, UnpackPrefix
<1>8. /\ Unpack(q, d).variant = r /\ Unpack(q, d).fields = values
      /\ DOMAIN values = 1..Len(read) /\ DOMAIN fields = 1..Len(widths)
      /\ \A i \in 1..Len(read) : values[i] = Field(rest, read, i)
  BY <1>5, <1>7
<1> HIDE DEF values
<1> DEFINE packing == Pack(p, m)
<1>9. Arrived(packing, d)
  OBVIOUS
<1>10. Len(widths) = 0 /\ PackedLength(p, 1) = 32
           => Len(packing) = 32 /\ \A k \in 2..32 : packing[k] = 0
  <2>1. RowOf(p, v, fields, m, tag, widths)
    BY <1>2, <1>3, <1>5 DEF RowOf
  <2>2. SUFFICES ASSUME Len(widths) = 0, PackedLength(p, 1) = 32
                 PROVE  Len(Pack(p, m)) = 32 /\ \A k \in 2..32 : Pack(p, m)[k] = 0
    OBVIOUS
  <2> HIDE DEF Sent, packing, rest, values
  <2> QED
    BY <2>1, <2>2, PaddedWithZeros
<1>12. fields = << >> => Len(widths) = 0
  <2>1. Len(widths) \in Nat /\ fields \in [1..Len(widths) -> Nat]
    BY <1>3, <1>5
  <2> QED
    BY <2>1, NoFields
<1> HIDE DEF packing
<1>11. ASSUME fields = << >>, NEW i \in 1..Len(read) PROVE values[i] = 0
  <2>1. Len(widths) = 0
    BY <1>11, <1>12
  <2>2. widths = << >>
    BY <1>2, <2>1
  <2>3. p = "farm" /\ read = << 8 >>
    BY <1>2, <1>11, <2>2
  <2>4. Len(packing) = 32 /\ \A k \in 2..32 : packing[k] = 0
    BY <1>10, <2>1, <2>3 DEF PackedLength
  <2>5. i = 1
    BY <2>3
  <2>6. TotalWidth(read) = 8
    BY <2>3, OneWord
  <2>7. d \in Seq(Nat) /\ Len(d) \in Nat /\ Len(d) > 8
    BY <1>7, <1>9, <2>6 DEF Arrived
  <2>8. /\ rest \in Seq(Nat) /\ Len(rest) = Len(d) - 1
        /\ \A k \in 1..Len(rest) : k + 1 <= Len(packing) => rest[k] = packing[k + 1]
    BY <1>9, <2>7, RestArrived
  <2> HIDE DEF rest
  <2>9. Len(rest) \in Nat /\ Len(rest) >= 8
    BY <2>7, <2>8
  <2>10. ASSUME NEW k \in 1..8 PROVE rest[k] = 0
    <3>1. k + 1 \in 2..32 /\ k + 1 <= 32
      OBVIOUS
    <3>2. k \in 1..Len(rest)
      BY <2>9
    <3> QED
      BY <2>4, <2>8, <3>1, <3>2
  <2>11. Field(rest, read, 1) = 0
    BY <2>3, <2>8, <2>9, <2>10, ZeroRead
  <2> QED
    BY <1>8, <2>5, <2>11 DEF rest
<1> QED
  BY <1>7, <1>8, <1>11 DEF ReadRightly

THEOREM SiblingReadingsAlways == Spec => []SiblingReadings
<1>1. Carried => SiblingReadings
  <2> DEFINE read == Unpack(receiver, data)
  <2> SUFFICES ASSUME Carried, receiver # program, Packing = << >> => data = << >>,
                      read # Refused
               PROVE  /\ read.variant = SiblingReadsAs(program, message.variant)
                      /\ \A i \in DOMAIN read.fields \intersect DOMAIN message.fields :
                            read.fields[i] = message.fields[i]
                      /\ message.fields = << >> =>
                            \A i \in DOMAIN read.fields : read.fields[i] = 0
    BY DEF SiblingReadings
  <2>1. /\ program \in Programs /\ message \in Messages(program) /\ Arrived(Packing, data)
        /\ {program, receiver} \in Siblings
    BY DEF Carried
  <2>2. message # Message("Reserved", << >>)
    <3>1. ASSUME message = Message("Reserved", << >>) PROVE FALSE
      <4>1. message.variant = "Reserved"
        BY <3>1 DEF Message
      <4>2. Packing = << >>
        BY <2>1, <4>1, Reserved DEF Packing
      <4> QED
        BY <4>2 DEF Unpack
    <3> QED
      BY <3>1
  <2>3. PICK v \in DOMAIN Packed(program) :
            \E f \in FieldValues(Packed(program)[v].widths) : message = Message(v, f)
    BY <2>1, <2>2, MessageCases
  <2>4. PICK fields \in FieldValues(Packed(program)[v].widths) : message = Message(v, fields)
    BY <2>3
  <2>5. message.variant = v /\ message.fields = fields
    BY <2>4 DEF Message
  <2>6. Arrived(Pack(program, message), data)
    BY <2>1 DEF Packing
  <2>7. ~ Foreign(program, receiver, v)
    <3>1. ASSUME NEW tag, NEW widths, Agree(program, program, v, tag, widths),
                 tag \notin DOMAIN Readings(receiver)
          PROVE  FALSE
      <4>1. tag \in Nat /\ widths \in Seq({1, 8}) /\ Packed(program)[v] = Layout(tag, widths)
        BY <3>1 DEF Agree
      <4>2. widths \in Seq(Nat) /\ Packed(program)[v].widths = widths
        BY <4>1 DEF Layout
      <4>3. Fits(fields, widths)
        BY <4>1, <4>2, FieldValuesFit
      <4>4. TotalWidth(widths) \in Nat
        BY <4>2, TotalIsNat
      <4>5. PackedLength(program, 1 + TotalWidth(widths)) \in Int
        BY <4>4, BufferAssumption DEF PackedLength
      <4>6. /\ Pack(program, message) \in Seq(Nat)
            /\ Len(Pack(program, message)) >= 1 + TotalWidth(widths)
            /\ Pack(program, message)[1] = tag
        BY <2>4, <4>1, <4>2, <4>3, <4>5, PackWrites
      <4> DEFINE packing == Pack(program, message)
      <4>7. packing \in Seq(Nat) /\ Len(packing) >= 1 + TotalWidth(widths) /\ packing[1] = tag
            /\ Arrived(packing, data)
        BY <2>6, <4>6
      <4> HIDE DEF packing
      <4>8. Len(packing) >= 1
        BY <4>4, <4>7
      <4> QED
        BY <3>1, <4>7, <4>8, UnpackUnknown
    <3> QED
      BY <3>1 DEF Foreign
  <2>8. Taken(program, receiver, v, SiblingReadsAs(program, v))
    BY <2>1, <2>7, SiblingRows
  <2> QED
    <3>1. Sent(program, receiver, v, SiblingReadsAs(program, v), fields, message, data)
      BY <2>3, <2>4, <2>6, <2>8 DEF Sent
    <3>2. ReadRightly(receiver, SiblingReadsAs(program, v), fields, data)
      BY <3>1, SiblingReads
    <3> QED
      BY <2>5, <3>2 DEF ReadRightly
<1> QED
  BY <1>1, CarriedAlways, PTL

-----------------------------------------------------------------------------
(* The accounts of an instruction are those that its builder lists.        *)
Listed ==
    \E given \in Given(program, message.variant), pool_program \in PoolPrograms :
        accounts = BuiltAccounts(program, message.variant, given, pool_program)

LEMMA ListedAlways == Spec => []Listed
<1>1. Init => Listed
  BY DEF Init, Listed
<1>2. Listed /\ [Next]_vars => Listed'
  BY DEF Listed, Next, Truncate, Extend, SendToSibling, vars
<1> QED
  BY <1>1, <1>2, PTL DEF Spec

(* An account by the rights that its key has in a list.                    *)
SignedAndWritten(key) == [key |-> key, writable |-> TRUE, signer |-> TRUE]

Meta(key, writable, signer) ==
    IF writable THEN IF signer THEN SignedAndWritten(key) ELSE W(key)
                ELSE IF signer THEN S(key) ELSE R(key)

LEMMA KeyReplaced ==
    ASSUME NEW key, NEW writable, NEW signer, NEW k
    PROVE  [[key |-> key, writable |-> writable, signer |-> signer] EXCEPT !.key = k]
           = [key |-> k, writable |-> writable, signer |-> signer]
OBVIOUS

LEMMA Rekeyed ==
    ASSUME NEW j, NEW k
    PROVE  /\ [R(j) EXCEPT !.key = k] = R(k)
           /\ [W(j) EXCEPT !.key = k] = W(k)
           /\ [S(j) EXCEPT !.key = k] = S(k)
           /\ [SignedAndWritten(j) EXCEPT !.key = k] = SignedAndWritten(k)
<1> DEFINE yes == TRUE
           no == FALSE
           Account(key, w, s) == [key |-> key, writable |-> w, signer |-> s]
<1>1. /\ R(j) = Account(j, no, no) /\ R(k) = Account(k, no, no)
      /\ W(j) = Account(j, yes, no) /\ W(k) = Account(k, yes, no)
      /\ S(j) = Account(j, no, yes) /\ S(k) = Account(k, no, yes)
      /\ SignedAndWritten(j) = Account(j, yes, yes)
      /\ SignedAndWritten(k) = Account(k, yes, yes)
  BY DEF R, W, S, SignedAndWritten
<1> HIDE DEF yes, no
<1>2. \A w, s : [Account(j, w, s) EXCEPT !.key = k] = Account(k, w, s)
  BY KeyReplaced
<1> HIDE DEF Account
<1> QED
  BY <1>1, <1>2

LEMMA MarkedKeys ==
    \A k : R(k).key = k /\ W(k).key = k /\ S(k).key = k /\ SignedAndWritten(k).key = k
BY DEF R, W, S, SignedAndWritten

LEMMA MarkedRights ==
    \A k : /\ ~ R(k).writable /\ W(k).writable /\ ~ S(k).writable /\ SignedAndWritten(k).writable
           /\ ~ R(k).signer /\ ~ W(k).signer /\ S(k).signer /\ SignedAndWritten(k).signer
BY DEF R, W, S, SignedAndWritten

(* What an account may do depends on its key only.                         *)
LEMMA KeyedRights ==
    ASSUME NEW keys, NEW readonly, NEW signers, NEW list, list = Metas(keys, readonly, signers)
    PROVE  /\ DOMAIN list = DOMAIN keys
           /\ \A i \in DOMAIN list :
                /\ list[i].key = keys[i]
                /\ list[i] = Meta(list[i].key, list[i].key \notin readonly \union WellKnown,
                                  list[i].key \in signers)
<1>1. DOMAIN list = DOMAIN keys
  BY DEF Metas
<1>2. ASSUME NEW i \in DOMAIN list
      PROVE  /\ list[i].key = keys[i]
             /\ list[i] = Meta(keys[i], keys[i] \notin readonly \union WellKnown,
                               keys[i] \in signers)
  <2> DEFINE w == keys[i] \notin readonly \union WellKnown
             s == keys[i] \in signers
  <2>1. w \in BOOLEAN /\ s \in BOOLEAN
    OBVIOUS
  <2>2. list[i] = [key |-> keys[i], writable |-> w, signer |-> s] /\ list[i].key = keys[i]
    BY DEF Metas
  <2> HIDE DEF w, s
  <2>3. list[i] = Meta(keys[i], w, s)
    <3>1. CASE w = TRUE /\ s = TRUE
      BY <2>2, <3>1 DEF Meta, SignedAndWritten
    <3>2. CASE w = TRUE /\ s = FALSE
      BY <2>2, <3>2 DEF Meta, W
    <3>3. CASE w = FALSE /\ s = TRUE
      BY <2>2, <3>3 DEF Meta, S
    <3>4. CASE w = FALSE /\ s = FALSE
      BY <2>2, <3>4 DEF Meta, R
    <3> QED
      BY <2>1, <3>1, <3>2, <3>3, <3>4
  <2> QED
    BY <2>2, <2>3 DEF w, s
<1> QED
  BY <1>1, <1>2

-----------------------------------------------------------------------------
(* The wrappers of amm_anchor.  Where the fields of a wrapper and the      *)
(* parameters of its builder have the same names but for FieldOf, every    *)
(* account of the builder, named for the parameter at the place from[i] or *)
(* the same for every caller, is the account of the field of that name.    *)
LEMMA WrapperRenames ==
    ASSUME NEW v, NEW amm, amm = AmmMetas(v),
           NEW params, params = Parameters[v], NEW fields, fields = Wrappers[v],
           \A j \in DOMAIN params : fields[j] = FieldOf(params[j]),
           NEW from,
           \A i \in DOMAIN amm :
                \/ amm[i].key \in {"spl_token::id", "system_program", "rent"}
                \/ from[i] \in DOMAIN params /\ amm[i].key = params[from[i]]
    PROVE  WrapperMetas(v) = [i \in DOMAIN amm |-> [amm[i] EXCEPT !.key = FieldOf(@)]]
<1> DEFINE place(p) == CHOOSE j \in DOMAIN params : params[j] = p
           given == [p \in Range(params) |-> fields[place(p)]]
           Name(key) == IF key \in DOMAIN given THEN given[key] ELSE key
<1>1. WrapperMetas(v) = [i \in DOMAIN amm |-> [amm[i] EXCEPT !.key = Name(@)]]
  BY DEF WrapperMetas
<1>2. ASSUME NEW p \in Range(params) PROVE given[p] = FieldOf(p)
  <2>1. place(p) \in DOMAIN params /\ params[place(p)] = p
    BY DEF Range
  <2>2. given[p] = fields[place(p)]
    OBVIOUS
  <2> HIDE DEF place, given
  <2> QED
    BY <2>1, <2>2
<1>3. ASSUME NEW i \in DOMAIN amm PROVE Name(amm[i].key) = FieldOf(amm[i].key)
  <2>1. DOMAIN given = Range(params)
    OBVIOUS
  <2>2. CASE amm[i].key \in {"spl_token::id", "system_program", "rent"}
    <3>1. \A key \in {"spl_token::id", "system_program", "rent"} : FieldOf(key) = key
      BY DEF FieldOf
    <3> HIDE DEF given
    <3> QED
      BY <1>2, <2>1, <2>2, <3>1
  <2>3. CASE from[i] \in DOMAIN params /\ amm[i].key = params[from[i]]
    <3> HIDE DEF given
    <3> QED
      BY <1>2, <2>1, <2>3 DEF Range
  <2> QED
    BY <2>2, <2>3
<1> HIDE DEF Name
<1> QED
  BY <1>1, <1>3

(* The swap wrappers: SwapBaseOut has the fields and list of SwapBaseIn.   *)
LEMMA SwapWrapper ==
    ASSUME NEW w, AmmMetas(w) = SwapBaseInMetas,
           Parameters[w] = SwapBaseInParameters, Wrappers[w] = AnchorSwapBaseIn
    PROVE  WrapperMetas(w) =
              [i \in DOMAIN SwapBaseInMetas |-> [SwapBaseInMetas[i] EXCEPT !.key = FieldOf(@)]]
<1> DEFINE Fixed == {"spl_token::id", "system_program", "rent"}
           from == [i \in 1..18 |-> i - 1]
<1>2. \A j \in DOMAIN SwapBaseInParameters :
          AnchorSwapBaseIn[j] = FieldOf(SwapBaseInParameters[j])
  BY DEF SwapBaseInParameters, AnchorSwapBaseIn, FieldOf
<1>3. DOMAIN SwapBaseInMetas = 1..18 /\ DOMAIN SwapBaseInParameters = 1..17
  BY DEF SwapBaseInMetas, Metas, SwapBaseInParameters
<1>4. \A i \in 1..1 : SwapBaseInMetas[i].key \in Fixed
  BY DEF SwapBaseInMetas, Metas
<1>5. \A i \in 2..18 : SwapBaseInMetas[i].key = SwapBaseInParameters[from[i]]
  BY DEF SwapBaseInMetas, Metas, SwapBaseInParameters
<1>6. \A i \in 1..18 : i \in 1..1 \/ (i \in 2..18 /\ from[i] \in 1..17)
  OBVIOUS
<1> HIDE DEF from
<1>7. \A i \in DOMAIN SwapBaseInMetas :
          \/ SwapBaseInMetas[i].key \in Fixed
          \/ /\ from[i] \in DOMAIN SwapBaseInParameters
             /\ SwapBaseInMetas[i].key = SwapBaseInParameters[from[i]]
  BY <1>3, <1>4, <1>5, <1>6
<1> QED
  BY <1>2, <1>7, WrapperRenames

(* The same for each wrapper.                                              *)
LEMMA WrapperLists ==
    ASSUME NEW v \in DOMAIN Wrappers
    PROVE  WrapperMetas(v) =
              [i \in DOMAIN AmmMetas(v) |-> [AmmMetas(v)[i] EXCEPT !.key = FieldOf(@)]]
<1> DEFINE Fixed == {"spl_token::id", "system_program", "rent"}
           Goal(w) == WrapperMetas(w) =
              [i \in DOMAIN AmmMetas(w) |-> [AmmMetas(w)[i] EXCEPT !.key = FieldOf(@)]]
<1>1. Goal("PreInitialize")
  <2> DEFINE from == [i \in 1..14 |-> i - 3]
  <2>1. /\ AmmMetas("PreInitialize") = AmmPreInitializeMetas
        /\ Parameters["PreInitialize"] = PreInitializeParameters
        /\ Wrappers["PreInitialize"] = AnchorPreInitialize
    BY DEF AmmMetas, Parameters, Wrappers
  <2>2. \A j \in DOMAIN PreInitializeParameters :
            AnchorPreInitialize[j] = FieldOf(PreInitializeParameters[j])
    BY DEF PreInitializeParameters, AnchorPreInitialize, FieldOf
  <2>3. DOMAIN AmmPreInitializeMetas = 1..14 /\ DOMAIN PreInitializeParameters = 1..11
    BY DEF AmmPreInitializeMetas, Metas, PreInitializeParameters
  <2>4. \A i \in 1..3 : AmmPreInitializeMetas[i].key \in Fixed
    BY DEF AmmPreInitializeMetas, Metas
  <2>5. \A i \in 4..14 : AmmPreInitializeMetas[i].key = PreInitializeParameters[from[i]]
    BY DEF AmmPreInitializeMetas, Metas, PreInitializeParameters
  <2>6. \A i \in 1..14 : i \in 1..3 \/ (i \in 4..14 /\ from[i] \in 1..11)
    OBVIOUS
  <2> HIDE DEF from
  <2>7. \A i \in DOMAIN AmmPreInitializeMetas :
            \/ AmmPreInitializeMetas[i].key \in Fixed
            \/ /\ from[i] \in DOMAIN PreInitializeParameters
               /\ AmmPreInitializeMetas[i].key = PreInitializeParameters[from[i]]
    BY <2>3, <2>4, <2>5, <2>6
  <2>8. WrapperMetas("PreInitialize") =
          [i \in DOMAIN AmmPreInitializeMetas |->
              [AmmPreInitializeMetas[i] EXCEPT !.key = FieldOf(@)]]
    BY <2>1, <2>2, <2>7, WrapperRenames, SMTT(20)
  <2> QED
    BY <2>1, <2>8
<1>2. Goal("Initialize")
  <2> DEFINE from == [i \in 1..18 |-> i - 3]
  <2>1. /\ AmmMetas("Initialize") = AmmInitializeMetas
        /\ Parameters["Initialize"] = InitializeParameters
        /\ Wrappers["Initialize"] = AnchorInitialize
    BY DEF AmmMetas, Parameters, Wrappers
  <2>2. \A j \in DOMAIN InitializeParameters :
            AnchorInitialize[j] = FieldOf(InitializeParameters[j])
    BY DEF InitializeParameters, AnchorInitialize, FieldOf
  <2>3. DOMAIN AmmInitializeMetas = 1..18 /\ DOMAIN InitializeParameters = 1..15
    BY DEF AmmInitializeMetas, Metas, InitializeParameters
  <2>4. \A i \in 1..3 : AmmInitializeMetas[i].key \in Fixed
    BY DEF AmmInitializeMetas, Metas
  <2>5. \A i \in 4..18 : AmmInitializeMetas[i].key = InitializeParameters[from[i]]
    BY DEF AmmInitializeMetas, Metas, InitializeParameters
  <2>6. \A i \in 1..18 : i \in 1..3 \/ (i \in 4..18 /\ from[i] \in 1..15)
    OBVIOUS
  <2> HIDE DEF from
  <2>7. \A i \in DOMAIN AmmInitializeMetas :
            \/ AmmInitializeMetas[i].key \in Fixed
            \/ /\ from[i] \in DOMAIN InitializeParameters
               /\ AmmInitializeMetas[i].key = InitializeParameters[from[i]]
    BY <2>3, <2>4, <2>5, <2>6
  <2>8. WrapperMetas("Initialize") =
          [i \in DOMAIN AmmInitializeMetas |-> [AmmInitializeMetas[i] EXCEPT !.key = FieldOf(@)]]
    BY <2>1, <2>2, <2>7, WrapperRenames, SMTT(20)
  <2> QED
    BY <2>1, <2>8
<1>3. Goal("Deposit")
  <2> DEFINE from == [i \in 1..14 |-> IF i < 10 THEN i - 1 ELSE IF i < 14 THEN i ELSE 9]
  <2>1. /\ AmmMetas("Deposit") = AmmDepositMetas
        /\ Parameters["Deposit"] = DepositParameters
        /\ Wrappers["Deposit"] = AnchorDeposit
    BY DEF AmmMetas, Parameters, Wrappers
  <2>2. \A j \in DOMAIN DepositParameters :
            AnchorDeposit[j] = FieldOf(DepositParameters[j])
    BY DEF DepositParameters, AnchorDeposit, FieldOf
  <2>3. DOMAIN AmmDepositMetas = 1..14 /\ DOMAIN DepositParameters = 1..13
    BY DEF AmmDepositMetas, Metas, DepositParameters
  <2>4. \A i \in 1..1 : AmmDepositMetas[i].key \in Fixed
    BY DEF AmmDepositMetas, Metas
  <2>5. \A i \in 2..14 : AmmDepositMetas[i].key = DepositParameters[from[i]]
    BY DEF AmmDepositMetas, Metas, DepositParameters
  <2>6. \A i \in 1..14 : i \in 1..1 \/ (i \in 2..14 /\ from[i] \in 1..13)
    OBVIOUS
  <2> HIDE DEF from
  <2>7. \A i \in DOMAIN AmmDepositMetas :
            \/ AmmDepositMetas[i].key \in Fixed
            \/ /\ from[i] \in DOMAIN DepositParameters
               /\ AmmDepositMetas[i].key = DepositParameters[from[i]]
    BY <2>3, <2>4, <2>5, <2>6
  <2>8. WrapperMetas("Deposit") =
          [i \in DOMAIN AmmDepositMetas |-> [AmmDepositMetas[i] EXCEPT !.key = FieldOf(@)]]
    BY <2>1, <2>2, <2>7, WrapperRenames, SMTT(20)
  <2> QED
    BY <2>1, <2>8
<1>4. Goal("Withdraw")
  <2> DEFINE from == [i \in 1..22 |-> i - 1]
  <2>1. /\ AmmMetas("Withdraw") = AmmWithdrawMetas
        /\ Parameters["Withdraw"] = WithdrawParameters
        /\ Wrappers["Withdraw"] = AnchorWithdraw
    BY DEF AmmMetas, Parameters, Wrappers
  <2>2. \A j \in DOMAIN WithdrawParameters :
            AnchorWithdraw[j] = FieldOf(WithdrawParameters[j])
    BY DEF WithdrawParameters, AnchorWithdraw, FieldOf
  <2>3. DOMAIN AmmWithdrawMetas = 1..22 /\ DOMAIN WithdrawParameters = 1..21
    BY DEF AmmWithdrawMetas, Metas, WithdrawParameters
  <2>4. \A i \in 1..1 : AmmWithdrawMetas[i].key \in Fixed
    BY DEF AmmWithdrawMetas, Metas
  <2>5. \A i \in 2..22 : AmmWithdrawMetas[i].key = WithdrawParameters[from[i]]
    BY DEF AmmWithdrawMetas, Metas, WithdrawParameters
  <2>6. \A i \in 1..22 : i \in 1..1 \/ (i \in 2..22 /\ from[i] \in 1..21)
    OBVIOUS
  <2> HIDE DEF from
  <2>7. \A i \in DOMAIN AmmWithdrawMetas :
            \/ AmmWithdrawMetas[i].key \in Fixed
            \/ /\ from[i] \in DOMAIN WithdrawParameters
               /\ AmmWithdrawMetas[i].key = WithdrawParameters[from[i]]
    BY <2>3, <2>4, <2>5, <2>6
  <2>8. WrapperMetas("Withdraw") =
          [i \in DOMAIN AmmWithdrawMetas |-> [AmmWithdrawMetas[i] EXCEPT !.key = FieldOf(@)]]
    BY <2>1, <2>2, <2>7, WrapperRenames, SMTT(20)
  <2> QED
    BY <2>1, <2>8
<1>5. ASSUME NEW w \in {"SwapBaseIn", "SwapBaseOut"} PROVE Goal(w)
  <2>1. /\ AmmMetas(w) = SwapBaseInMetas
        /\ Parameters[w] = SwapBaseInParameters
        /\ Wrappers[w] = AnchorSwapBaseIn
    BY DEF AmmMetas, Parameters, Wrappers, SwapBaseOutMetas, SwapBaseOutParameters,
           AnchorSwapBaseOut
  <2>2. WrapperMetas(w) =
          [i \in DOMAIN SwapBaseInMetas |-> [SwapBaseInMetas[i] EXCEPT !.key = FieldOf(@)]]
    BY <2>1, SwapWrapper
  <2> QED
    BY <2>1, <2>2
<1>7. v \in {"PreInitialize", "Initialize", "Deposit", "Withdraw", "SwapBaseIn", "SwapBaseOut"}
  BY DEF Wrappers
<1> HIDE DEF Goal
<1>8. Goal(v)
  BY <1>1, <1>2, <1>3, <1>4, <1>5, <1>7
<1> QED
  BY <1>8 DEF Goal

(* Every account that a wrapper of amm_anchor passes on stands where the   *)
(* builder puts the account of that name, with the rights it gives: no two *)
(* of up to twenty-one keys of one type are exchanged (instructions.rs).   *)
THEOREM WrappersInPlaceAlways == Spec => []WrappersInPlace
<1>1. Listed => WrappersInPlace
  <2> SUFFICES ASSUME Listed, program = "amm",
                      message.variant \in DOMAIN Wrappers \ {"SwapBaseIn"}
               PROVE  accounts = [i \in DOMAIN accounts |->
                                    [AmmMetas(message.variant)[i] EXCEPT !.key = FieldOf(@)]]
    BY DEF WrappersInPlace
  <2>1. message.variant \in {"PreInitialize", "Initialize", "Deposit", "Withdraw", "SwapBaseOut"}
    BY DEF Wrappers
  <2>2. accounts = WrapperMetas(message.variant)
    BY <2>1 DEF Listed, BuiltAccounts, AmmAccounts
  <2> QED
    BY <2>2, WrapperLists
<1> QED
  BY <1>1, ListedAlways, PTL

-----------------------------------------------------------------------------
(* The swap of compound_reward: the list of the builder, by position, and  *)
(* the list that the accounts of compound_reward make of it.               *)
LEMMA SwapRights ==
    /\ DOMAIN SwapBaseInMetas = 1..18
    /\ SwapBaseInMetas[1] = R("spl_token::id")
    /\ \A i \in 2..18 :
        SwapBaseInMetas[i] =
            Meta(SwapBaseInParameters[i - 1], i \notin {1, 3, 8, 15, 18}, i = 18)
<1> DEFINE readonly == {"amm_authority", "serum_vault_signer", "user_source_owner"}
           signers == {"user_source_owner"}
<1>1. \A i \in DOMAIN SwapBaseInMetas :
        SwapBaseInMetas[i] = Meta(SwapBaseInMetas[i].key,
                                  SwapBaseInMetas[i].key \notin readonly \union WellKnown,
                                  SwapBaseInMetas[i].key \in signers)
  BY KeyedRights DEF SwapBaseInMetas
<1>2. /\ DOMAIN SwapBaseInMetas = 1..18
      /\ SwapBaseInMetas[1].key = "spl_token::id"
      /\ \A i \in 2..18 : SwapBaseInMetas[i].key = SwapBaseInParameters[i - 1]
  BY DEF SwapBaseInMetas, Metas, SwapBaseInParameters
<1>3. \A i \in 2..18 :
        SwapBaseInParameters[i - 1] \in readonly \union WellKnown <=> i \in {1, 3, 8, 15, 18}
  BY DEF SwapBaseInParameters, WellKnown
<1>4. \A i \in 2..18 : SwapBaseInParameters[i - 1] \in signers <=> i = 18
  BY DEF SwapBaseInParameters, WellKnown
<1>5. "spl_token::id" \in readonly \union WellKnown /\ "spl_token::id" \notin signers
  BY DEF WellKnown
<1> HIDE DEF readonly, signers
<1> QED
  BY <1>1, <1>2, <1>3, <1>4, <1>5 DEF Meta

LEMMA CompoundList ==
    /\ DOMAIN CompoundSwapMetas = 1..18
    /\ CompoundSwapMetas[1] = R("spl_token::id")
    /\ \A i \in 2..18 :
        CompoundSwapMetas[i] =
            Meta(CompoundAccount(AnchorSwapBaseIn[i - 1]), i \notin {1, 3, 8, 15, 18}, i = 18)
<1>1. WrapperMetas("SwapBaseIn") =
        [i \in 1..18 |-> [SwapBaseInMetas[i] EXCEPT !.key = FieldOf(@)]]
  <2>1. "SwapBaseIn" \in DOMAIN Wrappers /\ AmmMetas("SwapBaseIn") = SwapBaseInMetas
    BY DEF Wrappers, AmmMetas
  <2> QED
    BY <2>1, WrapperLists, SwapRights
<1>2. CompoundAccount(FieldOf("spl_token::id")) = "spl_token::id"
  BY DEF CompoundAccount, FieldOf
<1>3. \A j \in 1..17 : FieldOf(SwapBaseInParameters[j]) = AnchorSwapBaseIn[j]
  BY DEF FieldOf, SwapBaseInParameters, AnchorSwapBaseIn
<1>4. ASSUME NEW i \in 1..18, NEW k
      PROVE  /\ SwapBaseInMetas[i] = R(k) => CompoundSwapMetas[i] = R(CompoundAccount(FieldOf(k)))
             /\ SwapBaseInMetas[i] = W(k) => CompoundSwapMetas[i] = W(CompoundAccount(FieldOf(k)))
             /\ SwapBaseInMetas[i] = S(k) => CompoundSwapMetas[i] = S(CompoundAccount(FieldOf(k)))
  <2>1. CompoundSwapMetas[i] = [WrapperMetas("SwapBaseIn")[i] EXCEPT !.key = CompoundAccount(@)]
    BY SwapRights DEF CompoundSwapMetas
  <2>2. WrapperMetas("SwapBaseIn")[i] = [SwapBaseInMetas[i] EXCEPT !.key = FieldOf(@)]
    BY <1>1
  <2> QED
    BY <2>1, <2>2, Rekeyed, MarkedKeys
<1>5. CompoundSwapMetas[1] = R("spl_token::id")
  BY <1>2, <1>4, SwapRights
<1>6. ASSUME NEW i \in 2..18
      PROVE  CompoundSwapMetas[i] =
                Meta(CompoundAccount(AnchorSwapBaseIn[i - 1]), i \notin {1, 3, 8, 15, 18}, i = 18)
  <2>1. i \in 1..18 /\ FieldOf(SwapBaseInParameters[i - 1]) = AnchorSwapBaseIn[i - 1]
    BY <1>3
  <2> QED
    BY <1>4, <2>1, SwapRights DEF Meta
<1>7. DOMAIN CompoundSwapMetas = 1..18
  BY SwapRights DEF CompoundSwapMetas
<1> QED
  BY <1>5, <1>6, <1>7

(* The accounts of the compound swap are those the swap program expects,   *)
(* each at its position with its rights, after the struct of compound_     *)
(* reward, the arguments of the wrapper and the list of the builder.       *)
THEOREM SwapAccountsInPlaceAlways == Spec => []SwapAccountsInPlace
<1>1. CompoundSwapMetas = ExpectedSwapAccounts
  <2>1. \A i \in 2..18 :
          ExpectedSwapAccounts[i] =
            Meta(CompoundAccount(AnchorSwapBaseIn[i - 1]), i \notin {1, 3, 8, 15, 18}, i = 18)
    BY DEF ExpectedSwapAccounts, CompoundAccount, AnchorSwapBaseIn, Meta
  <2>2. DOMAIN ExpectedSwapAccounts = 1..18 /\ ExpectedSwapAccounts[1] = R("spl_token::id")
    BY DEF ExpectedSwapAccounts
  <2>3. \A i \in 1..18 : CompoundSwapMetas[i] = ExpectedSwapAccounts[i]
    BY <2>1, <2>2, CompoundList
  <2>4. CompoundSwapMetas = [i \in 1..18 |-> CompoundSwapMetas[i]]
    BY CompoundList DEF CompoundSwapMetas
  <2>5. ExpectedSwapAccounts = [i \in 1..18 |-> ExpectedSwapAccounts[i]]
    BY DEF ExpectedSwapAccounts
  <2> QED
    BY <2>3, <2>4, <2>5
<1>2. Listed => SwapAccountsInPlace
  BY <1>1 DEF Listed, SwapAccountsInPlace, BuiltAccounts, AmmAccounts
<1> QED
  BY <1>2, ListedAlways, PTL

(* Whatever the compound swap writes or has signed, the accounts struct of *)
(* compound_reward declares mut or Signer: the call asks for no right that *)
(* its caller lacks.                                                       *)
THEOREM SwapRightsDeclaredAlways == Spec => []SwapRightsDeclared
<1>1. \A i \in DOMAIN ExpectedSwapAccounts :
        /\ ExpectedSwapAccounts[i].writable => ExpectedSwapAccounts[i].key \in CompoundMut
        /\ ExpectedSwapAccounts[i].signer => ExpectedSwapAccounts[i].key \in CompoundSigners
  BY DEF ExpectedSwapAccounts, CompoundMut, CompoundSigners, R, W, S
<1>2. SwapAccountsInPlace => SwapRightsDeclared
  BY <1>1 DEF SwapAccountsInPlace, SwapRightsDeclared
<1> QED
  BY <1>2, SwapAccountsInPlaceAlways, PTL

-----------------------------------------------------------------------------
(* The lists of a deposit and a withdrawal, by position: the parameter of  *)
(* the builder that stands there, and its rights.                          *)
DepositPlace(i) == IF i < 10 THEN i - 1 ELSE i
DepositWritten == {2, 5, 6, 7, 8, 10, 11, 12}
SwapWritten == 1..18 \ {1, 3, 8, 15, 18}
WithdrawWritten == {2, 4, 5, 6, 7, 8, 9, 10, 12, 13, 14, 16, 17, 18}

LEMMA DepositRights ==
    /\ DOMAIN AmmDepositMetas = 1..14
    /\ AmmDepositMetas[1] = R("spl_token::id")
    /\ \A i \in 2..13 :
        AmmDepositMetas[i] =
            Meta(DepositParameters[DepositPlace(i)], i \in DepositWritten, i = 13)
<1> DEFINE readonly == {"amm_authority", "amm_open_orders", "serum_market", "user_owner",
                        "serum_event_queue"}
           signers == {"user_owner"}
<1>1. \A i \in DOMAIN AmmDepositMetas :
        AmmDepositMetas[i] = Meta(AmmDepositMetas[i].key,
                                  AmmDepositMetas[i].key \notin readonly \union WellKnown,
                                  AmmDepositMetas[i].key \in signers)
  BY KeyedRights DEF AmmDepositMetas
<1>2. /\ DOMAIN AmmDepositMetas = 1..14
      /\ AmmDepositMetas[1].key = "spl_token::id"
      /\ \A i \in 2..13 : AmmDepositMetas[i].key = DepositParameters[DepositPlace(i)]
  BY DEF AmmDepositMetas, Metas, DepositParameters, DepositPlace
<1>3. \A i \in 2..13 :
        /\ DepositParameters[DepositPlace(i)] \in readonly \union WellKnown
            <=> i \notin DepositWritten
        /\ DepositParameters[DepositPlace(i)] \in signers <=> i = 13
  BY DEF DepositParameters, WellKnown, DepositPlace, DepositWritten
<1>4. "spl_token::id" \in readonly \union WellKnown /\ "spl_token::id" \notin signers
  BY DEF WellKnown
<1> HIDE DEF readonly, signers
<1>5. 1 \in 1..14 /\ \A i \in 2..13 : i \in 1..14
  OBVIOUS
<1> QED
  BY <1>1, <1>2, <1>3, <1>4, <1>5 DEF Meta

LEMMA WithdrawRights ==
    /\ DOMAIN AmmWithdrawMetas = 1..22
    /\ AmmWithdrawMetas[1] = R("spl_token::id")
    /\ \A i \in 2..19 :
        AmmWithdrawMetas[i] = Meta(WithdrawParameters[i - 1], i \in WithdrawWritten, i = 19)
<1> DEFINE readonly == {"amm_authority", "serum_vault_signer", "user_owner"}
           signers == {"user_owner"}
<1>1. \A i \in DOMAIN AmmWithdrawMetas :
        AmmWithdrawMetas[i] = Meta(AmmWithdrawMetas[i].key,
                                   AmmWithdrawMetas[i].key \notin readonly \union WellKnown,
                                   AmmWithdrawMetas[i].key \in signers)
  BY KeyedRights DEF AmmWithdrawMetas
<1>2. /\ DOMAIN AmmWithdrawMetas = 1..22
      /\ AmmWithdrawMetas[1].key = "spl_token::id"
      /\ \A i \in 2..19 : AmmWithdrawMetas[i].key = WithdrawParameters[i - 1]
  BY DEF AmmWithdrawMetas, Metas, WithdrawParameters
<1>3. \A i \in 2..19 :
        /\ WithdrawParameters[i - 1] \in readonly \union WellKnown
            <=> i \notin WithdrawWritten
        /\ WithdrawParameters[i - 1] \in signers <=> i = 19
  BY DEF WithdrawParameters, WellKnown, WithdrawWritten
<1>4. "spl_token::id" \in readonly \union WellKnown /\ "spl_token::id" \notin signers
  BY DEF WellKnown
<1> HIDE DEF readonly, signers
<1>5. 1 \in 1..22 /\ \A i \in 2..19 : i \in 1..22
  OBVIOUS
<1> QED
  BY <1>1, <1>2, <1>3, <1>4, <1>5 DEF Meta

(* A wrapper renames the accounts of a list and keeps their rights: those  *)
(* of a list that starts with n known accounts, the last of them signing.  *)
BeginsLike(list, n, keys, written) ==
    /\ list[1] = R("spl_token::id")
    /\ \A i \in 2..n : list[i] = Meta(keys[i], i \in written, i = n)

LEMMA MetaRekeyed ==
    ASSUME NEW j, NEW k, NEW w, NEW s
    PROVE  [Meta(j, w, s) EXCEPT !.key = k] = Meta(k, w, s)
<1>1. CASE w /\ s
  BY <1>1, Rekeyed DEF Meta
<1>2. CASE w /\ ~ s
  BY <1>2, Rekeyed DEF Meta
<1>3. CASE ~ w /\ s
  BY <1>3, Rekeyed DEF Meta
<1>4. CASE ~ w /\ ~ s
  BY <1>4, Rekeyed DEF Meta
<1> QED
  BY <1>1, <1>2, <1>3, <1>4

LEMMA MetaKey ==
    ASSUME NEW j, NEW w, NEW s
    PROVE  Meta(j, w, s).key = j
BY MarkedKeys DEF Meta

LEMMA WrapperKeeps ==
    ASSUME NEW v \in DOMAIN Wrappers, NEW n \in Nat, NEW m \in Nat, 1 <= n, n <= m,
           DOMAIN AmmMetas(v) = 1..m
    PROVE  /\ Len(WrapperMetas(v)) = m
           /\ \A keys, written : BeginsLike(AmmMetas(v), n, keys, written)
                => BeginsLike(WrapperMetas(v), n, [i \in 2..n |-> FieldOf(keys[i])], written)
<1> DEFINE list == AmmMetas(v)
           renamed == WrapperMetas(v)
<1>1. renamed = [i \in 1..m |-> [list[i] EXCEPT !.key = FieldOf(@)]]
  BY WrapperLists
<1> HIDE DEF list, renamed
<1>2. Len(renamed) = m
  BY <1>1
<1>3. ASSUME NEW keys, NEW written, BeginsLike(list, n, keys, written)
      PROVE  BeginsLike(renamed, n, [i \in 2..n |-> FieldOf(keys[i])], written)
  <2>1. renamed[1] = R("spl_token::id")
    <3>1. list[1] = R("spl_token::id") /\ 1 \in 1..m
      BY <1>3 DEF BeginsLike
    <3>2. FieldOf("spl_token::id") = "spl_token::id"
      BY DEF FieldOf
    <3>3. renamed[1] = [list[1] EXCEPT !.key = FieldOf(list[1].key)]
      BY <1>1, <3>1
    <3>4. list[1].key = "spl_token::id"
      BY <3>1, MarkedKeys
    <3> QED
      BY <3>1, <3>2, <3>3, <3>4, Rekeyed
  <2>2. ASSUME NEW i \in 2..n
        PROVE  renamed[i] = Meta(FieldOf(keys[i]), i \in written, i = n)
    <3>1. list[i] = Meta(keys[i], i \in written, i = n) /\ i \in 1..m
      BY <1>3 DEF BeginsLike
    <3>2. renamed[i] = [list[i] EXCEPT !.key = FieldOf(list[i].key)]
      BY <1>1, <3>1
    <3>3. list[i].key = keys[i]
      BY <3>1, MetaKey
    <3> QED
      BY <3>1, <3>2, <3>3, MetaRekeyed
  <2> QED
    BY <2>1, <2>2 DEF BeginsLike
<1> QED
  BY <1>2, <1>3 DEF list, renamed

LEMMA DepositListed ==
    /\ Len(WrapperMetas("Deposit")) >= 13 /\ DOMAIN DocumentedDeposit = 1..13
    /\ \A i \in DOMAIN DocumentedDeposit : WrapperMetas("Deposit")[i] = DocumentedDeposit[i]
<1> DEFINE keys == [i \in 2..13 |-> DepositParameters[DepositPlace(i)]]
           fields == [i \in 2..13 |-> FieldOf(keys[i])]
<1>1. "Deposit" \in DOMAIN Wrappers /\ AmmMetas("Deposit") = AmmDepositMetas
  BY DEF Wrappers, AmmMetas, SwapBaseOutMetas
<1>2. BeginsLike(AmmDepositMetas, 13, keys, DepositWritten)
  BY DepositRights DEF BeginsLike, Meta, DepositWritten
<1>3. \A i \in 2..13 : fields[i] = AnchorDeposit[DepositPlace(i)]
  <2>1. \A j \in 1..13 : FieldOf(DepositParameters[j]) = AnchorDeposit[j]
    BY DEF FieldOf, DepositParameters, AnchorDeposit
  <2>2. \A i \in 2..13 : DepositPlace(i) \in 1..13
    BY DEF DepositPlace
  <2>3. \A i \in 2..13 : fields[i] = FieldOf(DepositParameters[DepositPlace(i)])
    OBVIOUS
  <2> QED
    BY <2>1, <2>2, <2>3
<1> HIDE DEF keys
<1>4. /\ Len(WrapperMetas("Deposit")) = 14
      /\ BeginsLike(WrapperMetas("Deposit"), 13, fields, DepositWritten)
  <2>1. 13 \in Nat /\ 14 \in Nat /\ 1 <= 13 /\ 13 <= 14 /\ DOMAIN AmmMetas("Deposit") = 1..14
    BY <1>1, DepositRights
  <2> QED
    BY <1>1, <1>2, <2>1, WrapperKeeps
<1> HIDE DEF fields
<1>5. DOMAIN DocumentedDeposit = 1..13 /\ DocumentedDeposit[1] = R("spl_token::id")
  BY DEF DocumentedDeposit
<1>6. \A i \in 2..13 :
        DocumentedDeposit[i] = Meta(AnchorDeposit[DepositPlace(i)], i \in DepositWritten, i = 13)
  BY DEF DocumentedDeposit, AnchorDeposit, DepositPlace, Meta, DepositWritten
<1>7. ASSUME NEW i \in 2..13 PROVE WrapperMetas("Deposit")[i] = DocumentedDeposit[i]
  <2>1. WrapperMetas("Deposit")[i] = Meta(fields[i], i \in DepositWritten, i = 13)
    BY <1>4 DEF BeginsLike
  <2>2. DocumentedDeposit[i] = Meta(fields[i], i \in DepositWritten, i = 13)
    BY <1>3, <1>6
  <2> QED
    BY <2>1, <2>2
<1>8. WrapperMetas("Deposit")[1] = DocumentedDeposit[1]
  BY <1>4, <1>5 DEF BeginsLike
<1>9. \A i \in 1..13 : i = 1 \/ i \in 2..13
  OBVIOUS
<1> QED
  BY <1>4, <1>5, <1>7, <1>8, <1>9

LEMMA WithdrawListed ==
    /\ Len(WrapperMetas("Withdraw")) >= 19 /\ DOMAIN DocumentedWithdraw = 1..19
    /\ \A i \in DOMAIN DocumentedWithdraw : WrapperMetas("Withdraw")[i] = DocumentedWithdraw[i]
<1> DEFINE keys == [i \in 2..19 |-> WithdrawParameters[i - 1]]
           fields == [i \in 2..19 |-> FieldOf(keys[i])]
<1>1. "Withdraw" \in DOMAIN Wrappers /\ AmmMetas("Withdraw") = AmmWithdrawMetas
  BY DEF Wrappers, AmmMetas, SwapBaseOutMetas
<1>2. BeginsLike(AmmWithdrawMetas, 19, keys, WithdrawWritten)
  BY WithdrawRights DEF BeginsLike, Meta, WithdrawWritten
<1>3. \A i \in 2..19 : fields[i] = AnchorWithdraw[i - 1]
  <2>1. \A j \in 1..21 : FieldOf(WithdrawParameters[j]) = AnchorWithdraw[j]
    BY DEF FieldOf, WithdrawParameters, AnchorWithdraw
  <2>2. \A i \in 2..19 : i - 1 \in 1..21
    OBVIOUS
  <2>3. \A i \in 2..19 : fields[i] = FieldOf(WithdrawParameters[i - 1])
    OBVIOUS
  <2> QED
    BY <2>1, <2>2, <2>3
<1> HIDE DEF keys
<1>4. /\ Len(WrapperMetas("Withdraw")) = 22
      /\ BeginsLike(WrapperMetas("Withdraw"), 19, fields, WithdrawWritten)
  <2>1. 19 \in Nat /\ 22 \in Nat /\ 1 <= 19 /\ 19 <= 22 /\ DOMAIN AmmMetas("Withdraw") = 1..22
    BY <1>1, WithdrawRights
  <2> QED
    BY <1>1, <1>2, <2>1, WrapperKeeps
<1> HIDE DEF fields
<1>5. DOMAIN DocumentedWithdraw = 1..19 /\ DocumentedWithdraw[1] = R("spl_token::id")
  BY DEF DocumentedWithdraw
<1>6. \A i \in 2..19 :
        DocumentedWithdraw[i] = Meta(AnchorWithdraw[i - 1], i \in WithdrawWritten, i = 19)
  BY DEF DocumentedWithdraw, AnchorWithdraw, Meta, WithdrawWritten
<1>7. ASSUME NEW i \in 2..19 PROVE WrapperMetas("Withdraw")[i] = DocumentedWithdraw[i]
  <2>1. WrapperMetas("Withdraw")[i] = Meta(fields[i], i \in WithdrawWritten, i = 19)
    BY <1>4 DEF BeginsLike
  <2>2. DocumentedWithdraw[i] = Meta(fields[i], i \in WithdrawWritten, i = 19)
    BY <1>3, <1>6
  <2> QED
    BY <2>1, <2>2
<1>8. WrapperMetas("Withdraw")[1] = DocumentedWithdraw[1]
  BY <1>4, <1>5 DEF BeginsLike
<1>9. \A i \in 1..19 : i = 1 \/ i \in 2..19
  OBVIOUS
<1> QED
  BY <1>4, <1>5, <1>7, <1>8, <1>9

LEMMA SwapListed ==
    /\ Len(WrapperMetas("SwapBaseOut")) >= 18 /\ DOMAIN DocumentedSwapBaseOut = 1..18
    /\ \A i \in DOMAIN DocumentedSwapBaseOut : WrapperMetas("SwapBaseOut")[i] = DocumentedSwapBaseOut[i]
<1> DEFINE keys == [i \in 2..18 |-> SwapBaseInParameters[i - 1]]
           fields == [i \in 2..18 |-> FieldOf(keys[i])]
<1>1. "SwapBaseOut" \in DOMAIN Wrappers /\ AmmMetas("SwapBaseOut") = SwapBaseInMetas
  BY DEF Wrappers, AmmMetas, SwapBaseOutMetas
<1>2. BeginsLike(SwapBaseInMetas, 18, keys, SwapWritten)
  BY SwapRights DEF BeginsLike, Meta, SwapWritten
<1>3. \A i \in 2..18 : fields[i] = AnchorSwapBaseIn[i - 1]
  <2>1. \A j \in 1..17 : FieldOf(SwapBaseInParameters[j]) = AnchorSwapBaseIn[j]
    BY DEF FieldOf, SwapBaseInParameters, AnchorSwapBaseIn
  <2>2. \A i \in 2..18 : i - 1 \in 1..17
    OBVIOUS
  <2>3. \A i \in 2..18 : fields[i] = FieldOf(SwapBaseInParameters[i - 1])
    OBVIOUS
  <2> QED
    BY <2>1, <2>2, <2>3
<1> HIDE DEF keys
<1>4. /\ Len(WrapperMetas("SwapBaseOut")) = 18
      /\ BeginsLike(WrapperMetas("SwapBaseOut"), 18, fields, SwapWritten)
  <2>1. 18 \in Nat /\ 18 \in Nat /\ 1 <= 18 /\ 18 <= 18 /\ DOMAIN AmmMetas("SwapBaseOut") = 1..18
    BY <1>1, SwapRights
  <2> QED
    BY <1>1, <1>2, <2>1, WrapperKeeps
<1> HIDE DEF fields
<1>5. DOMAIN DocumentedSwapBaseOut = 1..18 /\ DocumentedSwapBaseOut[1] = R("spl_token::id")
  BY DEF DocumentedSwapBaseOut
<1>6. \A i \in 2..18 :
        DocumentedSwapBaseOut[i] = Meta(AnchorSwapBaseIn[i - 1], i \in SwapWritten, i = 18)
  BY DEF DocumentedSwapBaseOut, AnchorSwapBaseIn, Meta, SwapWritten
<1>7. ASSUME NEW i \in 2..18 PROVE WrapperMetas("SwapBaseOut")[i] = DocumentedSwapBaseOut[i]
  <2>1. WrapperMetas("SwapBaseOut")[i] = Meta(fields[i], i \in SwapWritten, i = 18)
    BY <1>4 DEF BeginsLike
  <2>2. DocumentedSwapBaseOut[i] = Meta(fields[i], i \in SwapWritten, i = 18)
    BY <1>3, <1>6
  <2> QED
    BY <2>1, <2>2
<1>8. WrapperMetas("SwapBaseOut")[1] = DocumentedSwapBaseOut[1]
  BY <1>4, <1>5 DEF BeginsLike
<1>9. \A i \in 1..18 : i = 1 \/ i \in 2..18
  OBVIOUS
<1> QED
  BY <1>4, <1>5, <1>7, <1>8, <1>9

(* The lists of a deposit, a withdrawal and a swap start with the accounts *)
(* that the comments of AmmInstruction list: key by key, at their places   *)
(* and with the rights given there.                                        *)
THEOREM ListedAsDocumentedAlways == Spec => []ListedAsDocumented
<1>1. DOMAIN Documented = {"Deposit", "Withdraw", "SwapBaseOut"}
  BY DEF Documented
<1>2. /\ Documented["Deposit"] = DocumentedDeposit
      /\ Documented["Withdraw"] = DocumentedWithdraw
      /\ Documented["SwapBaseOut"] = DocumentedSwapBaseOut
  BY DEF Documented
<1>3. /\ Len(DocumentedDeposit) = 13 /\ Len(DocumentedWithdraw) = 19
      /\ Len(DocumentedSwapBaseOut) = 18
  BY DEF DocumentedDeposit, DocumentedWithdraw, DocumentedSwapBaseOut
<1>4. ASSUME NEW v \in DOMAIN Documented
      PROVE  /\ Len(WrapperMetas(v)) >= Len(Documented[v])
             /\ \A i \in DOMAIN Documented[v] : WrapperMetas(v)[i] = Documented[v][i]
  <2>1. CASE v = "Deposit"
    BY <1>2, <1>3, <2>1, DepositListed
  <2>2. CASE v = "Withdraw"
    BY <1>2, <1>3, <2>2, WithdrawListed
  <2>3. CASE v = "SwapBaseOut"
    BY <1>2, <1>3, <2>3, SwapListed
  <2> QED
    BY <1>1, <2>1, <2>2, <2>3
<1>5. Listed => ListedAsDocumented
  <2> SUFFICES ASSUME Listed, program = "amm", message.variant \in DOMAIN Documented
               PROVE  /\ Len(accounts) >= Len(Documented[message.variant])
                      /\ \A i \in DOMAIN Documented[message.variant] :
                            accounts[i] = Documented[message.variant][i]
    BY DEF ListedAsDocumented
  <2>1. accounts = WrapperMetas(message.variant)
    BY <1>1 DEF Listed, BuiltAccounts, AmmAccounts
  <2> QED
    BY <1>4, <2>1
<1> QED
  BY <1>5, ListedAlways, PTL

-----------------------------------------------------------------------------
(* The two legs of a one-step route.                                       *)
(* The names in the lists of the one-step routes.                          *)
MarketNames ==
    {"amm_authority", "amm_open_orders", "amm_coin_vault", "amm_pc_vault",
     "model_data_account", "serum_program_id", "serum_market", "serum_bids", "serum_asks",
     "serum_event_queue", "serum_coin_vault_account", "serum_pc_vault_account",
     "serum_vault_signer"}

LEMMA RouteKeys ==
    ASSUME NEW T, MarketNames \subseteq T, NEW before \in Seq(T), NEW after \in Seq(T),
           NEW model_data, model_data = << >> \/ model_data = << "model_data_account" >>
    PROVE  before \o RouteMarket(model_data) \o after \in Seq(T)
<1> DEFINE a == << "amm_authority", "amm_open_orders", "amm_coin_vault", "amm_pc_vault" >>
           b == << "serum_program_id", "serum_market", "serum_bids", "serum_asks",
                   "serum_event_queue", "serum_coin_vault_account", "serum_pc_vault_account",
                   "serum_vault_signer" >>
<1>1. a \in Seq(T) /\ b \in Seq(T)
  BY DEF MarketNames
<1>2. model_data \in Seq(T)
  <2>1. << >> \in Seq(T) /\ << "model_data_account" >> \in Seq(T)
    BY DEF MarketNames
  <2> QED
    BY <2>1
<1>3. RouteMarket(model_data) = a \o model_data \o b
  BY DEF RouteMarket
<1> HIDE DEF a, b
<1>4. RouteMarket(model_data) \in Seq(T)
  BY <1>1, <1>2, <1>3, ConcatProperties
<1> QED
  BY <1>4, ConcatProperties

(* An account that both lists name: the pools are written one in each leg, *)
(* and any other account is marked alike, its key alone deciding.          *)
LEMMA RouteLegs ==
    ASSUME NEW model_data, model_data = << >> \/ model_data = << "model_data_account" >>,
           NEW first, first = RouteInMetas(model_data),
           NEW second, second = RouteOutMetas(model_data),
           NEW i \in DOMAIN first, NEW j \in DOMAIN second, first[i].key = second[j].key
    PROVE  IF first[i].key \in {"route_from_amm_id", "route_to_amm_id"}
           THEN /\ first[i].writable <=> first[i].key = "route_from_amm_id"
                /\ second[j].writable <=> first[i].key = "route_to_amm_id"
           ELSE first[i] = second[j]
<1> DEFINE others == {"spl_token::id", "route_from_amm_id", "route_to_amm_id",
                      "uer_route_token_account", "user_pda_account", "user_source_owner"}
           in == MarketNames \union others \union
                    {"system_program", "route_from_amm_program_id", "uer_source_token_account"}
           out == MarketNames \union others \union
                    {"route_to_amm_program_id", "uer_destination_token_account"}
           readonlyIn == {"route_from_amm_program_id", "route_to_amm_id", "amm_authority",
                          "model_data_account", "serum_vault_signer", "user_source_owner"}
           readonlyOut == {"route_to_amm_program_id", "route_from_amm_id", "amm_authority",
                           "model_data_account", "serum_vault_signer", "user_source_owner"}
           signers == {"user_source_owner"}
           key == first[i].key
<1>1. /\ key \in in
      /\ first[i] = Meta(key, key \notin readonlyIn \union WellKnown, key \in signers)
  <2> DEFINE before == << "system_program", "spl_token::id", "route_from_amm_program_id",
                          "route_from_amm_id", "route_to_amm_id" >>
             after == << "uer_source_token_account", "uer_route_token_account",
                         "user_pda_account", "user_source_owner" >>
             keys == before \o RouteMarket(model_data) \o after
  <2>1. before \in Seq(in) /\ after \in Seq(in) /\ MarketNames \subseteq in
    OBVIOUS
  <2>2. first = Metas(keys, readonlyIn, signers)
    BY DEF RouteInMetas
  <2> HIDE DEF before, after, in
  <2>3. keys \in Seq(in)
    BY <2>1, RouteKeys
  <2> HIDE DEF keys, readonlyIn, signers
  <2>4. /\ DOMAIN first = DOMAIN keys /\ first[i].key = keys[i]
        /\ first[i] = Meta(key, key \notin readonlyIn \union WellKnown, key \in signers)
    BY <2>2, KeyedRights
  <2>5. \A k \in DOMAIN keys : keys[k] \in in
    BY <2>3
  <2> QED
    BY <2>4, <2>5
<1>2. /\ key \in out
      /\ second[j] = Meta(key, key \notin readonlyOut \union WellKnown, key \in signers)
  <2> DEFINE before == << "spl_token::id", "route_to_amm_program_id", "route_from_amm_id",
                          "route_to_amm_id" >>
             after == << "uer_route_token_account", "uer_destination_token_account",
                         "user_pda_account", "user_source_owner" >>
             keys == before \o RouteMarket(model_data) \o after
  <2>1. before \in Seq(out) /\ after \in Seq(out) /\ MarketNames \subseteq out
    OBVIOUS
  <2>2. second = Metas(keys, readonlyOut, signers)
    BY DEF RouteOutMetas
  <2> HIDE DEF before, after, out
  <2>3. keys \in Seq(out)
    BY <2>1, RouteKeys
  <2> HIDE DEF keys, readonlyOut, signers
  <2>4. /\ DOMAIN second = DOMAIN keys /\ second[j].key = keys[j]
        /\ second[j] = Meta(key, key \notin readonlyOut \union WellKnown, key \in signers)
    BY <2>2, KeyedRights
  <2>5. \A k \in DOMAIN keys : keys[k] \in out
    BY <2>3
  <2> QED
    BY <2>4, <2>5
<1>3. CASE key \in {"route_from_amm_id", "route_to_amm_id"}
  <2>1. key \notin readonlyIn \union WellKnown <=> key = "route_from_amm_id"
    BY <1>3 DEF WellKnown
  <2>2. key \notin readonlyOut \union WellKnown <=> key = "route_to_amm_id"
    BY <1>3 DEF WellKnown
  <2> HIDE DEF readonlyIn, readonlyOut, signers, key
  <2> QED
    BY <1>1, <1>2, <1>3, <2>1, <2>2, MarkedRights DEF Meta, key
<1>4. CASE key \notin {"route_from_amm_id", "route_to_amm_id"}
  <2>1. key \in readonlyIn <=> key \in readonlyOut
    <3>1. "route_to_amm_program_id" \notin in /\ "route_from_amm_program_id" \notin out
      BY DEF MarketNames
    <3> HIDE DEF in, out
    <3> QED
      BY <1>1, <1>2, <1>4, <3>1
  <2> HIDE DEF readonlyIn, readonlyOut, signers
  <2> QED
    BY <1>1, <1>2, <1>4, <2>1 DEF Meta
<1> QED
  BY <1>3, <1>4

(* Each leg of a one-step route writes the pool it trades in and not the   *)
(* other, and for every other account they share both ask the same rights. *)
THEOREM RouteLegsAgreeAlways == Spec => []RouteLegsAgree
<1>1. Listed /\ Carried => RouteLegsAgree
  <2> SUFFICES ASSUME Listed, Carried, message.variant \in DOMAIN OtherLeg
               PROVE  RouteLegsAgree
    BY DEF RouteLegsAgree
  <2>1. message.variant \in {"RouteSwapIn", "RouteStableSwapIn"}
    BY DEF OtherLeg
  <2>2. program = "route"
    <3>1. program \in Programs /\ message \in Messages(program)
      BY DEF Carried
    <3>2. message.variant \in DOMAIN Packed(program)
      BY <2>1, <3>1, MessageCases DEF Message
    <3> QED
      BY <2>1, <3>1, <3>2, ClientAssumption, AmmRows, StableRows, FarmRows, StakingRows
  <2>3. accounts = RouteMetas(message.variant)
    BY <2>1, <2>2 DEF Listed, BuiltAccounts, RouteAccounts
  <2>4. PICK model_data : /\ model_data = << >> \/ model_data = << "model_data_account" >>
                          /\ accounts = RouteInMetas(model_data)
                          /\ RouteMetas(OtherLeg[message.variant]) = RouteOutMetas(model_data)
    <3>1. CASE message.variant = "RouteSwapIn"
      BY <2>3, <3>1 DEF RouteMetas, OtherLeg, RouteSwapInOneStep, RouteSwapMinOutOneStep
    <3>2. CASE message.variant = "RouteStableSwapIn"
      BY <2>3, <3>2 DEF RouteMetas, OtherLeg, RouteStableSwapInOneStep,
                        RouteStableSwapMinOutOneStep
    <3> QED
      BY <2>1, <3>1, <3>2
  <2> QED
    BY <2>4, RouteLegs DEF RouteLegsAgree
<1> QED
  BY <1>1, ListedAlways, CarriedAlways, PTL

-----------------------------------------------------------------------------
(* Optional accounts at the end of a list.                                 *)
LEMMA OptionalAccount ==
    ASSUME NEW given, NEW a
    PROVE  SetToSeq(given \intersect {a}) = IF a \in given THEN << a >> ELSE << >>
<1>1. CASE a \in given
  <2>1. given \intersect {a} = {a} /\ Cardinality({a}) = 1
    BY <1>1, FS_Singleton
  <2>2. SetToSeq({a}) = CHOOSE f \in [1..1 -> {a}] : IsInjective(f)
    BY <2>1 DEF SetToSeq
  <2>3. \A f \in [1..1 -> {a}] : f = << a >>
    OBVIOUS
  <2>4. << a >> \in [1..1 -> {a}] /\ IsInjective(<< a >>)
    BY DEF IsInjective
  <2> QED
    BY <1>1, <2>1, <2>2, <2>3, <2>4
<1>2. CASE a \notin given
  <2>1. given \intersect {a} = {} /\ Cardinality({}) = 0
    BY <1>2, FS_EmptySet
  <2>2. SetToSeq({}) = CHOOSE f \in [1..0 -> {}] : IsInjective(f)
    BY <2>1 DEF SetToSeq
  <2>3. \A f \in [1..0 -> {}] : f = << >>
    OBVIOUS
  <2>4. << >> \in [1..0 -> {}] /\ IsInjective(<< >>)
    BY DEF IsInjective
  <2> QED
    BY <1>2, <2>1, <2>2, <2>3, <2>4
<1> QED
  BY <1>1, <1>2

(* Sequences that are told apart by their lengths.                         *)
Distinct(T, choices) ==
    /\ \A c \in choices : c \in Seq(T)
    /\ \A c, d \in choices : Len(c) = Len(d) => c = d

LEMMA NoneOrOne ==
    ASSUME NEW T, NEW one \in Seq(T), Len(one) # 0
    PROVE  Distinct(T, {<< >>, one})
<1> DEFINE none == << >>
<1>1. none \in Seq(T) /\ Len(none) = 0
  OBVIOUS
<1> HIDE DEF none
<1>2. Distinct(T, {none, one})
  BY <1>1 DEF Distinct
<1> QED
  BY <1>2 DEF none

(* Two lists whose optional ends are told apart by length.                 *)
LEMMA Cancel ==
    ASSUME NEW a \in Nat, NEW b \in Nat, NEW n \in Nat, NEW p, NEW q,
           p = n + a, q = n + b, p = q
    PROVE  a = b
OBVIOUS

LEMMA SameLength ==
    ASSUME NEW T, NEW listed \in Seq(T), NEW choices, Distinct(T, choices),
           NEW x \in choices, NEW y \in choices, NEW readonly, NEW signers,
           Len(Metas(listed \o x, readonly, signers)) = Len(Metas(listed \o y, readonly, signers))
    PROVE  x = y
<1> DEFINE a == Len(x)
           b == Len(y)
           n == Len(listed)
<1>1. x \in Seq(T) /\ y \in Seq(T)
  BY DEF Distinct
<1>2. a \in Nat /\ b \in Nat /\ n \in Nat
  BY <1>1
<1>3. ASSUME NEW keys \in Seq(T) PROVE Len(Metas(keys, readonly, signers)) = Len(keys)
  BY DEF Metas
<1>4. ASSUME NEW z \in Seq(T) PROVE listed \o z \in Seq(T) /\ Len(listed \o z) = n + Len(z)
  BY ConcatProperties
<1>5. /\ Len(Metas(listed \o x, readonly, signers)) = n + a
      /\ Len(Metas(listed \o y, readonly, signers)) = n + b
  BY <1>1, <1>3, <1>4
<1>6. a = b
  <2> HIDE DEF a, b, n
  <2> QED
    BY <1>2, <1>5, Cancel, Zenon
<1> QED
  BY <1>6 DEF Distinct

(* The lists with optional accounts: the length gives the list.            *)
LEMMA StableInitializeLength ==
    ASSUME NEW given, NEW other,
           Len(StableInitializeMetas(given)) = Len(StableInitializeMetas(other))
    PROVE  StableInitializeMetas(given) = StableInitializeMetas(other)
<1> DEFINE listed == << "spl_token::id", "system_program", "rent", "amm_id", "amm_authority",
                "amm_open_orders", "amm_lp_mint", "amm_coin_mint", "amm_pc_mint",
                "amm_coin_vault", "amm_pc_vault", "amm_target_orders", "model_data_account",
                "serum_program_id", "serum_market", "user_dest_lp_token", "user_wallet" >>
           T == Range(listed) \union {"srm_token"}
           x(g) == SetToSeq(g \intersect {"srm_token"})
<1>1. listed \in Seq(T)
  BY DEF Range
<1>2. \A g : x(g) \in {<< >>, << "srm_token" >>}
  BY OptionalAccount
<1>3. \E readonly, signers :
        \A g : StableInitializeMetas(g) = Metas(listed \o x(g), readonly, signers)
  BY DEF StableInitializeMetas
<1>4. << "srm_token" >> \in Seq(T) /\ Len(<< "srm_token" >>) # 0
  OBVIOUS
<1> HIDE DEF listed, T, x
<1>5. Distinct(T, {<< >>, << "srm_token" >>})
  BY <1>4, NoneOrOne
<1> QED
  BY <1>1, <1>2, <1>3, <1>5, SameLength

LEMMA FarmDepositLength ==
    ASSUME NEW given, NEW other,
           Len(FarmDepositMetas(given)) = Len(FarmDepositMetas(other))
    PROVE  FarmDepositMetas(given) = FarmDepositMetas(other)
<1> DEFINE listed == << "stake_pool", "pool_authority", "staker_info", "staker_owner",
                "src_lp_token", "vault_lp_token", "dest_reward_token_a", "vault_reward_token_a",
                "clock", "token_program_id" >>
           T == Range(listed) \union {"dest_reward_token_b", "vault_reward_token_b"}
           x(g) == RewardB(g)
<1>1. listed \in Seq(T)
  BY DEF Range
<1>2. \A g : x(g) \in {<< >>, << "dest_reward_token_b", "vault_reward_token_b" >>}
  BY DEF RewardB
<1>3. \E readonly, signers :
        \A g : FarmDepositMetas(g) = Metas(listed \o x(g), readonly, signers)
  BY DEF FarmDepositMetas
<1>4. /\ << "dest_reward_token_b", "vault_reward_token_b" >> \in Seq(T)
      /\ Len(<< "dest_reward_token_b", "vault_reward_token_b" >>) # 0
  OBVIOUS
<1> HIDE DEF listed, T, x
<1>5. Distinct(T, {<< >>, << "dest_reward_token_b", "vault_reward_token_b" >>})
  BY <1>4, NoneOrOne
<1> QED
  BY <1>1, <1>2, <1>3, <1>5, SameLength

LEMMA FarmWithdrawLength ==
    ASSUME NEW given, NEW other,
           Len(FarmWithdrawMetas(given)) = Len(FarmWithdrawMetas(other))
    PROVE  FarmWithdrawMetas(given) = FarmWithdrawMetas(other)
<1> DEFINE listed == << "stake_pool", "pool_authority", "staker_info", "staker_owner",
                "dest_lp_token", "vault_lp_token", "dest_reward_token_a", "vault_reward_token_a",
                "clock", "token_program_id" >>
           T == Range(listed) \union {"dest_reward_token_b", "vault_reward_token_b"}
           x(g) == RewardB(g)
<1>1. listed \in Seq(T)
  BY DEF Range
<1>2. \A g : x(g) \in {<< >>, << "dest_reward_token_b", "vault_reward_token_b" >>}
  BY DEF RewardB
<1>3. \E readonly, signers :
        \A g : FarmWithdrawMetas(g) = Metas(listed \o x(g), readonly, signers)
  BY DEF FarmWithdrawMetas
<1>4. /\ << "dest_reward_token_b", "vault_reward_token_b" >> \in Seq(T)
      /\ Len(<< "dest_reward_token_b", "vault_reward_token_b" >>) # 0
  OBVIOUS
<1> HIDE DEF listed, T, x
<1>5. Distinct(T, {<< >>, << "dest_reward_token_b", "vault_reward_token_b" >>})
  BY <1>4, NoneOrOne
<1> QED
  BY <1>1, <1>2, <1>3, <1>5, SameLength

LEMMA FarmDepositV2Length ==
    ASSUME NEW given, NEW other,
           Len(FarmDepositV2Metas(given)) = Len(FarmDepositV2Metas(other))
    PROVE  FarmDepositV2Metas(given) = FarmDepositV2Metas(other)
<1> DEFINE listed == << "stake_pool", "pool_authority", "staker_info", "staker_owner",
                "src_lp_token", "vault_lp_token", "dest_reward_token_a", "vault_reward_token_a",
                "clock", "token_program_id", "dest_reward_token_b", "vault_reward_token_b" >>
           T == Range(listed) \union {"staker_info_v1"}
           x(g) == SetToSeq(g \intersect {"staker_info_v1"})
<1>1. listed \in Seq(T)
  BY DEF Range
<1>2. \A g : x(g) \in {<< >>, << "staker_info_v1" >>}
  BY OptionalAccount
<1>3. \E readonly, signers :
        \A g : FarmDepositV2Metas(g) = Metas(listed \o x(g), readonly, signers)
  BY DEF FarmDepositV2Metas
<1>4. << "staker_info_v1" >> \in Seq(T) /\ Len(<< "staker_info_v1" >>) # 0
  OBVIOUS
<1> HIDE DEF listed, T, x
<1>5. Distinct(T, {<< >>, << "staker_info_v1" >>})
  BY <1>4, NoneOrOne
<1> QED
  BY <1>1, <1>2, <1>3, <1>5, SameLength

(* The whole order book, or none of it, behind the optional referrer.      *)
LEMMA FourLengths ==
    ASSUME NEW len, NEW none, NEW one, NEW three, NEW four,
           len[none] = 0, len[one] = 1, len[three] = 3, len[four] = 4,
           NEW c \in {none, one, three, four}, NEW d \in {none, one, three, four},
           len[c] = len[d]
    PROVE  c = d
OBVIOUS

LEMMA NoneToFour ==
    ASSUME NEW T, NEW one \in Seq(T), NEW three \in Seq(T), Len(one) = 1, Len(three) = 3
    PROVE  Distinct(T, {<< >>, one, three, one \o three})
<1> DEFINE none == << >>
           four == one \o three
           choices == {none, one, three, four}
           len == [c \in choices |-> Len(c)]
<1>1. none \in Seq(T) /\ four \in Seq(T) /\ Len(none) = 0 /\ Len(four) = 4
  <2>1. four \in Seq(T) /\ Len(four) = Len(one) + Len(three)
    BY ConcatProperties
  <2> HIDE DEF four
  <2> QED
    BY <2>1
<1>2. len[none] = 0 /\ len[one] = 1 /\ len[three] = 3 /\ len[four] = 4
  BY <1>1
<1>3. ASSUME NEW c \in choices, NEW d \in choices, Len(c) = Len(d) PROVE c = d
  <2>1. len[c] = len[d]
    BY <1>3
  <2>2. c \in {none, one, three, four} /\ d \in {none, one, three, four}
    OBVIOUS
  <2> HIDE DEF len, none, four, choices
  <2> QED
    BY <1>2, <2>1, <2>2, FourLengths
<1>4. \A c \in choices : c \in Seq(T)
  BY <1>1
<1> QED
  BY <1>3, <1>4 DEF Distinct

LEMMA StableWithdrawLength ==
    ASSUME NEW given, NEW other,
           Len(StableWithdrawMetas(given)) = Len(StableWithdrawMetas(other))
    PROVE  StableWithdrawMetas(given) = StableWithdrawMetas(other)
<1> DEFINE listed == << "spl_token::id", "amm_id", "amm_authority", "amm_open_orders",
                "amm_target_orders", "amm_lp_mint", "amm_coin_vault", "amm_pc_vault",
                "model_data_account", "serum_program_id", "serum_market", "serum_coin_vault",
                "serum_pc_vault", "serum_vault_signer", "user_source_lp_token",
                "user_dest_coin_token", "user_dest_pc_token", "user_owner" >>
           T == Range(listed) \union {"referrer_pc_account"} \union
                    {"serum_event_q", "serum_bids", "serum_asks"}
           one == << "referrer_pc_account" >>
           three == << "serum_event_q", "serum_bids", "serum_asks" >>
           referrer(g) == SetToSeq(g \intersect {"referrer_pc_account"})
           x(g) == referrer(g) \o SerumBookIfWhole(g)
<1>1. listed \in Seq(T)
  BY DEF Range
<1>2. one \in Seq(T) /\ three \in Seq(T) /\ Len(one) = 1 /\ Len(three) = 3
  OBVIOUS
<1>3. \E readonly, signers :
        \A g : StableWithdrawMetas(g) =
                 Metas((listed \o referrer(g)) \o SerumBookIfWhole(g), readonly, signers)
  BY DEF StableWithdrawMetas
<1>4. ASSUME NEW g
      PROVE  referrer(g) \in {<< >>, one} /\ SerumBookIfWhole(g) \in {<< >>, three}
  BY OptionalAccount DEF SerumBookIfWhole, SerumBook
<1>5. << >> \in Seq(T)
  OBVIOUS
<1> HIDE DEF listed, T, one, three, referrer
<1>6. ASSUME NEW g PROVE (listed \o referrer(g)) \o SerumBookIfWhole(g) = listed \o x(g)
  <2>1. referrer(g) \in Seq(T) /\ SerumBookIfWhole(g) \in Seq(T)
    BY <1>2, <1>4, <1>5
  <2> QED
    BY <1>1, <2>1, ConcatAssociative
<1>7. ASSUME NEW g PROVE x(g) \in {<< >>, one, three, one \o three}
  <2>1. << >> \o << >> = << >> /\ one \o << >> = one /\ << >> \o three = three
    BY <1>2, <1>5, ConcatEmptySeq
  <2> QED
    BY <1>4, <2>1
<1>8. Distinct(T, {<< >>, one, three, one \o three})
  BY <1>2, NoneToFour
<1>9. \E readonly, signers :
        \A g : StableWithdrawMetas(g) = Metas(listed \o x(g), readonly, signers)
  BY <1>3, <1>6
<1> HIDE DEF x
<1> QED
  BY <1>1, <1>7, <1>8, <1>9, SameLength

(* Of every instruction of stable and farm but the initialize of the farm, *)
(* two choices of the optional accounts with lists of one length have one  *)
(* list: the program called, which can only count, reads what was meant.   *)
THEOREM OptionsReadableAlways == Spec => []OptionsReadable
<1>1. Listed /\ Carried => OptionsReadable
  <2> SUFFICES ASSUME Listed, Carried, program \in {"stable", "farm"},
                      ~ (program = "farm" /\ message.variant = "Initialize"),
                      NEW given \in Given(program, message.variant),
                      Len(BuiltAccounts(program, message.variant, given, "amm_program"))
                        = Len(accounts)
               PROVE  BuiltAccounts(program, message.variant, given, "amm_program") = accounts
    BY DEF OptionsReadable
  <2> DEFINE v == message.variant
  <2>1. PICK own, pool_program : accounts = BuiltAccounts(program, v, own, pool_program)
    BY DEF Listed
  <2>2. v = "Reserved" \/ v \in DOMAIN Packed(program)
    BY MessageCases DEF Carried, Message
  <2> HIDE DEF v
  <2>3. CASE v = "Reserved"
    BY <2>1, <2>3 DEF BuiltAccounts, v
  <2>4. CASE program = "stable" /\ v \in DOMAIN Packed("stable")
    <3>1. /\ accounts = StableMetas(v, own)
          /\ BuiltAccounts(program, v, given, "amm_program") = StableMetas(v, given)
      BY <2>1, <2>4, StableRows DEF BuiltAccounts
    <3>2. Len(StableMetas(v, given)) = Len(StableMetas(v, own))
      BY <3>1 DEF v
    <3>3. CASE v = "Initialize"
      BY <3>1, <3>2, <3>3, StableInitializeLength DEF StableMetas, v
    <3>4. CASE v = "Withdraw"
      BY <3>1, <3>2, <3>4, StableWithdrawLength DEF StableMetas, v
    <3>5. CASE v \in {"Deposit", "SwapBaseIn", "PreInitialize", "SwapBaseOut"}
      BY <3>1, <3>5 DEF StableMetas, v
    <3> QED
      BY <2>4, <3>3, <3>4, <3>5, StableRows
  <2>5. CASE program = "farm" /\ v \in DOMAIN Packed("farm")
    <3>1. /\ accounts = FarmMetas(v, own)
          /\ BuiltAccounts(program, v, given, "amm_program") = FarmMetas(v, given)
      BY <2>1, <2>5, FarmRows DEF BuiltAccounts
    <3>2. Len(FarmMetas(v, given)) = Len(FarmMetas(v, own))
      BY <3>1 DEF v
    <3>3. CASE v = "Deposit"
      BY <3>1, <3>2, <3>3, FarmDepositLength DEF FarmMetas, v
    <3>4. CASE v \in {"Withdraw", "WithdrawV2"}
      BY <3>1, <3>2, <3>4, FarmWithdrawLength DEF FarmMetas, FarmWithdrawV2Metas, v
    <3>5. CASE v = "DepositV2"
      BY <3>1, <3>2, <3>5, FarmDepositV2Length DEF FarmMetas, v
    <3>6. CASE v \in {"UpdatePool", "EmergencyWithdraw", "CreateAssociatedAccount"}
      BY <3>1, <3>6 DEF FarmMetas, v
    <3> QED
      BY <2>5, <3>3, <3>4, <3>5, <3>6, FarmRows DEF v
  <2> QED
    BY <2>2, <2>3, <2>4, <2>5
<1> QED
  BY <1>1, ListedAlways, CarriedAlways, PTL

-----------------------------------------------------------------------------
(* A list of accounts that starts with some given ones.                    *)
LEMMA StartsWith ==
    ASSUME NEW T, NEW first \in Seq(T), NEW more \in Seq(T)
    PROVE  /\ DOMAIN (first \o more) = 1..(Len(first) + Len(more))
           /\ Len(first) + Len(more) \in Nat
           /\ \A i \in 1..Len(first) :
                i \in DOMAIN (first \o more) /\ (first \o more)[i] = first[i]
<1>1. first \o more \in Seq(T) /\ Len(first \o more) = Len(first) + Len(more)
  BY ConcatProperties
<1>2. \A i \in 1..Len(first) : (first \o more)[i] = first[i]
  BY ConcatProperties
<1>3. Len(first) \in Nat /\ Len(more) \in Nat
  OBVIOUS
<1>4. \A m, n \in Nat : /\ m + n \in Nat
                        /\ \A i \in 1..m : i \in 1..(m + n)
  OBVIOUS
<1> QED
  BY <1>1, <1>2, <1>3, <1>4

LEMMA FirstListed ==
    ASSUME NEW T, NEW first \in Seq(T), NEW more \in Seq(T),
           NEW readonly, NEW signers, NEW list, list = Metas(first \o more, readonly, signers)
    PROVE  /\ Len(list) = Len(first) + Len(more)
           /\ \A i \in 1..Len(first) :
                list[i] = Meta(first[i], first[i] \notin readonly \union WellKnown,
                               first[i] \in signers)
<1> DEFINE keys == first \o more
<1>1. /\ DOMAIN keys = 1..(Len(first) + Len(more)) /\ Len(first) + Len(more) \in Nat
      /\ \A i \in 1..Len(first) : i \in DOMAIN keys /\ keys[i] = first[i]
  BY StartsWith
<1> HIDE DEF keys
<1>2. /\ DOMAIN list = DOMAIN keys
      /\ \A i \in DOMAIN list :
            /\ list[i].key = keys[i]
            /\ list[i] = Meta(list[i].key, list[i].key \notin readonly \union WellKnown,
                              list[i].key \in signers)
  <2>1. list = Metas(keys, readonly, signers)
    BY DEF keys
  <2> QED
    BY <2>1, KeyedRights
<1>3. Len(list) = Len(first) + Len(more)
  BY <1>1, <1>2
<1>4. ASSUME NEW i \in 1..Len(first)
      PROVE  list[i] = Meta(first[i], first[i] \notin readonly \union WellKnown,
                            first[i] \in signers)
  <2>1. i \in DOMAIN list /\ list[i].key = first[i]
    BY <1>1, <1>2
  <2> QED
    BY <1>2, <2>1
<1> QED
  BY <1>3, <1>4

(* The part of an account is that of its key.                              *)
RoleOf(key) ==
    CASE key = "dest_reward_token_a" -> "dest_reward_token"
      [] key = "vault_reward_token_a" -> "vault_reward_token"
      [] OTHER -> key

LEMMA RoleOfMeta ==
    ASSUME NEW key, NEW w \in BOOLEAN, NEW s \in BOOLEAN
    PROVE  Role(Meta(key, w, s)) = Meta(RoleOf(key), w, s)
<1>1. \A meta : meta.key = key => Role(meta) = [meta EXCEPT !.key = RoleOf(key)]
  BY DEF Role, RoleOf
<1> DEFINE k == RoleOf(key)
<1> HIDE DEF k
<1>2. /\ Role(R(key)) = [R(key) EXCEPT !.key = k]
      /\ Role(W(key)) = [W(key) EXCEPT !.key = k]
      /\ Role(S(key)) = [S(key) EXCEPT !.key = k]
      /\ Role(SignedAndWritten(key)) = [SignedAndWritten(key) EXCEPT !.key = k]
  BY <1>1, MarkedKeys DEF k
<1>3. /\ Role(R(key)) = R(k) /\ Role(W(key)) = W(k) /\ Role(S(key)) = S(k)
      /\ Role(SignedAndWritten(key)) = SignedAndWritten(k)
  BY <1>2, Rekeyed, Zenon
<1> QED
  BY <1>3 DEF Meta, k

(* A deposit to the farm and one to the staking program, and a withdrawal. *)
FarmTen(lp) ==
    << "stake_pool", "pool_authority", "staker_info", "staker_owner", lp, "vault_lp_token",
       "dest_reward_token_a", "vault_reward_token_a", "clock", "token_program_id" >>

StakeTen(lp) ==
    << "stake_pool", "pool_authority", "staker_info", "staker_owner", lp, "vault_lp_token",
       "dest_reward_token", "vault_reward_token", "clock", "token_program_id" >>

StakerAccounts ==
    {"stake_pool", "pool_authority", "staker_info", "staker_owner", "src_lp_token",
     "dest_lp_token", "vault_lp_token", "dest_reward_token_a", "vault_reward_token_a",
     "dest_reward_token_b", "vault_reward_token_b", "dest_reward_token", "vault_reward_token",
     "clock", "token_program_id"}

LpAccounts == {"src_lp_token", "dest_lp_token"}

Unwritten == {"pool_authority", "staker_owner"}
Signing == {"staker_owner"}

FarmList(lp, more) == Metas(FarmTen(lp) \o more, Unwritten, Signing)
StakeList(lp) == Metas(StakeTen(lp), Unwritten, Signing)

LEMMA TensAgree ==
    ASSUME NEW lp \in LpAccounts
    PROVE  \A i \in 1..10 :
              /\ RoleOf(FarmTen(lp)[i]) = RoleOf(StakeTen(lp)[i])
              /\ FarmTen(lp)[i] \in Unwritten \union WellKnown
                    <=> StakeTen(lp)[i] \in Unwritten \union WellKnown
              /\ FarmTen(lp)[i] \in Signing <=> StakeTen(lp)[i] \in Signing
<1>1. \A i \in 1..10 : i \notin {7, 8} => FarmTen(lp)[i] = StakeTen(lp)[i]
  BY DEF FarmTen, StakeTen
<1>2. /\ FarmTen(lp)[7] = "dest_reward_token_a" /\ StakeTen(lp)[7] = "dest_reward_token"
      /\ FarmTen(lp)[8] = "vault_reward_token_a" /\ StakeTen(lp)[8] = "vault_reward_token"
  BY DEF FarmTen, StakeTen
<1>3. \A i \in {7, 8} :
          /\ RoleOf(FarmTen(lp)[i]) = RoleOf(StakeTen(lp)[i])
          /\ FarmTen(lp)[i] \notin Unwritten \union WellKnown \union Signing
          /\ StakeTen(lp)[i] \notin Unwritten \union WellKnown \union Signing
  BY <1>2 DEF RoleOf, WellKnown, Unwritten, Signing
<1> QED
  BY <1>1, <1>3

LEMMA TensListed ==
    ASSUME NEW lp \in LpAccounts
    PROVE  FarmTen(lp) \in Seq(StakerAccounts) /\ StakeTen(lp) \in Seq(StakerAccounts)
<1>1. lp \in StakerAccounts
  BY DEF LpAccounts, StakerAccounts
<1> QED
  BY <1>1 DEF FarmTen, StakeTen, StakerAccounts

LEMMA RewardListed == \A given : RewardB(given) \in Seq(StakerAccounts)
<1>1. << "dest_reward_token_b", "vault_reward_token_b" >> \in Seq(StakerAccounts)
  BY DEF StakerAccounts
<1> QED
  BY <1>1 DEF RewardB

LEMMA SameRoles ==
    ASSUME NEW lp \in LpAccounts, NEW more \in Seq(StakerAccounts)
    PROVE  /\ Len(FarmList(lp, more)) = 10 + Len(more) /\ Len(StakeList(lp)) = 10
           /\ Len(more) \in Nat
           /\ \A i \in 1..10 : Role(FarmList(lp, more)[i]) = Role(StakeList(lp)[i])
<1> DEFINE f == FarmTen(lp)
           t == StakeTen(lp)
           farm == FarmList(lp, more)
           stake == StakeList(lp)
<1>1. Len(f) = 10 /\ Len(t) = 10 /\ DOMAIN t = 1..10
  BY DEF FarmTen, StakeTen
<1>2. \A i \in 1..10 : /\ RoleOf(f[i]) = RoleOf(t[i])
                       /\ f[i] \in Unwritten \union WellKnown
                            <=> t[i] \in Unwritten \union WellKnown
                       /\ f[i] \in Signing <=> t[i] \in Signing
  BY TensAgree
<1>3. f \in Seq(StakerAccounts) /\ t \in Seq(StakerAccounts) /\ Len(more) \in Nat
  BY TensListed
<1>4. farm = Metas(f \o more, Unwritten, Signing) /\ stake = Metas(t, Unwritten, Signing)
  BY DEF FarmList, StakeList
<1> HIDE DEF f, t, farm, stake
<1>5. /\ Len(farm) = Len(f) + Len(more)
      /\ \A i \in 1..Len(f) : farm[i] = Meta(f[i], f[i] \notin Unwritten \union WellKnown,
                                             f[i] \in Signing)
  BY <1>3, <1>4, FirstListed
<1>6. /\ DOMAIN stake = DOMAIN t
      /\ \A i \in DOMAIN stake :
            /\ stake[i].key = t[i]
            /\ stake[i] = Meta(stake[i].key, stake[i].key \notin Unwritten \union WellKnown,
                               stake[i].key \in Signing)
  BY <1>4, KeyedRights
<1>7. Len(stake) = 10
  BY <1>1, <1>6
<1>8. ASSUME NEW i \in 1..10 PROVE Role(farm[i]) = Role(stake[i])
  <2> DEFINE w == f[i] \notin Unwritten \union WellKnown
             s == f[i] \in Signing
  <2>1. w \in BOOLEAN /\ s \in BOOLEAN
    OBVIOUS
  <2>2. farm[i] = Meta(f[i], w, s)
    BY <1>1, <1>5
  <2>3. stake[i] = Meta(t[i], w, s)
    <3>1. stake[i] = Meta(t[i], t[i] \notin Unwritten \union WellKnown, t[i] \in Signing)
      BY <1>1, <1>6
    <3> QED
      BY <1>2, <3>1 DEF Meta
  <2> HIDE DEF w, s
  <2>4. Role(farm[i]) = Meta(RoleOf(f[i]), w, s) /\ Role(stake[i]) = Meta(RoleOf(t[i]), w, s)
    BY <2>1, <2>2, <2>3, RoleOfMeta
  <2> QED
    BY <1>2, <2>4
<1> QED
  BY <1>1, <1>3, <1>5, <1>7, <1>8 DEF farm, stake

(* The lists of both programs, for the variants whose lists differ.        *)
LEMMA DepositAndWithdrawRoles ==
    ASSUME NEW v \in {"Deposit", "Withdraw"}, NEW given
    PROVE  /\ Len(FarmMetas(v, given)) >= 10 /\ Len(FarmMetas(v, {})) = 10
           /\ Len(StakeMetas(v)) = 10
           /\ \A i \in 1..10 : Role(FarmMetas(v, given)[i]) = Role(StakeMetas(v)[i])
<1> DEFINE lp == IF v = "Deposit" THEN "src_lp_token" ELSE "dest_lp_token"
<1>1. lp \in LpAccounts
  BY DEF LpAccounts
<1>3. /\ \A g : FarmMetas(v, g) = FarmList(lp, RewardB(g))
      /\ StakeMetas(v) = StakeList(lp)
  <2>1. CASE v = "Deposit"
    BY <2>1 DEF FarmList, StakeList, Unwritten, Signing, FarmMetas, StakeMetas,
                FarmDepositMetas, StakeDepositMetas, FarmTen, StakeTen
  <2>2. CASE v = "Withdraw"
    BY <2>2 DEF FarmList, StakeList, Unwritten, Signing, FarmMetas, StakeMetas,
                FarmWithdrawMetas, StakeWithdrawMetas, FarmTen, StakeTen
  <2> QED
    BY <2>1, <2>2
<1>4. Len(RewardB({})) = 0
  BY DEF RewardB
<1> HIDE DEF lp
<1>5. ASSUME NEW g
      PROVE  /\ Len(FarmMetas(v, g)) = 10 + Len(RewardB(g)) /\ Len(StakeMetas(v)) = 10
             /\ Len(RewardB(g)) \in Nat
             /\ \A i \in 1..10 : Role(FarmMetas(v, g)[i]) = Role(StakeMetas(v)[i])
  <2>1. FarmMetas(v, g) = FarmList(lp, RewardB(g)) /\ StakeMetas(v) = StakeList(lp)
    BY <1>3
  <2> QED
    BY <1>1, <2>1, RewardListed, SameRoles
<1>6. \A n \in Nat : 10 + n >= 10
  OBVIOUS
<1>7. Len(FarmMetas(v, {})) = 10
  <2> DEFINE m == Len(FarmMetas(v, {}))
             n == Len(RewardB({}))
  <2>1. m = 10 + n /\ n = 0
    BY <1>4, <1>5, Zenon
  <2> HIDE DEF m, n
  <2>2. m = 10
    BY <2>1
  <2> QED
    BY <2>2 DEF m
<1>8. Len(FarmMetas(v, given)) >= 10
  <2>1. /\ Len(FarmMetas(v, given)) = 10 + Len(RewardB(given))
        /\ Len(RewardB(given)) \in Nat
    BY <1>5, Zenon
  <2> QED
    BY <1>6, <2>1
<1> QED
  BY <1>5, <1>7, <1>8, Zenon

(* A deposit, a withdrawal, an update or an emergency withdrawal built for *)
(* the farm or the staking program and sent to the other finds each of the *)
(* accounts the other expects at its place, in its part, with its rights.  *)
THEOREM SiblingAccountsAgreeAlways == Spec => []SiblingAccountsAgree
<1>1. Listed /\ Carried => SiblingAccountsAgree
  <2> DEFINE v == message.variant
             expected == BuiltAccounts(receiver, v, {}, "amm_program")
             n == Len(expected)
  <2> SUFFICES ASSUME Listed, Carried, receiver # program, program \in {"farm", "staking"},
                      v \in ReadAlike
               PROVE  Len(accounts) >= n /\ \A i \in 1..n : Role(accounts[i]) = Role(expected[i])
    BY DEF SiblingAccountsAgree
  <2>1. PICK given, pool_program : accounts = BuiltAccounts(program, v, given, pool_program)
    BY DEF Listed
  <2>2. (program = "farm" /\ receiver = "staking") \/ (program = "staking" /\ receiver = "farm")
    BY DEF Carried, Siblings
  <2>3. v \in {"Deposit", "Withdraw", "UpdatePool", "EmergencyWithdraw"}
    BY DEF ReadAlike
  <2> HIDE DEF v
  <2>4. CASE program = "farm" /\ receiver = "staking"
    <3>1. accounts = FarmMetas(v, given) /\ expected = StakeMetas(v)
      BY <2>1, <2>3, <2>4 DEF BuiltAccounts
    <3>2. CASE v \in {"Deposit", "Withdraw"}
      BY <3>1, <3>2, DepositAndWithdrawRoles, ZenonT(30)
    <3>3. CASE v \in {"UpdatePool", "EmergencyWithdraw"}
      <4>1. accounts = expected
        BY <3>1, <3>3 DEF FarmMetas, StakeMetas, FarmUpdatePoolMetas, StakeUpdatePoolMetas,
                          FarmEmergencyWithdrawMetas, StakeEmergencyWithdrawMetas
      <4>2. n \in Nat
        BY <3>1, <3>3 DEF StakeMetas, StakeUpdatePoolMetas, StakeEmergencyWithdrawMetas, Metas
      <4> QED
        BY <4>1, <4>2
    <3> QED
      BY <2>3, <3>2, <3>3
  <2>5. CASE program = "staking" /\ receiver = "farm"
    <3>1. accounts = StakeMetas(v) /\ expected = FarmMetas(v, {})
      BY <2>1, <2>3, <2>5 DEF BuiltAccounts
    <3>2. CASE v \in {"Deposit", "Withdraw"}
      BY <3>1, <3>2, DepositAndWithdrawRoles, ZenonT(30)
    <3>3. CASE v \in {"UpdatePool", "EmergencyWithdraw"}
      <4>1. accounts = expected
        BY <3>1, <3>3 DEF FarmMetas, StakeMetas, FarmUpdatePoolMetas, StakeUpdatePoolMetas,
                          FarmEmergencyWithdrawMetas, StakeEmergencyWithdrawMetas
      <4>2. n \in Nat
        BY <3>1, <3>3 DEF FarmMetas, FarmUpdatePoolMetas, FarmEmergencyWithdrawMetas, Metas
      <4> QED
        BY <4>1, <4>2
    <3> QED
      BY <2>3, <3>2, <3>3
  <2> QED
    BY <2>2, <2>4, <2>5
<1> QED
  BY <1>1, ListedAlways, CarriedAlways, PTL
=============================================================================
