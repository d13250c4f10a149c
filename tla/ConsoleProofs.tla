---------------------------- MODULE ConsoleProofs ----------------------------
(* Proofs about the console, for any number of CPUs and processes and any      *)
(* size of its buffer.  What a thread holds, how deep its pushcli() calls are  *)
(* nested and what its interrupt flag will be again, follow from the place     *)
(* where it is; the state of a CPU fits the thread that it executes.  That no  *)
(* kernel code panics and that interrupts are on and off where they must be    *)
(* follow from it.  The lemmas on the ring, which come first, serve            *)
(* InputProofs, where the results about what a process reads are.              *)
EXTENDS Console, TLAPS

-----------------------------------------------------------------------------
(* The ring, for any values of its indices. *)

\* What unsigned arithmetic and the index of a slot give.
LEMMA UintType ==
  ASSUME NEW i \in Int
  PROVE  Uint(i) \in 0 .. UINT - 1 /\ i % INPUT_BUF \in 0 .. INPUT_BUF - 1
BY ConsoleAssumption DEF Uint

\* What is assumed of the buffer's size and the width of its indices.
LEMMA Sizes ==
  INPUT_BUF \in Nat \ {0} /\ UINT \in Nat \ {0} /\ INPUT_BUF < UINT /\ UINT % INPUT_BUF = 0
BY ConsoleAssumption

\* Indices as unsigned integers
LEMMA UintIs ==
  ASSUME NEW i \in Int, -UINT <= i, i < 2 * UINT
  PROVE  Uint(i) = IF i < 0 THEN i + UINT ELSE IF i < UINT THEN i ELSE i - UINT
<1>1. CASE i < 0
  BY <1>1, Sizes DEF Uint
<1>2. CASE 0 <= i /\ i < UINT
  BY <1>2, Sizes DEF Uint
<1>3. CASE i >= UINT
  BY <1>3, Sizes DEF Uint
<1> QED BY <1>1, <1>2, <1>3, Sizes

\* The difference of two indices
LEMMA UintDiff ==
  ASSUME NEW a \in 0 .. UINT - 1, NEW b \in 0 .. UINT - 1
  PROVE  /\ Uint(b - a) \in 0 .. UINT - 1
         /\ Uint(b - a) = IF b >= a THEN b - a ELSE b - a + UINT
<1>1. b - a \in Int /\ -UINT <= b - a /\ b - a < 2 * UINT
  BY Sizes
<1> QED BY <1>1, UintIs, Sizes

\* An index and an offset
LEMMA UintSum ==
  ASSUME NEW a \in 0 .. UINT - 1, NEW d \in Int, -UINT <= d, d <= UINT
  PROVE  /\ Uint(a + d) \in 0 .. UINT - 1
         /\ Uint(a + d) = IF a + d < 0 THEN a + d + UINT
                          ELSE IF a + d < UINT THEN a + d ELSE (a + d) - UINT
<1> DEFINE i == a + d
<1>1. i \in Int /\ -UINT <= i /\ i < 2 * UINT
  BY Sizes
<1> HIDE DEF i
<1>2. Uint(i) = IF i < 0 THEN i + UINT ELSE IF i < UINT THEN i ELSE i - UINT
  BY <1>1, UintIs
<1>3. Uint(i) \in 0 .. UINT - 1
  BY <1>1, <1>2, Sizes
<1> QED BY <1>2, <1>3, Zenon DEF i

\* The quotient and the remainder, and that they are the only ones
LEMMA Division ==
  ASSUME NEW n \in Nat \ {0}, NEW a \in Int
  PROVE  a \div n \in Int /\ a % n \in 0 .. n - 1 /\ a = n * (a \div n) + (a % n)
OBVIOUS

\* The only multiple of n between -n and n is 0.
LEMMA NoMultiple ==
  ASSUME NEW n \in Nat \ {0}, NEW k \in Int, NEW d \in Int, d = n * k, -n < d, d < n
  PROVE  d = 0
OBVIOUS

\* UINT is a multiple of INPUT_BUF, so an index that wraps keeps its place.
LEMMA SlotWraps ==
  ASSUME NEW i \in Int
  PROVE  (i + UINT) % INPUT_BUF = i % INPUT_BUF
<1> DEFINE n == INPUT_BUF
           x == i \div n
           y == (i + UINT) \div n
           k == UINT \div n
           s == i % n
           u == (i + UINT) % n
<1>1. n \in Nat \ {0} /\ UINT \in Int /\ i + UINT \in Int
  BY Sizes
<1>2. x \in Int /\ s \in 0 .. n - 1 /\ i = n * x + s
  BY <1>1, Division, Zenon
<1>3. y \in Int /\ u \in 0 .. n - 1 /\ i + UINT = n * y + u
  BY <1>1, Division, Zenon
<1>4. k \in Int /\ UINT = n * k
  BY <1>1, Division, Sizes
<1> HIDE DEF n, x, y, k, s, u
<1>5. u - s = n * (x + k - y)
  BY <1>1, <1>2, <1>3, <1>4
<1>6. u - s \in Int /\ -n < u - s /\ u - s < n /\ x + k - y \in Int
  BY <1>1, <1>2, <1>3, <1>4
<1>7. u - s = 0
  BY <1>1, <1>5, <1>6, NoMultiple
<1>8. u = s
  BY <1>1, <1>2, <1>3, <1>7
<1> QED BY <1>8 DEF u, s, n

\* Places less than INPUT_BUF apart differ.
LEMMA SlotsDiffer ==
  ASSUME NEW i \in Int, NEW j \in Int, i < j, j - i < INPUT_BUF
  PROVE  i % INPUT_BUF # j % INPUT_BUF
<1> DEFINE n == INPUT_BUF
           x == i \div n
           y == j \div n
           s == i % n
           u == j % n
<1>1. n \in Nat \ {0} /\ j - i < n
  BY Sizes
<1>2. x \in Int /\ s \in 0 .. n - 1 /\ i = n * x + s
  BY <1>1, Division, Zenon
<1>3. y \in Int /\ u \in 0 .. n - 1 /\ j = n * y + u
  BY <1>1, Division, Zenon
<1> SUFFICES ASSUME s = u
             PROVE  FALSE
  OBVIOUS
<1> HIDE DEF n, x, y, s, u
<1>4. j - i = n * (y - x)
  BY <1>1, <1>2, <1>3
<1>5. j - i \in Int /\ -n < j - i /\ y - x \in Int
  BY <1>1, <1>2, <1>3
<1>6. j - i = 0
  BY <1>1, <1>4, <1>5, NoMultiple
<1> QED BY <1>6

\* The place of an index and an offset
LEMMA SlotSum ==
  ASSUME NEW a \in 0 .. UINT - 1, NEW d \in Int, -UINT <= d, d <= UINT, NEW i \in Int
  PROVE  (Uint(a + d) + i) % INPUT_BUF = (a + d + i) % INPUT_BUF
<1>1. a \in Int /\ UINT \in Int
  BY Sizes
<1>2. CASE Uint(a + d) = a + d
  BY <1>2
<1>3. CASE Uint(a + d) = a + d + UINT
  <2>1. a + d + i \in Int /\ (a + d + UINT) + i = (a + d + i) + UINT
    BY <1>1
  <2> QED BY <1>3, <2>1, SlotWraps
<1>4. CASE Uint(a + d) = (a + d) - UINT
  <2>1. (a + d) - UINT + i \in Int /\ ((a + d) - UINT + i) + UINT = a + d + i
    BY <1>1
  <2> QED BY <1>4, <2>1, SlotWraps
<1>5. Uint(a + d) = IF a + d < 0 THEN a + d + UINT
                    ELSE IF a + d < UINT THEN a + d ELSE (a + d) - UINT
  BY UintSum, Zenon
<1> QED BY <1>2, <1>3, <1>4, <1>5, Zenon

\* The ring with these indices, and line what readers have been given
Ring(buf, r, w, e, ln) ==
    /\ Uint(w - r) <= Uint(e - r) /\ Uint(e - r) <= INPUT_BUF
    /\ Uint(e - r) = INPUT_BUF => Uint(w - r) = Uint(e - r)
    /\ ln = [i \in 1 .. Uint(w - r) |-> buf[(r + i - 1) % INPUT_BUF]]
    /\ \A i \in 0 .. Uint(e - r) - 1 : buf[(r + i) % INPUT_BUF] # "NUL"

\* Something is taken back from what readers have not been given.
LEMMA RingShrinks ==
  ASSUME NEW buf, NEW r \in 0 .. UINT - 1, NEW w \in 0 .. UINT - 1, NEW e \in 0 .. UINT - 1, NEW ln,
         Ring(buf, r, w, e, ln), NEW k \in 0 .. Uint(e - w)
  PROVE  Ring(buf, r, w, Uint(e - k), ln)
<1> DEFINE given == Uint(w - r)
           held == Uint(e - r)
           f == Uint(e - k)
<1>1. /\ given \in 0 .. UINT - 1 /\ given = IF w >= r THEN w - r ELSE w - r + UINT
      /\ held \in 0 .. UINT - 1 /\ held = IF e >= r THEN e - r ELSE e - r + UINT
      /\ given <= held /\ held <= INPUT_BUF /\ (held = INPUT_BUF => given = held)
  BY UintDiff, Zenon DEF Ring
<1>2. Uint(e - w) = IF e >= w THEN e - w ELSE e - w + UINT
  BY UintDiff, Zenon
<1>3. k \in Int /\ 0 <= k /\ k <= held - given
  <2> HIDE DEF given, held
  <2> QED BY <1>1, <1>2, Sizes
<1>4. f \in 0 .. UINT - 1 /\ f = IF e - k < 0 THEN e - k + UINT ELSE e - k
  <2>1. -k \in Int /\ -UINT <= -k /\ -k <= UINT /\ e + (-k) = e - k
    BY <1>1, <1>3, Sizes
  <2>2. /\ Uint(e + (-k)) \in 0 .. UINT - 1
        /\ Uint(e + (-k)) = IF e + (-k) < 0 THEN e + (-k) + UINT
                            ELSE IF e + (-k) < UINT THEN e + (-k) ELSE (e + (-k)) - UINT
    BY <2>1, UintSum, Zenon
  <2> QED BY <1>3, <2>1, <2>2, Sizes
<1> HIDE DEF f
<1>5. Uint(f - r) = IF f >= r THEN f - r ELSE f - r + UINT
  BY <1>4, UintDiff, Zenon
<1> HIDE DEF given, held
<1>6. Uint(f - r) = held - k
  BY <1>1, <1>3, <1>4, <1>5, Sizes
<1>7. given <= Uint(f - r) /\ Uint(f - r) <= INPUT_BUF /\ (Uint(f - r) = INPUT_BUF => given = Uint(f - r))
  BY <1>1, <1>3, <1>6, Sizes
<1>8. \A i \in 0 .. Uint(f - r) - 1 : buf[(r + i) % INPUT_BUF] # "NUL"
  <2>1. \A i \in 0 .. Uint(f - r) - 1 : i \in 0 .. held - 1
    BY <1>1, <1>3, <1>6
  <2> QED BY <2>1, Zenon DEF Ring, held
<1> QED BY <1>7, <1>8, Zenon DEF Ring, given, f

\* A reader takes the first character.
LEMMA RingReads ==
  ASSUME NEW buf, NEW r \in 0 .. UINT - 1, NEW w \in 0 .. UINT - 1, NEW e \in 0 .. UINT - 1, NEW ln,
         Ring(buf, r, w, e, ln), r # w, \A i \in Int : buf[i % INPUT_BUF] \in Char
  PROVE  Ring(buf, Uint(r + 1), w, e, Tail(ln)) /\ buf[r % INPUT_BUF] # "NUL"
<1> DEFINE given == Uint(w - r)
           held == Uint(e - r)
           s == Uint(r + 1)
<1>1. /\ given \in 0 .. UINT - 1 /\ given = IF w >= r THEN w - r ELSE w - r + UINT
      /\ held \in 0 .. UINT - 1 /\ held = IF e >= r THEN e - r ELSE e - r + UINT
      /\ given <= held /\ held <= INPUT_BUF
  BY UintDiff, Zenon DEF Ring
<1>0. /\ ln = [i \in 1 .. given |-> buf[(r + i - 1) % INPUT_BUF]]
      /\ \A i \in 0 .. held - 1 : buf[(r + i) % INPUT_BUF] # "NUL"
  BY Zenon DEF Ring
<1>2. 1 \in Int /\ -UINT <= 1 /\ 1 <= UINT
  BY Sizes
<1>3. s \in 0 .. UINT - 1 /\ s = IF r + 1 < 0 THEN r + 1 + UINT
                                 ELSE IF r + 1 < UINT THEN r + 1 ELSE (r + 1) - UINT
  BY <1>2, UintSum, Zenon
<1>4. \A i \in Int : (s + i) % INPUT_BUF = (r + 1 + i) % INPUT_BUF
  BY <1>2, SlotSum, Zenon
<1> HIDE DEF s, given, held
<1>5. given > 0 /\ given - 1 \in Nat
  BY <1>1, Sizes
<1>6. Uint(w - s) = given - 1 /\ Uint(e - s) = held - 1
  <2>1. /\ Uint(w - s) = IF w >= s THEN w - s ELSE w - s + UINT
        /\ Uint(e - s) = IF e >= s THEN e - s ELSE e - s + UINT
    BY <1>3, UintDiff, Zenon
  <2>2. s = IF r + 1 < UINT THEN r + 1 ELSE 0
    BY <1>3, Sizes
  <2>3. given \in Int /\ held \in Int /\ UINT \in Int /\ held > 0
    BY <1>1, <1>5, Sizes
  <2>4. CASE r + 1 < UINT
    <3>1. s = r + 1
      BY <2>2, <2>4
    <3> QED BY <1>1, <1>5, <2>1, <2>3, <3>1
  <2>5. CASE r + 1 >= UINT
    <3>1. s = 0 /\ r = UINT - 1
      BY <2>2, <2>3, <2>5
    <3> QED BY <1>1, <1>5, <2>1, <2>3, <3>1
  <2> QED BY <2>3, <2>4, <2>5
<1>7. given - 1 <= held - 1 /\ held - 1 <= INPUT_BUF /\ held - 1 # INPUT_BUF
  BY <1>1, Sizes
<1>8. \A i \in 0 .. (held - 1) - 1 : buf[(s + i) % INPUT_BUF] # "NUL"
  <2> SUFFICES ASSUME NEW i \in 0 .. (held - 1) - 1
               PROVE  buf[(s + i) % INPUT_BUF] # "NUL"
    BY Zenon
  <2>1. i \in Int /\ i + 1 \in 0 .. held - 1 /\ r + 1 + i = r + (i + 1)
    BY <1>1
  <2>2. (s + i) % INPUT_BUF = (r + (i + 1)) % INPUT_BUF
    BY <1>4, <2>1
  <2> QED BY <1>0, <2>1, <2>2, Zenon
<1>9. Tail(ln) = [i \in 1 .. given - 1 |-> buf[(s + i - 1) % INPUT_BUF]]
  <2> DEFINE g == [i \in 1 .. given - 1 |-> buf[(s + i - 1) % INPUT_BUF]]
  <2>1. ln \in Seq(Char) /\ Len(ln) = given
    <3>1. \A i \in 1 .. given : buf[(r + i - 1) % INPUT_BUF] \in Char
      <4>1. \A i \in 1 .. given : r + i - 1 \in Int
        BY <1>1
      <4> QED BY <4>1, Zenon
    <3> QED BY <1>0, <1>1, <3>1
  <2>2. \A i \in 1 .. given - 1 : g[i] = ln[i + 1]
    <3> SUFFICES ASSUME NEW i \in 1 .. given - 1
                 PROVE  buf[(s + i - 1) % INPUT_BUF] = ln[i + 1]
      BY Zenon
    <3>1. i - 1 \in Int /\ s + i - 1 = s + (i - 1) /\ i + 1 \in 1 .. given /\ r + 1 + (i - 1) = r + (i + 1) - 1
      BY <1>1, <1>3
    <3>2. (s + (i - 1)) % INPUT_BUF = (r + 1 + (i - 1)) % INPUT_BUF
      BY <1>4, <3>1
    <3>3. ln[i + 1] = buf[(r + (i + 1) - 1) % INPUT_BUF]
      BY <1>0, <3>1, Zenon
    <3> QED BY <3>1, <3>2, <3>3
  <2>3. g \in Seq(Char) /\ Len(g) = given - 1
    <3>1. \A i \in 1 .. given - 1 : s + i - 1 \in Int
      BY <1>1, <1>3
    <3> QED BY <1>5, <3>1
  <2> HIDE DEF g
  <2>4. Tail(ln) = g
    BY <1>5, <2>1, <2>2, <2>3
  <2> QED BY <2>4 DEF g
<1>10. Ring(buf, s, w, e, Tail(ln))
  BY <1>6, <1>7, <1>8, <1>9, Zenon DEF Ring
<1>11. buf[r % INPUT_BUF] # "NUL"
  <2>1. 0 \in 0 .. held - 1 /\ r + 0 = r
    BY <1>1, <1>5
  <2> QED BY <1>0, <2>1
<1> QED BY <1>10, <1>11 DEF s

\* An index, from where readers are
LEMMA UintFrom ==
  ASSUME NEW a \in 0 .. UINT - 1, NEW b \in 0 .. UINT - 1, NEW i \in Int
  PROVE  /\ Uint(a + Uint(b - a)) = b
         /\ (b + i) % INPUT_BUF = (a + Uint(b - a) + i) % INPUT_BUF
<1> USE Zenon
<1> DEFINE d == Uint(b - a)
<1>1. d \in 0 .. UINT - 1 /\ d = IF b >= a THEN b - a ELSE b - a + UINT
  BY UintDiff
<1> HIDE DEF d
<1>2. d \in Int /\ -UINT <= d /\ d <= UINT
  BY <1>1, Sizes, SMT
<1>3. Uint(a + d) = b
  <2>1. Uint(a + d) = IF a + d < 0 THEN a + d + UINT
                      ELSE IF a + d < UINT THEN a + d ELSE (a + d) - UINT
    BY <1>2, UintSum
  <2> QED BY <1>1, <2>1, Sizes, SMT
<1>4. (Uint(a + d) + i) % INPUT_BUF = (a + d + i) % INPUT_BUF
  BY <1>2, SlotSum
<1> QED BY <1>3, <1>4 DEF d

\* A character is stored behind the others: b and f are the buffer and its end then.
Grown(buf, r, w, e, b, f) ==
    /\ b \in [0 .. INPUT_BUF - 1 -> Char] /\ f \in 0 .. UINT - 1
    /\ Uint(f - r) = Uint(e - r) + 1 /\ Uint(f - w) = (Uint(e - r) + 1) - Uint(w - r)
    /\ Uint(e - r) + 1 = INPUT_BUF => f = Uint(r + INPUT_BUF)
    /\ \A i \in 0 .. Uint(e - r) - 1 : b[(r + i) % INPUT_BUF] = buf[(r + i) % INPUT_BUF]
    /\ \A i \in 0 .. Uint(e - r) : b[(r + i) % INPUT_BUF] # "NUL"

\* A character stored at e, with room for it, adds itself to the ring and
\* changes no slot that is in use.
LEMMA RingGrows ==
  ASSUME NEW buf \in [0 .. INPUT_BUF - 1 -> Char], NEW x \in Char, x # "NUL",
         NEW r \in 0 .. UINT - 1, NEW w \in 0 .. UINT - 1, NEW e \in 0 .. UINT - 1, NEW ln,
         Ring(buf, r, w, e, ln), Uint(e - r) < INPUT_BUF,
         NEW b, b = [buf EXCEPT ![e % INPUT_BUF] = x], NEW f, f = Uint(e + 1)
  PROVE  Grown(buf, r, w, e, b, f)
<1> DEFINE given == Uint(w - r)
           held == Uint(e - r)
<1>1. /\ given \in 0 .. UINT - 1 /\ given = IF w >= r THEN w - r ELSE w - r + UINT
      /\ held \in 0 .. UINT - 1 /\ held = IF e >= r THEN e - r ELSE e - r + UINT
      /\ given <= held /\ held < INPUT_BUF
  BY UintDiff, Zenon DEF Ring
<1>0. /\ r \in Int /\ 0 <= r /\ r < UINT /\ w \in Int /\ 0 <= w /\ w < UINT
      /\ e \in Int /\ 0 <= e /\ e < UINT /\ UINT \in Int /\ INPUT_BUF \in Int
      /\ given \in Int /\ 0 <= given /\ given < UINT
      /\ held \in Int /\ 0 <= held /\ held < UINT /\ INPUT_BUF < UINT
  <2>1. /\ r \in Int /\ 0 <= r /\ r < UINT /\ w \in Int /\ 0 <= w /\ w < UINT
        /\ e \in Int /\ 0 <= e /\ e < UINT
    BY Sizes
  <2>2. UINT \in Int /\ INPUT_BUF \in Int /\ INPUT_BUF < UINT
    BY Sizes
  <2>3. given \in Int /\ 0 <= given /\ given < UINT
    BY ONLY <1>1, <2>2
  <2>4. held \in Int /\ 0 <= held /\ held < UINT
    BY ONLY <1>1, <2>2
  <2> QED BY ONLY <2>1, <2>2, <2>3, <2>4
<1>2. \A i \in 0 .. held - 1 : buf[(r + i) % INPUT_BUF] # "NUL"
  BY Zenon DEF Ring
<1> HIDE DEF given, held
<1>3. 1 \in Int /\ -UINT <= 1 /\ 1 <= UINT
  BY Sizes
<1>4. f \in 0 .. UINT - 1 /\ f = IF e + 1 < UINT THEN e + 1 ELSE 0
  <2>1. /\ Uint(e + 1) \in 0 .. UINT - 1
        /\ Uint(e + 1) = IF e + 1 < 0 THEN e + 1 + UINT
                         ELSE IF e + 1 < UINT THEN e + 1 ELSE (e + 1) - UINT
    BY <1>3, UintSum, Zenon
  <2> QED BY <2>1, Sizes
<1>5. Uint(f - r) = held + 1 /\ Uint(f - w) = (held + 1) - given
  <2>1. /\ Uint(f - r) = IF f >= r THEN f - r ELSE f - r + UINT
        /\ Uint(f - w) = IF f >= w THEN f - w ELSE f - w + UINT
    BY <1>4, UintDiff, Zenon
  <2>2. CASE e + 1 < UINT
    <3>1. f = e + 1
      BY <1>4, <2>2
    <3> QED BY ONLY <1>0, <1>1, <2>1, <2>2, <3>1
  <2>3. CASE e + 1 >= UINT
    <3>1. f = 0 /\ e = UINT - 1
      BY <1>4, <2>3, Sizes
    <3> QED BY ONLY <1>0, <1>1, <2>1, <3>1
  <2> QED BY <2>2, <2>3, Sizes
<1>6. held + 1 = INPUT_BUF => f = Uint(r + INPUT_BUF)
  <2>1. Uint(r + Uint(f - r)) = f
    <3>1. 0 \in Int
      OBVIOUS
    <3> QED BY <1>4, <3>1, UintFrom, Zenon
  <2> QED BY <1>5, <2>1, Zenon
<1>7. e % INPUT_BUF = (r + held) % INPUT_BUF
  <2>1. (e + 0) % INPUT_BUF = (r + Uint(e - r) + 0) % INPUT_BUF
    BY UintFrom
  <2>2. e + 0 = e /\ r + held + 0 = r + held
    BY <1>1
  <2> QED BY <2>1, <2>2 DEF held
<1>8. e % INPUT_BUF \in 0 .. INPUT_BUF - 1
  BY UintType, Sizes
<1>9. b \in [0 .. INPUT_BUF - 1 -> Char] /\ b[e % INPUT_BUF] = x
      /\ \A j \in 0 .. INPUT_BUF - 1 : j # e % INPUT_BUF => b[j] = buf[j]
  BY <1>8, Zenon
<1>10. ASSUME NEW i \in 0 .. held - 1
       PROVE  b[(r + i) % INPUT_BUF] = buf[(r + i) % INPUT_BUF]
  <2>1. r + i \in Int /\ r + held \in Int /\ r + i < r + held /\ (r + held) - (r + i) < INPUT_BUF
    <3>1. i \in Int /\ 0 <= i /\ i < held
      BY <1>0
    <3> QED BY ONLY <1>0, <1>1, <3>1
  <2>2. (r + i) % INPUT_BUF # (r + held) % INPUT_BUF
    BY <2>1, SlotsDiffer, Zenon
  <2>3. (r + i) % INPUT_BUF \in 0 .. INPUT_BUF - 1
    BY <2>1, UintType, Zenon
  <2> QED BY <1>7, <1>9, <2>2, <2>3, Zenon
<1>11. ASSUME NEW i \in 0 .. held
       PROVE  b[(r + i) % INPUT_BUF] # "NUL"
  <2>1. CASE i = held
    BY <1>7, <1>9, <2>1, Zenon
  <2>2. CASE i # held
    <3>1. i \in 0 .. held - 1
      BY <1>1, <2>2
    <3> QED BY <1>2, <1>10, <3>1, Zenon
  <2> QED BY <2>1, <2>2
<1> QED BY <1>4, <1>5, <1>6, <1>9, <1>10, <1>11, Zenon DEF Grown, given, held

\* A character that does not complete the line
LEMMA RingStores ==
  ASSUME NEW buf \in [0 .. INPUT_BUF - 1 -> Char], NEW x \in Char, x # "NUL",
         NEW r \in 0 .. UINT - 1, NEW w \in 0 .. UINT - 1, NEW e \in 0 .. UINT - 1, NEW ln,
         Ring(buf, r, w, e, ln), Uint(e - r) < INPUT_BUF,
         NEW b, b = [buf EXCEPT ![e % INPUT_BUF] = x], NEW f, f = Uint(e + 1),
         f # Uint(r + INPUT_BUF)
  PROVE  Ring(b, r, w, f, ln)
<1> USE Zenon
<1> DEFINE given == Uint(w - r)
           held == Uint(e - r)
<1>0. Grown(buf, r, w, e, b, f)
  BY RingGrows
<1>1. /\ Uint(f - r) = held + 1 /\ held + 1 # INPUT_BUF
      /\ \A i \in 0 .. held - 1 : b[(r + i) % INPUT_BUF] = buf[(r + i) % INPUT_BUF]
      /\ \A i \in 0 .. held : b[(r + i) % INPUT_BUF] # "NUL"
  BY <1>0 DEF Grown
<1>2. /\ given \in 0 .. UINT - 1 /\ held \in 0 .. UINT - 1 /\ given <= held
      /\ ln = [i \in 1 .. given |-> buf[(r + i - 1) % INPUT_BUF]]
  BY UintDiff DEF Ring
<1>3. r \in Int
  BY SMT
<1> HIDE DEF given, held
<1>4. given <= held + 1 /\ held + 1 <= INPUT_BUF /\ held \in Int /\ given \in Int
  <2>1. held < INPUT_BUF
    BY SMT DEF held
  <2> QED BY ONLY <1>2, <2>1, Sizes
<1>5. \A i \in 0 .. (held + 1) - 1 : b[(r + i) % INPUT_BUF] # "NUL"
  <2>1. (held + 1) - 1 = held
    BY <1>4, SMT
  <2> QED BY <1>1, <2>1
<1>6. ln = [i \in 1 .. given |-> b[(r + i - 1) % INPUT_BUF]]
  <2>1. ASSUME NEW i \in 1 .. given
        PROVE  b[(r + i - 1) % INPUT_BUF] = buf[(r + i - 1) % INPUT_BUF]
    <3>1. i - 1 \in 0 .. held - 1 /\ r + (i - 1) = r + i - 1
      BY ONLY <1>2, <1>3, <1>4, <2>1
    <3> QED BY <1>1, <3>1
  <2> QED BY <1>2, <2>1
<1> QED BY <1>1, <1>4, <1>5, <1>6 DEF Ring, given, held

\* Sequences one after the other
LEMMA Joined ==
  ASSUME NEW S, NEW a \in Seq(S), NEW b \in Seq(S)
  PROVE  /\ a \o b \in Seq(S) /\ Len(a \o b) = Len(a) + Len(b)
         /\ \A i \in 1 .. Len(a) + Len(b) : (a \o b)[i] = IF i <= Len(a) THEN a[i] ELSE b[i - Len(a)]
OBVIOUS

\* Sequences of the same length with the same elements are equal.
LEMMA SameSequence ==
  ASSUME NEW a \in Seq(Char), NEW b \in Seq(Char), Len(a) = Len(b),
         \A i \in 1 .. Len(a) : a[i] = b[i]
  PROVE  a = b
OBVIOUS

\* The line goes to the readers.
LEMMA RingCommits ==
  ASSUME NEW buf \in [0 .. INPUT_BUF - 1 -> Char], NEW x \in Char, x # "NUL",
         NEW r \in 0 .. UINT - 1, NEW w \in 0 .. UINT - 1, NEW e \in 0 .. UINT - 1, NEW ln,
         Ring(buf, r, w, e, ln), Uint(e - r) < INPUT_BUF,
         NEW b, b = [buf EXCEPT ![e % INPUT_BUF] = x], NEW f, f = Uint(e + 1),
         NEW new, new = [i \in 1 .. Uint(f - w) |-> b[(w + i - 1) % INPUT_BUF]]
  PROVE  Ring(b, r, f, f, ln \o new)
<1> USE Zenon
<1> DEFINE given == Uint(w - r)
           held == Uint(e - r)
           g == [i \in 1 .. held + 1 |-> b[(r + i - 1) % INPUT_BUF]]
<1>0. Grown(buf, r, w, e, b, f)
  BY RingGrows
<1>1. /\ Uint(f - r) = held + 1 /\ Uint(f - w) = (held + 1) - given
      /\ \A i \in 0 .. held - 1 : b[(r + i) % INPUT_BUF] = buf[(r + i) % INPUT_BUF]
      /\ \A i \in 0 .. held : b[(r + i) % INPUT_BUF] # "NUL"
      /\ b \in [0 .. INPUT_BUF - 1 -> Char]
  BY <1>0 DEF Grown
<1>2. /\ given \in 0 .. UINT - 1 /\ held \in 0 .. UINT - 1 /\ given <= held
      /\ ln = [i \in 1 .. given |-> buf[(r + i - 1) % INPUT_BUF]]
  BY UintDiff DEF Ring
<1>3. r \in Int /\ w \in Int
  BY SMT
<1>4. \A j \in Int : (w + j) % INPUT_BUF = (r + given + j) % INPUT_BUF
  BY UintFrom
<1> HIDE DEF given, held
<1>5. /\ held + 1 <= INPUT_BUF /\ held \in Nat /\ given \in Nat /\ (held + 1) - given \in Nat
      /\ (held + 1) - 1 = held
  <2>1. held < INPUT_BUF
    BY SMT DEF held
  <2> QED BY ONLY <1>2, <2>1, Sizes
<1>6. \A i \in 0 .. (held + 1) - 1 : b[(r + i) % INPUT_BUF] # "NUL"
  BY <1>1, <1>5
<1>7. \A i \in Int : b[i % INPUT_BUF] \in Char /\ buf[i % INPUT_BUF] \in Char
  BY <1>1, UintType
<1>8. ln \in Seq(Char) /\ Len(ln) = given
  <2>1. \A i \in 1 .. given : buf[(r + i - 1) % INPUT_BUF] \in Char
    <3>1. \A i \in 1 .. given : r + i - 1 \in Int
      BY ONLY <1>3, <1>5
    <3> QED BY <1>7, <3>1
  <2> QED BY ONLY <1>2, <1>5, <2>1
<1>9. new \in Seq(Char) /\ Len(new) = (held + 1) - given
  <2>1. \A i \in 1 .. (held + 1) - given : b[(w + i - 1) % INPUT_BUF] \in Char
    <3>1. \A i \in 1 .. (held + 1) - given : w + i - 1 \in Int
      BY ONLY <1>3, <1>5
    <3> QED BY <1>7, <3>1
  <2>2. new = [i \in 1 .. (held + 1) - given |-> b[(w + i - 1) % INPUT_BUF]]
    BY <1>1
  <2> QED BY ONLY <1>5, <2>1, <2>2
<1>10. g \in Seq(Char) /\ Len(g) = held + 1
  <2>1. \A i \in 1 .. held + 1 : b[(r + i - 1) % INPUT_BUF] \in Char
    <3>1. \A i \in 1 .. held + 1 : r + i - 1 \in Int
      BY ONLY <1>3, <1>5
    <3> QED BY <1>7, <3>1
  <2> QED BY ONLY <1>5, <2>1
<1>11. /\ ln \o new \in Seq(Char) /\ Len(ln \o new) = Len(ln) + Len(new)
        /\ \A i \in 1 .. Len(ln) + Len(new) :
              (ln \o new)[i] = IF i <= Len(ln) THEN ln[i] ELSE new[i - Len(ln)]
  BY ONLY <1>8, <1>9, Joined, Zenon
<1>12. ASSUME NEW i \in 1 .. held + 1
       PROVE  (ln \o new)[i] = g[i]
  <2>1. g[i] = b[(r + i - 1) % INPUT_BUF]
    OBVIOUS
  <2>2. CASE i <= given
    <3>1. (ln \o new)[i] = ln[i] /\ i \in 1 .. given /\ i - 1 \in 0 .. held - 1 /\ r + (i - 1) = r + i - 1
      BY ONLY <1>2, <1>3, <1>5, <1>8, <1>9, <1>12, <2>2
    <3>2. ln[i] = buf[(r + i - 1) % INPUT_BUF]
      BY <1>2, <3>1
    <3>3. b[(r + (i - 1)) % INPUT_BUF] = buf[(r + (i - 1)) % INPUT_BUF]
      BY <1>1, <3>1
    <3> QED BY <2>1, <3>1, <3>2, <3>3
  <2>3. CASE i > given
    <3> DEFINE j == i - given
    <3>0. (ln \o new)[i] = new[j]
      <4>1. i \in 1 .. Len(ln) + Len(new) /\ ~(i <= Len(ln))
        BY ONLY <1>5, <1>8, <1>9, <1>12, <2>3
      <4>2. (ln \o new)[i] = IF i <= Len(ln) THEN ln[i] ELSE new[i - Len(ln)]
        BY <1>11, <4>1
      <4> QED BY <1>8, <4>1, <4>2
    <3>1. /\ j \in 1 .. (held + 1) - given /\ j - 1 \in Int
          /\ w + (j - 1) = w + j - 1 /\ r + given + (j - 1) = r + i - 1
      BY ONLY <1>3, <1>5, <1>12, <2>3
    <3> HIDE DEF j
    <3>2. new[j] = b[(w + j - 1) % INPUT_BUF]
      BY <1>1, <3>1
    <3>3. (w + (j - 1)) % INPUT_BUF = (r + given + (j - 1)) % INPUT_BUF
      BY <1>4, <3>1
    <3> QED BY <2>1, <3>0, <3>1, <3>2, <3>3
  <2>4. i <= given \/ i > given
    BY ONLY <1>5, <1>12
  <2> QED BY <2>2, <2>3, <2>4
<1> HIDE DEF g
<1>13. ln \o new = g
  <2>1. Len(ln) + Len(new) = held + 1
    BY ONLY <1>5, <1>8, <1>9
  <2>2. ln \o new \in Seq(Char) /\ Len(ln \o new) = held + 1
    BY <1>11, <2>1
  <2>3. Len(ln \o new) = Len(g) /\ \A i \in 1 .. Len(ln \o new) : (ln \o new)[i] = g[i]
    BY <1>10, <1>12, <2>2
  <2> QED BY <1>10, <2>2, <2>3, SameSequence
<1>14. ln \o new = [i \in 1 .. held + 1 |-> b[(r + i - 1) % INPUT_BUF]]
  BY <1>13 DEF g
<1>15. held + 1 <= held + 1
  BY <1>5, SMT
<1> QED BY <1>1, <1>5, <1>6, <1>14, <1>15 DEF Ring, held

-----------------------------------------------------------------------------
(* Types. *)

PCs == {"forkret", "user", "read", "sleep", "slept", "relock", "nap", "ticks0",
        "write", "kill", "exit", "zombie"}

ProcType ==
    [state : {"RUNNABLE", "RUNNING", "SLEEPING", "ZOMBIE"},
     chan : {"none", "input", "tickslock"}, killed : BOOLEAN, pc : PCs,
     intena : BOOLEAN, n : Nat, got : Seq(Char), ticks0 : 0 .. UINT - 1,
     lk : {"input", "tickslock"},
     calls : SUBSET ({"read", "write", "sleep", "kill"} \X Nat)]

CpuType ==
    [on : Thread, iflag : BOOLEAN, ncli : Nat, intena : BOOLEAN,
     spin : Lock \cup {"no"}]

\* A machine that does not panic.
Machine ==
    [cpu : [CPU -> CpuType], lock : [Lock -> CPU \cup {NoCPU}], panic : {""}]

Frames ==
    [dev : {"none"}, step : {"none"}]
    \cup [dev : {"kbd", "uart"}, step : {"getc", "list", "listing", "wake", "tail"}]
    \cup [dev : {"timer"}, step : {"tick", "wake", "tail", "yield", "yielded"}]
    \cup [dev : {"yielded"}, step : {"tail"}]

Byte == [key : {"a", "d", "h", "u", "ret", "ctl", "shift", "caps", "E0"}, up : BOOLEAN]

InputType ==
    [buf : [0 .. INPUT_BUF - 1 -> Char],
     r : 0 .. UINT - 1, w : 0 .. UINT - 1, e : 0 .. UINT - 1]

DevType ==
    [kbd : Seq(Byte), uart : Seq(Char \cup {"CR", "^H", "DEL", "^U", "^P", "^R"}),
     down : SUBSET {"a", "d", "h", "u", "ret", "ctl", "rctl", "shift", "caps"},
     shift : SUBSET {"E0ESC", "CTL", "SHIFT", "CAPSLOCK"},
     todo : Seq(Event), ticks : Int]

DevicesType == input \in InputType /\ dev \in DevType /\ ticks \in 0 .. UINT - 1

TypeInv ==
    /\ m \in Machine
    /\ proc \in [Proc -> ProcType]
    /\ sched \in [CPU -> [pc : {"idle", "scan", "sti"}, at : Nat]]
    /\ irq \in [Thread -> Frames]
    /\ DevicesType

-----------------------------------------------------------------------------
(* What a thread has, by its place in the code. *)

\* Where thread t is: in a handler, or in its own code.
Base(t) == IF t \in Proc THEN proc[t].pc ELSE sched[t].pc
Pos(t) == IF irq[t] # NoFrame THEN irq[t].step ELSE Base(t)

\* The locks that it has or spins for.
LocksAt(pos, lk, d) ==
    IF pos \in {"forkret", "slept", "kill", "zombie", "scan", "yield", "yielded"}
    THEN {"ptable"}
    ELSE IF pos \in {"read", "getc", "listing"} THEN {"input"}
    ELSE IF pos \in {"nap", "ticks0", "tick"} THEN {"tickslock"}
    ELSE IF pos = "write" THEN {"cons"}
    ELSE IF pos = "list" THEN {"input", "cons"}
    ELSE IF pos = "sleep" THEN {lk, "ptable"}
    ELSE IF pos = "wake" THEN {IF d = "timer" THEN "tickslock" ELSE "input", "ptable"}
    ELSE {}
Locks(t) == LocksAt(Pos(t), IF t \in Proc THEN proc[t].lk ELSE "input", irq[t].dev)

\* How many pushcli() have no popcli() yet.
DepthAt(pos) ==
    IF pos \in {"list", "sleep", "wake"} THEN 2
    ELSE IF pos \in {"user", "relock", "exit", "tail", "idle", "sti"} THEN 0
    ELSE 1

\* What the interrupt flag is, or will be when no lock is held.
FlagAt(pos) ==
    IF pos \in {"user", "relock", "read", "sleep", "nap", "ticks0", "write", "kill", "idle"}
    THEN "on"
    ELSE IF pos \in {"getc", "listing", "list", "wake", "tick", "tail", "yield"} THEN "off"
    ELSE "any"

\* CPU c has these locks but for the one that it spins for, this depth and flag.
\* input.lock and tickslock are only taken first.
Fits(s, c, locks, depth, flag) ==
    LET k == s.cpu[c] IN
    /\ k.spin \in locks \cup {"no"}
    /\ \A l \in Lock : s.lock[l] = c <=> l \in locks /\ l # k.spin
    /\ k.ncli = depth
    /\ depth > 1 => k.spin \notin {"input", "tickslock"}
    /\ depth > 0 => ~k.iflag
    /\ flag = "on" => IF depth = 0 THEN k.iflag ELSE k.intena
    /\ flag = "off" => ~(IF depth = 0 THEN k.iflag ELSE k.intena)

Fit(c) == Fits(m, c, Locks(m.cpu[c].on), DepthAt(Pos(m.cpu[c].on)), FlagAt(Pos(m.cpu[c].on)))

CpuInv ==
    \A c \in CPU :
        /\ m.cpu[c].on \in Proc \cup {c}
        /\ Fit(c)
        /\ m.cpu[c].on # c => sched[c].pc = "scan"
        /\ irq[c] # NoFrame => sched[c].pc \in {"idle", "sti"}
        /\ irq[c].step \notin {"yield", "yielded"}

\* What process p has of its own: its lock and the flag that it wants back.
Own(p) ==
    /\ irq[p] # NoFrame => proc[p].pc \in {"user", "relock", "exit"}
    /\ proc[p].pc = "slept" => proc[p].intena
    /\ irq[p].step = "yielded" => ~proc[p].intena
    /\ proc[p].pc \in {"ticks0", "nap"} => proc[p].lk = "tickslock"
    /\ proc[p].lk = "tickslock" => proc[p].pc \in {"ticks0", "nap", "sleep", "slept", "relock"}

\* A process is on one CPU if it is RUNNING and on none otherwise.
PlaceInv ==
    /\ \A c, d \in CPU : m.cpu[c].on = m.cpu[d].on => c = d
    /\ \A p \in Proc :
          /\ Own(p)
          /\ proc[p].state = "RUNNING" <=> \E c \in CPU : m.cpu[c].on = p
          /\ proc[p].state = "RUNNABLE" => Pos(p) \in {"forkret", "slept", "yielded"}
          /\ proc[p].state = "SLEEPING" => Pos(p) = "slept" /\ proc[p].chan = proc[p].lk

\* The inductive invariant of the locks.
ConsoleInv == TypeInv /\ CpuInv /\ PlaceInv

-----------------------------------------------------------------------------
(* Locks, on any machine. *)

\* From s to u, nothing of the other CPUs changes.
Local(s, u, c) ==
    /\ u \in Machine
    /\ \A d \in CPU \ {c} : /\ u.cpu[d] = s.cpu[d]
                            /\ \A l \in Lock : u.lock[l] = d <=> s.lock[l] = d

\* Nor the thread that c executes.
Same(s, u, c) == Local(s, u, c) /\ u.cpu[c].on = s.cpu[c].on

\* What one CPU does to itself and its locks does not show on another.
LEMMA FitsElsewhere ==
  ASSUME NEW s, NEW u, NEW c \in CPU, NEW d \in CPU \ {c}, Local(s, u, c),
         NEW locks, NEW depth, NEW flag, Fits(s, d, locks, depth, flag)
  PROVE  Fits(u, d, locks, depth, flag)
BY DEF Local, Fits

\* Two steps of a CPU, neither of which changes what it executes.
LEMMA SameTwice ==
  ASSUME NEW s, NEW u, NEW v, NEW c \in CPU, Same(s, u, c), Same(u, v, c)
  PROVE  Same(s, v, c)
BY Zenon DEF Same, Local

\* pushcli() and popcli() keep the type of a CPU.
LEMMA CliType ==
  ASSUME NEW k \in CpuType, NEW i \in Nat, NEW f \in BOOLEAN, NEW b \in BOOLEAN
  PROVE  /\ [k EXCEPT !.iflag = f, !.ncli = i, !.intena = b] \in CpuType
         /\ [k EXCEPT !.ncli = i, !.iflag = f, !.intena = b] \in CpuType
BY Zenon DEF CpuType

\* pushcli() keeps the flag that the outermost call found.
LEMMA PushcliIs ==
  ASSUME NEW k \in CpuType
  PROVE  LET u == Pushcli(k) IN
         /\ u \in CpuType
         /\ u.on = k.on /\ u.spin = k.spin
         /\ u.iflag = FALSE
         /\ u.ncli = k.ncli + 1
         /\ u.intena = IF k.ncli = 0 THEN k.iflag ELSE k.intena
<1> USE Zenon
<1>1. k.ncli + 1 \in Nat
  BY SMT DEF CpuType
<1>2. (IF k.ncli = 0 THEN k.iflag ELSE k.intena) \in BOOLEAN
  BY DEF CpuType
<1>3. Pushcli(k) \in CpuType
  BY <1>1, <1>2, CliType DEF Pushcli
<1> QED BY <1>3 DEF Pushcli, CpuType

\* Changing one CPU, and one lock.
LEMMA SetCpu ==
  ASSUME NEW s \in Machine, NEW c \in CPU, NEW x \in CpuType
  PROVE  [s EXCEPT !.cpu[c] = x] \in Machine
BY Zenon DEF Machine

\* A CPU changes its state and takes a lock: types.
LEMMA SetBoth ==
  ASSUME NEW s \in Machine, NEW c \in CPU, NEW x \in CpuType, NEW k \in Lock
  PROVE  [s EXCEPT !.cpu[c] = x, !.lock[k] = c] \in Machine
BY Zenon DEF Machine

\* acquire() of a lock that the CPU does not have
LEMMA AcquireFits ==
  ASSUME NEW s \in Machine, NEW c \in CPU, NEW k \in Lock,
         NEW locks, NEW depth \in Nat, NEW flag, NEW after,
         Fits(s, c, locks, depth, flag), s.cpu[c].spin = "no",
         k \notin locks, after \in {flag, "any"},
         depth = 0 \/ k \in {"ptable", "cons"}
  PROVE  /\ Same(s, Acquire(s, c, k), c)
         /\ Fits(Acquire(s, c, k), c, locks \cup {k}, depth + 1, after)
<1> USE Zenon
<1> DEFINE u == Acquire(s, c, k)
<1>1. s.lock[k] # c
  BY DEF Fits
<1>2. s.cpu[c] \in CpuType /\ s.lock \in [Lock -> CPU \cup {NoCPU}] /\ s.cpu \in [CPU -> CpuType]
  BY DEF Machine
<1> DEFINE x == Pushcli(s.cpu[c])
<1>3. /\ x \in CpuType
      /\ x.on = s.cpu[c].on /\ x.spin = "no"
      /\ x.iflag = FALSE
      /\ x.ncli = depth + 1
      /\ x.intena = IF depth = 0 THEN s.cpu[c].iflag ELSE s.cpu[c].intena
  <2>1. s.cpu[c].ncli = depth
    BY DEF Fits
  <2> QED BY <2>1, <1>2, PushcliIs
<1> HIDE DEF x
<1>4. CASE s.lock[k] = NoCPU
  <2>1. u = [s EXCEPT !.cpu[c] = x, !.lock[k] = c]
    BY <1>1, <1>4 DEF Acquire, Holding, x
  <2>2. /\ u.cpu = [s.cpu EXCEPT ![c] = x]
        /\ u.lock = [s.lock EXCEPT ![k] = c]
    BY <2>1 DEF Machine
  <2>3. u \in Machine
    <3>1. [s EXCEPT !.cpu[c] = x, !.lock[k] = c] \in Machine
      BY <1>3, SetBoth
    <3> QED BY <2>1, <3>1
  <2>4. u.cpu[c] = x
    BY <2>2, <1>2
  <2>5. Same(s, u, c)
    BY <2>2, <2>3, <2>4, <1>2, <1>3, <1>4, ConsoleAssumption DEF Same, Local
  <2>6. \A l \in Lock : u.lock[l] = c <=> l \in locks \cup {k} /\ l # "no"
    BY <2>2, <1>2 DEF Fits, Lock
  <2>7. Fits(u, c, locks \cup {k}, depth + 1, after)
    BY <2>4, <2>6, <1>3, SMT DEF Fits
  <2> QED BY <2>5, <2>7
<1>5. CASE s.lock[k] # NoCPU
  <2> DEFINE y == [x EXCEPT !.spin = k]
  <2>1. u = [s EXCEPT !.cpu[c] = y]
    BY <1>1, <1>5 DEF Acquire, Holding, x
  <2>2. u.cpu = [s.cpu EXCEPT ![c] = y] /\ u.lock = s.lock
    BY <2>1 DEF Machine
  <2>3. /\ y \in CpuType /\ y.on = x.on /\ y.spin = k /\ y.iflag = x.iflag
        /\ y.ncli = x.ncli /\ y.intena = x.intena
    BY <1>3 DEF CpuType
  <2> HIDE DEF y
  <2>4. u \in Machine
    <3>1. [s EXCEPT !.cpu[c] = y] \in Machine
      BY <2>3, SetCpu
    <3> QED BY <2>1, <3>1
  <2>5. u.cpu[c] = y
    BY <2>2, <1>2
  <2>6. Same(s, u, c)
    BY <2>2, <2>3, <2>4, <2>5, <1>2, <1>3 DEF Same, Local
  <2>7. \A l \in Lock : u.lock[l] = c <=> l \in locks \cup {k} /\ l # k
    BY <2>2, <1>1 DEF Fits, Lock
  <2>8. Fits(u, c, locks \cup {k}, depth + 1, after)
    BY <2>3, <2>5, <2>7, <1>3, SMT DEF Fits
  <2> QED BY <2>6, <2>8
<1> QED BY <1>4, <1>5

\* release() of a lock that it has
LEMMA ReleaseFits ==
  ASSUME NEW s \in Machine, NEW c \in CPU, NEW k \in Lock,
         NEW locks, NEW depth \in Nat, NEW flag, NEW after,
         Fits(s, c, locks, depth, flag), s.cpu[c].spin = "no",
         k \in locks, depth > 0, after \in {flag, "any"}
  PROVE  /\ Same(s, Release(s, c, k), c)
         /\ Release(s, c, k).cpu[c].spin = "no"
         /\ Fits(Release(s, c, k), c, locks \ {k}, depth - 1, after)
<1> USE Zenon
<1> DEFINE u == Release(s, c, k)
           x == s.cpu[c]
           y == [x EXCEPT !.ncli = x.ncli - 1, !.iflag = x.ncli - 1 = 0 /\ x.intena,
                          !.intena = x.ncli - 1 > 0 /\ x.intena]
<1>1. s.lock[k] = c
  BY DEF Fits, Lock
<1>2. x \in CpuType /\ s.lock \in [Lock -> CPU \cup {NoCPU}] /\ s.cpu \in [CPU -> CpuType]
  BY DEF Machine
<1>3. x.ncli = depth /\ ~x.iflag
  BY DEF Fits
<1>4. y \in CpuType
  <2>1. x.ncli - 1 \in Nat /\ (x.ncli - 1 = 0 /\ x.intena) \in BOOLEAN /\ (x.ncli - 1 > 0 /\ x.intena) \in BOOLEAN
    BY <1>3, SMT
  <2> QED BY <2>1, <1>2, CliType
<1>5. [s EXCEPT !.lock[k] = NoCPU] \in Machine /\ [s EXCEPT !.lock[k] = NoCPU].cpu = s.cpu
  BY DEF Machine
<1>6. u = [[s EXCEPT !.lock[k] = NoCPU] EXCEPT !.cpu[c] = y]
  <2>1. ~(x.ncli - 1 < 0)
    BY <1>3, SMT
  <2> QED BY <1>1, <1>3, <1>5, <2>1 DEF Release, Popcli, Holding
<1>7. /\ u.cpu = [s.cpu EXCEPT ![c] = y]
      /\ u.lock = [s.lock EXCEPT ![k] = NoCPU]
  BY <1>6, <1>5 DEF Machine
<1>8. u \in Machine
  <2>1. [[s EXCEPT !.lock[k] = NoCPU] EXCEPT !.cpu[c] = y] \in Machine
    <3> HIDE DEF y
    <3> QED BY <1>4, <1>5, SetCpu
  <2> QED BY <1>6, <2>1
<1>9. Same(s, u, c)
  BY <1>7, <1>8, <1>2, <1>1, ConsoleAssumption, SMT DEF Same, Local, CpuType
<1>10. u.cpu[c] = y
  BY <1>7, <1>2
<1>11. Fits(u, c, locks \ {k}, depth - 1, after) /\ u.cpu[c].spin = "no"
  <2>1. y.ncli = depth - 1 /\ y.spin = "no" /\ y.iflag = (depth - 1 = 0 /\ x.intena)
        /\ y.intena = (depth - 1 > 0 /\ x.intena)
    BY <1>2, <1>3 DEF CpuType
  <2>2. \A l \in Lock : u.lock[l] = c <=> l \in locks \ {k}
    BY <1>7, <1>2, ConsoleAssumption, SMT DEF Fits, Lock
  <2> QED BY <2>1, <2>2, <1>10, <1>2, SMT DEF Fits, Lock, CpuType
<1> QED BY <1>9, <1>11

\* Changes of a flag, and the switch to another thread
LEMMA FlagFits ==
  ASSUME NEW s \in Machine, NEW c \in CPU, NEW f \in BOOLEAN, NEW flag, NEW after,
         Fits(s, c, {}, 0, flag), after \in {"any", IF f THEN "on" ELSE "off"}
  PROVE  /\ Same(s, [s EXCEPT !.cpu[c].iflag = f], c)
         /\ Fits([s EXCEPT !.cpu[c].iflag = f], c, {}, 0, after)
         /\ [s EXCEPT !.cpu[c].iflag = f].cpu[c].spin = "no"
<1> USE Zenon
<1> DEFINE x == [s.cpu[c] EXCEPT !.iflag = f]
           u == [s EXCEPT !.cpu[c] = x]
<1>1. s.cpu \in [CPU -> CpuType] /\ s.cpu[c] \in CpuType
  BY DEF Machine
<1>2. /\ x \in CpuType /\ x.on = s.cpu[c].on /\ x.spin = s.cpu[c].spin /\ x.iflag = f
      /\ x.ncli = s.cpu[c].ncli /\ x.intena = s.cpu[c].intena
  BY <1>1 DEF CpuType
<1>3. u = [s EXCEPT !.cpu[c].iflag = f]
  OBVIOUS
<1> HIDE DEF x
<1>4. u \in Machine /\ u.cpu = [s.cpu EXCEPT ![c] = x] /\ u.lock = s.lock
  BY <1>2, SetCpu DEF Machine
<1>5. u.cpu[c] = x
  BY <1>1, <1>4
<1>6. Same(s, u, c)
  BY <1>1, <1>2, <1>4, <1>5 DEF Same, Local
<1>7. Fits(u, c, {}, 0, after) /\ u.cpu[c].spin = "no"
  BY <1>2, <1>4, <1>5, SMT DEF Fits
<1> QED BY <1>3, <1>6, <1>7

\* One level deep, what is written to intena is what the flag will be.
LEMMA IntenaFits ==
  ASSUME NEW s \in Machine, NEW c \in CPU, NEW f \in BOOLEAN, NEW locks, NEW flag, NEW after,
         Fits(s, c, locks, 1, flag), after \in {"any", IF f THEN "on" ELSE "off"}
  PROVE  /\ Same(s, [s EXCEPT !.cpu[c].intena = f], c)
         /\ Fits([s EXCEPT !.cpu[c].intena = f], c, locks, 1, after)
         /\ [s EXCEPT !.cpu[c].intena = f].cpu[c].spin = s.cpu[c].spin
<1> USE Zenon
<1> DEFINE x == [s.cpu[c] EXCEPT !.intena = f]
           u == [s EXCEPT !.cpu[c] = x]
<1>1. s.cpu \in [CPU -> CpuType] /\ s.cpu[c] \in CpuType
  BY DEF Machine
<1>2. /\ x \in CpuType /\ x.on = s.cpu[c].on /\ x.spin = s.cpu[c].spin /\ x.intena = f
      /\ x.ncli = s.cpu[c].ncli /\ x.iflag = s.cpu[c].iflag
  BY <1>1 DEF CpuType
<1>3. u = [s EXCEPT !.cpu[c].intena = f]
  OBVIOUS
<1> HIDE DEF x
<1>4. u \in Machine /\ u.cpu = [s.cpu EXCEPT ![c] = x] /\ u.lock = s.lock
  BY <1>2, SetCpu DEF Machine
<1>5. u.cpu[c] = x
  BY <1>1, <1>4
<1>6. Same(s, u, c)
  BY <1>1, <1>2, <1>4, <1>5 DEF Same, Local
<1>7. Fits(u, c, locks, 1, after) /\ u.cpu[c].spin = s.cpu[c].spin
  BY <1>2, <1>4, <1>5, SMT DEF Fits
<1> QED BY <1>3, <1>6, <1>7

\* swtch() keeps the locks and the depth; what intena means afterwards is for
\* the new thread to say.
LEMMA SwitchFits ==
  ASSUME NEW s \in Machine, NEW c \in CPU, NEW t \in Thread,
         NEW locks, NEW depth, NEW flag, Fits(s, c, locks, depth, flag)
  PROVE  /\ Local(s, [s EXCEPT !.cpu[c].on = t], c)
         /\ [s EXCEPT !.cpu[c].on = t].cpu[c].on = t
         /\ Fits([s EXCEPT !.cpu[c].on = t], c, locks, depth, "any")
<1> USE Zenon
<1> DEFINE x == [s.cpu[c] EXCEPT !.on = t]
           u == [s EXCEPT !.cpu[c] = x]
<1>1. s.cpu \in [CPU -> CpuType] /\ s.cpu[c] \in CpuType
  BY DEF Machine
<1>2. /\ x \in CpuType /\ x.on = t /\ x.spin = s.cpu[c].spin /\ x.intena = s.cpu[c].intena
      /\ x.ncli = s.cpu[c].ncli /\ x.iflag = s.cpu[c].iflag
  BY <1>1 DEF CpuType
<1>3. u = [s EXCEPT !.cpu[c].on = t]
  OBVIOUS
<1> HIDE DEF x
<1>4. u \in Machine /\ u.cpu = [s.cpu EXCEPT ![c] = x] /\ u.lock = s.lock
  BY <1>2, SetCpu DEF Machine
<1>5. u.cpu[c] = x
  BY <1>1, <1>4
<1>6. Local(s, u, c)
  BY <1>1, <1>2, <1>4, <1>5 DEF Local
<1>7. Fits(u, c, locks, depth, "any")
  BY <1>2, <1>4, <1>5 DEF Fits
<1> QED BY <1>2, <1>3, <1>5, <1>6, <1>7

\* sched() with ptable.lock and no other
LEMMA SchedFits ==
  ASSUME NEW s \in Machine, NEW c \in CPU, NEW flag,
         Fits(s, c, {"ptable"}, 1, flag), s.cpu[c].spin = "no"
  PROVE  /\ Local(s, Sched(s, c), c)
         /\ Sched(s, c).cpu[c].on = c
         /\ Fits(Sched(s, c), c, {"ptable"}, 1, "any")
<1> USE Zenon
<1>1. s.lock["ptable"] = c /\ s.cpu[c].ncli = 1 /\ ~s.cpu[c].iflag
  BY SMT DEF Fits, Lock
<1>2. Sched(s, c) = [s EXCEPT !.cpu[c].on = c]
  BY <1>1 DEF Sched, Holding
<1>3. c \in Thread
  BY DEF Thread
<1>4. /\ Local(s, [s EXCEPT !.cpu[c].on = c], c)
      /\ [s EXCEPT !.cpu[c].on = c].cpu[c].on = c
      /\ Fits([s EXCEPT !.cpu[c].on = c], c, {"ptable"}, 1, "any")
  BY <1>3, SwitchFits
<1> QED BY <1>2, <1>4

-----------------------------------------------------------------------------
(* A step of one CPU, in terms of the place of its thread. *)

\* No scheduler is a process.
LEMMA Threads ==
  /\ Proc \subseteq Thread /\ CPU \subseteq Thread
  /\ \A c \in CPU : c \notin Proc
BY ConsoleAssumption, Zenon DEF Thread

\* Thread u stays where it is.
Still(u) ==
    /\ irq'[u] = irq[u]
    /\ u \in Proc => proc'[u].pc = proc[u].pc /\ proc'[u].lk = proc[u].lk
    /\ u \notin Proc => sched'[u].pc = sched[u].pc

\* A thread whose place is kept has the same locks.
LEMMA StillThere ==
  ASSUME NEW u, Still(u)
  PROVE  Pos(u)' = Pos(u) /\ Locks(u)' = Locks(u)
BY Zenon DEF Still, Pos, Base, Locks

\* The CPUs, when only the thread of c moves
LEMMA CpuStep ==
  ASSUME CpuInv, PlaceInv, NEW c \in CPU, Local(m, m', c),
         \A u \in Thread \ {m.cpu[c].on} : Still(u),
         m'.cpu[c].on \in Proc \cup {c}, Fit(c)',
         m'.cpu[c].on # c => sched'[c].pc = "scan",
         irq'[c] # NoFrame => sched'[c].pc \in {"idle", "sti"},
         irq'[c].step \notin {"yield", "yielded"}
  PROVE  CpuInv'
<1> USE Zenon
<1> SUFFICES ASSUME NEW d \in CPU \ {c}
             PROVE  /\ m'.cpu[d].on \in Proc \cup {d}
                    /\ Fit(d)'
                    /\ m'.cpu[d].on # d => sched'[d].pc = "scan"
                    /\ irq'[d] # NoFrame => sched'[d].pc \in {"idle", "sti"}
                    /\ irq'[d].step \notin {"yield", "yielded"}
  BY DEF CpuInv
<1> DEFINE t == m.cpu[d].on
<1>1. t \in Thread \ {m.cpu[c].on} /\ m'.cpu[d].on = t /\ t \in Proc \cup {d}
  <2>1. t \in Proc \cup {d} /\ m'.cpu[d].on = t
    BY DEF CpuInv, Local
  <2>2. t # m.cpu[c].on
    BY DEF PlaceInv
  <2> QED BY <2>1, <2>2, Threads
<1>2. d \in Thread \ {m.cpu[c].on} /\ d \notin Proc
  BY Threads DEF CpuInv
<1>3. irq'[d] = irq[d] /\ sched'[d].pc = sched[d].pc
  BY <1>2 DEF Still
<1>4. Pos(t)' = Pos(t) /\ Locks(t)' = Locks(t)
  BY <1>1, StillThere
<1>5. Fits(m, d, Locks(t), DepthAt(Pos(t)), FlagAt(Pos(t)))
  BY DEF CpuInv, Fit
<1>6. Fits(m', d, Locks(t), DepthAt(Pos(t)), FlagAt(Pos(t)))
  BY <1>5, FitsElsewhere
<1>7. Fit(d)'
  BY <1>1, <1>4, <1>6 DEF Fit
<1> QED BY <1>1, <1>3, <1>7 DEF CpuInv

\* Process q does nothing, but may be made RUNNABLE.
Idle(q) ==
    /\ proc'[q].pc = proc[q].pc /\ proc'[q].lk = proc[q].lk
    /\ proc'[q].chan = proc[q].chan /\ proc'[q].intena = proc[q].intena
    /\ \/ proc'[q].state = proc[q].state
       \/ proc[q].state = "SLEEPING" /\ proc'[q].state = "RUNNABLE"

Calm(q) == irq'[q] = irq[q] /\ Idle(q)

\* A process that is left alone keeps its place and what belongs to it.
LEMMA CalmOwn ==
  ASSUME NEW q \in Proc, Calm(q), Own(q)
  PROVE  Own(q)' /\ Pos(q)' = Pos(q)
BY Zenon DEF Calm, Idle, Own, Pos, Base

\* Where processes are, when the CPU goes on with the thread that it executes
LEMMA PlaceStep ==
  ASSUME PlaceInv, NEW c \in CPU, NEW t \in Thread, m.cpu[c].on = t, Same(m, m', c),
         \A q \in Proc \ {t} : Calm(q),
         t \in Proc => proc'[t].state = "RUNNING" /\ Own(t)'
  PROVE  PlaceInv'
<1> USE Zenon
<1>1. \A d \in CPU : m'.cpu[d].on = m.cpu[d].on
  BY DEF Same, Local
<1>2. \A a, b \in CPU : m'.cpu[a].on = m'.cpu[b].on => a = b
  BY <1>1, SMT DEF PlaceInv
<1> SUFFICES ASSUME NEW p \in Proc
             PROVE  /\ Own(p)'
                    /\ proc'[p].state = "RUNNING" <=> \E d \in CPU : m'.cpu[d].on = p
                    /\ proc'[p].state = "RUNNABLE" => Pos(p)' \in {"forkret", "slept", "yielded"}
                    /\ proc'[p].state = "SLEEPING" => Pos(p)' = "slept" /\ proc'[p].chan = proc'[p].lk
  BY <1>2 DEF PlaceInv
<1>3. CASE p = t
  BY <1>1, <1>3
<1>4. CASE p # t
  <2>1. Own(p)' /\ Pos(p)' = Pos(p) /\ Calm(p)
    BY <1>4, CalmOwn DEF PlaceInv
  <2>2. /\ proc[p].state = "RUNNING" <=> \E d \in CPU : m.cpu[d].on = p
        /\ proc[p].state = "RUNNABLE" => Pos(p) \in {"forkret", "slept", "yielded"}
        /\ proc[p].state = "SLEEPING" => Pos(p) = "slept" /\ proc[p].chan = proc[p].lk
    BY DEF PlaceInv
  <2>3. \/ proc'[p].state = proc[p].state
        \/ proc[p].state = "SLEEPING" /\ proc'[p].state = "RUNNABLE"
    BY <2>1 DEF Calm, Idle
  <2>4. proc'[p].chan = proc[p].chan /\ proc'[p].lk = proc[p].lk
    BY <2>1 DEF Calm, Idle
  <2> QED BY <1>1, <2>1, <2>2, <2>3, <2>4
<1> QED BY <1>3, <1>4

\* What is known of a CPU that is in the code of process p
LEMMA AtFits ==
  ASSUME ConsoleInv, NEW c \in CPU, NEW p \in Proc, NEW pc, At(c, p, pc)
  PROVE  /\ m \in Machine /\ m.cpu[c].on = p /\ m.cpu[c].spin = "no"
         /\ irq[p] = NoFrame /\ proc[p].pc = pc /\ proc[p] \in ProcType
         /\ proc[p].state = "RUNNING" /\ Own(p)
         /\ Fits(m, c, LocksAt(pc, proc[p].lk, "none"), DepthAt(pc), FlagAt(pc))
<1> USE Zenon
<1>1. m.cpu[c].on = p /\ m.cpu[c].spin = "no" /\ irq[p] = NoFrame /\ proc[p].pc = pc
  BY DEF At, Executes
<1>2. Pos(p) = pc /\ Locks(p) = LocksAt(pc, proc[p].lk, "none")
  <2>1. irq[p].dev = "none"
    BY <1>1, SMT DEF NoFrame
  <2>2. Pos(p) = pc
    BY <1>1 DEF Pos, Base
  <2> QED BY <2>1, <2>2 DEF Locks
<1>3. Fits(m, c, LocksAt(pc, proc[p].lk, "none"), DepthAt(pc), FlagAt(pc))
  BY <1>1, <1>2 DEF ConsoleInv, CpuInv, Fit
<1>4. proc[p].state = "RUNNING" /\ Own(p)
  BY <1>1 DEF ConsoleInv, PlaceInv
<1>5. m \in Machine /\ proc[p] \in ProcType
  BY DEF ConsoleInv, TypeInv
<1> QED BY <1>1, <1>3, <1>4, <1>5

\* in the scheduler
LEMMA SchedulerFits ==
  ASSUME ConsoleInv, NEW c \in CPU, Executes(c, c), irq[c] = NoFrame
  PROVE  /\ m \in Machine /\ m.cpu[c].on = c /\ m.cpu[c].spin = "no"
         /\ Fits(m, c, LocksAt(sched[c].pc, "input", "none"), DepthAt(sched[c].pc), FlagAt(sched[c].pc))
<1> USE Zenon
<1>1. m.cpu[c].on = c /\ m.cpu[c].spin = "no"
  BY DEF Executes
<1>2. Pos(c) = sched[c].pc /\ Locks(c) = LocksAt(sched[c].pc, "input", "none")
  <2>1. irq[c].dev = "none"
    BY SMT DEF NoFrame
  <2>2. Pos(c) = sched[c].pc
    BY Threads DEF Pos, Base
  <2> QED BY <2>1, <2>2, Threads DEF Locks
<1>3. Fits(m, c, LocksAt(sched[c].pc, "input", "none"), DepthAt(sched[c].pc), FlagAt(sched[c].pc))
  BY <1>1, <1>2, SMT DEF ConsoleInv, CpuInv, Fit
<1> QED BY <1>1, <1>3 DEF ConsoleInv, TypeInv

\* The lock that a process sleeps with makes no difference in a handler.
LEMMA HandlerLocks ==
  ASSUME NEW f \in Frames, NEW lk
  PROVE  f # NoFrame => LocksAt(f.step, lk, f.dev) = LocksAt(f.step, "input", f.dev)
<1> USE Zenon
<1>1. f # NoFrame => f.step # "sleep"
  BY DEF Frames, NoFrame
<1> QED BY <1>1 DEF LocksAt

\* in a handler
LEMMA HandlerFits ==
  ASSUME ConsoleInv, NEW c \in CPU, NEW t \in Thread, NEW step, step # "none", InHandler(c, t, step)
  PROVE  /\ m \in Machine /\ m.cpu[c].on = t /\ m.cpu[c].spin = "no"
         /\ t \in Proc \cup {c}
         /\ irq[t] \in Frames /\ irq[t] # NoFrame /\ irq[t].step = step
         /\ Fits(m, c, LocksAt(step, "input", irq[t].dev), DepthAt(step), FlagAt(step))
<1> USE Zenon
<1>1. m.cpu[c].on = t /\ m.cpu[c].spin = "no" /\ irq[t].step = step /\ irq[t] # NoFrame
  <2>1. m.cpu[c].on = t /\ m.cpu[c].spin = "no" /\ irq[t].step = step
    BY DEF InHandler, Executes
  <2>2. NoFrame.step = "none"
    BY DEF NoFrame
  <2> QED BY <2>1, <2>2
<1>2. m \in Machine /\ irq[t] \in Frames
  BY DEF ConsoleInv, TypeInv
<1>3. Pos(t) = step
  BY <1>1 DEF Pos
<1>4. Locks(t) = LocksAt(step, "input", irq[t].dev)
  BY <1>1, <1>2, <1>3, HandlerLocks DEF Locks
<1>5. Fits(m, c, LocksAt(step, "input", irq[t].dev), DepthAt(step), FlagAt(step)) /\ t \in Proc \cup {c}
  BY <1>1, <1>3, <1>4 DEF ConsoleInv, CpuInv, Fit
<1> QED BY <1>1, <1>2, <1>5

\* A step of the code of a process keeps the invariant if what the CPU has after
\* it fits the new place.
LEMMA ProcStep ==
  ASSUME ConsoleInv, NEW c \in CPU, NEW p \in Proc, m.cpu[c].on = p, irq[p] = NoFrame,
         NEW r \in ProcType, proc' \in [Proc -> ProcType], proc'[p] = r,
         \A q \in Proc \ {p} : Idle(q),
         r.state = "RUNNING", r.pc # "slept",
         r.pc \in {"ticks0", "nap"} => r.lk = "tickslock",
         r.lk = "tickslock" => r.pc \in {"ticks0", "nap", "sleep", "relock"},
         Same(m, m', c),
         Fits(m', c, LocksAt(r.pc, r.lk, "none"), DepthAt(r.pc), FlagAt(r.pc)),
         sched' = sched, irq' = irq, DevicesType'
  PROVE  ConsoleInv'
<1> USE Zenon
<1>1. proc \in [Proc -> ProcType] /\ irq \in [Thread -> Frames]
  BY DEF ConsoleInv, TypeInv
<1>3. TypeInv'
  BY DEF ConsoleInv, TypeInv, Same, Local
<1>4. Pos(p)' = r.pc /\ Locks(p)' = LocksAt(r.pc, r.lk, "none")
  <2>1. irq'[p].dev = "none"
    BY SMT DEF NoFrame
  <2>2. Pos(p)' = r.pc
    BY DEF Pos, Base
  <2> QED BY <2>1, <2>2 DEF Locks
<1>5. m'.cpu[c].on = p
  BY DEF Same
<1>6. Fit(c)'
  BY <1>4, <1>5 DEF Fit
<1>7. \A u \in Thread \ {p} : Still(u)
  BY DEF Still, Idle
<1>8. CpuInv'
  BY <1>5, <1>6, <1>7, CpuStep DEF ConsoleInv, CpuInv, Same
<1>9. \A q \in Proc \ {p} : Calm(q)
  BY DEF Calm
<1>10. Own(p)'
  BY SMT DEF Own, NoFrame
<1>11. PlaceInv'
  <2>1. PlaceInv /\ p \in Thread
    BY Threads DEF ConsoleInv
  <2> QED BY <1>9, <1>10, <2>1, PlaceStep
<1> QED BY <1>3, <1>8, <1>11 DEF ConsoleInv

\* A step in a handler, which may make processes RUNNABLE
LEMMA HandlerStep ==
  ASSUME ConsoleInv, NEW c \in CPU, NEW t \in Thread, m.cpu[c].on = t,
         NEW f \in Frames, f # NoFrame, irq' = [irq EXCEPT ![t] = f],
         f.step # "yielded", f.step = "yield" => t \in Proc,
         t \in Proc => proc[t].pc \in {"user", "relock", "exit"},
         t \notin Proc => sched[t].pc \in {"idle", "sti"},
         proc' \in [Proc -> ProcType],
         \A q \in Proc : Idle(q),
         Same(m, m', c),
         Fits(m', c, LocksAt(f.step, "input", f.dev), DepthAt(f.step), FlagAt(f.step)),
         sched' = sched, DevicesType'
  PROVE  ConsoleInv'
<1> USE Zenon
<1>1. proc \in [Proc -> ProcType] /\ irq \in [Thread -> Frames]
  BY DEF ConsoleInv, TypeInv
<1>2. irq' \in [Thread -> Frames] /\ irq'[t] = f /\ \A u \in Thread \ {t} : irq'[u] = irq[u]
  BY <1>1
<1>3. TypeInv'
  BY <1>2 DEF ConsoleInv, TypeInv, Same, Local
<1>4. Pos(t)' = f.step /\ Locks(t)' = LocksAt(f.step, "input", f.dev)
  BY <1>2, HandlerLocks DEF Pos, Locks
<1>5. m'.cpu[c].on = t
  BY DEF Same
<1>6. Fit(c)'
  BY <1>4, <1>5 DEF Fit
<1>7. \A u \in Thread \ {t} : Still(u)
  BY <1>2 DEF Still, Idle
<1>8. t \in Proc \cup {c}
  BY DEF ConsoleInv, CpuInv
<1>9. /\ irq'[c] # NoFrame => sched'[c].pc \in {"idle", "sti"}
      /\ irq'[c].step \notin {"yield", "yielded"}
  <2>1. CASE t = c
    BY <2>1, <1>2, Threads
  <2>2. CASE t # c
    BY <2>2, <1>2, Threads DEF ConsoleInv, CpuInv
  <2> QED BY <2>1, <2>2
<1>10. CpuInv'
  <2>1. m'.cpu[c].on # c => sched'[c].pc = "scan"
    BY <1>5 DEF ConsoleInv, CpuInv
  <2>2. Local(m, m', c) /\ CpuInv /\ PlaceInv
    BY DEF ConsoleInv, Same
  <2> QED BY <1>5, <1>6, <1>7, <1>8, <1>9, <2>1, <2>2, CpuStep
<1>11. \A q \in Proc \ {t} : Calm(q)
  BY <1>2, Threads DEF Calm
<1>12. t \in Proc => proc'[t].state = "RUNNING" /\ Own(t)'
  <2> SUFFICES ASSUME t \in Proc
               PROVE  proc'[t].state = "RUNNING" /\ Own(t)'
    OBVIOUS
  <2>1. proc[t].state = "RUNNING" /\ Own(t)
    BY DEF ConsoleInv, PlaceInv
  <2>2. proc'[t].pc = proc[t].pc /\ proc'[t].lk = proc[t].lk /\ irq'[t] = f
    BY <1>2 DEF Idle
  <2>3. proc'[t].state = "RUNNING"
    BY <2>1 DEF Idle
  <2> QED BY <2>1, <2>2, <2>3 DEF Own
<1>13. PlaceInv'
  BY <1>11, <1>12, PlaceStep DEF ConsoleInv
<1> QED BY <1>3, <1>10, <1>13 DEF ConsoleInv

-----------------------------------------------------------------------------
(* The code of processes. *)

\* Only the record of p changes.
LEMMA OneProc ==
  ASSUME ConsoleInv, NEW p \in Proc, NEW r \in ProcType, proc' = [proc EXCEPT ![p] = r]
  PROVE  /\ proc' \in [Proc -> ProcType] /\ proc'[p] = r
         /\ \A q \in Proc \ {p} : Idle(q)
<1> USE Zenon
<1>1. proc \in [Proc -> ProcType]
  BY DEF ConsoleInv, TypeInv
<1> QED BY <1>1 DEF Idle

\* Devices that are left alone: types.
LEMMA DevicesSame ==
  ASSUME ConsoleInv, UNCHANGED <<input, dev, ticks>>
  PROVE  DevicesType'
BY Zenon DEF ConsoleInv, TypeInv, DevicesType

\* The place r.pc that a process comes to fits the lock that it sleeps with.
Placed(r) ==
    /\ r.state = "RUNNING" /\ r.pc # "slept"
    /\ r.pc \in {"ticks0", "nap"} => r.lk = "tickslock"
    /\ r.lk = "tickslock" => r.pc \in {"ticks0", "nap", "sleep", "relock"}

\* A step from one place to another that changes no lock
LEMMA PlainStep ==
  ASSUME ConsoleInv, NEW c \in CPU, NEW p \in Proc, NEW pc, At(c, p, pc),
         NEW r \in ProcType, proc' = [proc EXCEPT ![p] = r], Placed(r),
         m' = m, sched' = sched, irq' = irq, DevicesType',
         LocksAt(r.pc, r.lk, "none") = LocksAt(pc, proc[p].lk, "none"),
         DepthAt(r.pc) = DepthAt(pc), FlagAt(r.pc) \in {FlagAt(pc), "any"}
  PROVE  ConsoleInv'
<1> USE Zenon
<1>1. /\ m \in Machine /\ m.cpu[c].on = p /\ irq[p] = NoFrame
      /\ Fits(m, c, LocksAt(pc, proc[p].lk, "none"), DepthAt(pc), FlagAt(pc))
  BY AtFits
<1>2. Same(m, m', c)
  BY <1>1 DEF Same, Local
<1>3. Fits(m', c, LocksAt(r.pc, r.lk, "none"), DepthAt(r.pc), FlagAt(r.pc))
  BY <1>1 DEF Fits
<1> QED BY <1>1, <1>2, <1>3, OneProc, ProcStep DEF Placed

\* one that ends in acquire()
LEMMA AcquireStep ==
  ASSUME ConsoleInv, NEW c \in CPU, NEW p \in Proc, NEW pc, At(c, p, pc),
         NEW r \in ProcType, proc' = [proc EXCEPT ![p] = r], Placed(r),
         NEW k \in Lock, m' = Acquire(m, c, k), sched' = sched, irq' = irq, DevicesType',
         k \notin LocksAt(pc, proc[p].lk, "none"), DepthAt(pc) \in Nat,
         DepthAt(pc) = 0 \/ k \in {"ptable", "cons"},
         LocksAt(r.pc, r.lk, "none") = LocksAt(pc, proc[p].lk, "none") \cup {k},
         DepthAt(r.pc) = DepthAt(pc) + 1, FlagAt(r.pc) \in {FlagAt(pc), "any"}
  PROVE  ConsoleInv'
<1> USE Zenon
<1>1. /\ m \in Machine /\ m.cpu[c].on = p /\ m.cpu[c].spin = "no" /\ irq[p] = NoFrame
      /\ Fits(m, c, LocksAt(pc, proc[p].lk, "none"), DepthAt(pc), FlagAt(pc))
  BY AtFits
<1>2. /\ Same(m, m', c)
      /\ Fits(m', c, LocksAt(r.pc, r.lk, "none"), DepthAt(r.pc), FlagAt(r.pc))
  <2>1. /\ Same(m, Acquire(m, c, k), c)
        /\ Fits(Acquire(m, c, k), c, LocksAt(pc, proc[p].lk, "none") \cup {k}, DepthAt(pc) + 1, FlagAt(r.pc))
    BY <1>1, AcquireFits
  <2> QED BY <2>1
<1> QED BY <1>1, <1>2, OneProc, ProcStep DEF Placed

\* one that ends in release()
LEMMA ReleaseStep ==
  ASSUME ConsoleInv, NEW c \in CPU, NEW p \in Proc, NEW pc, At(c, p, pc),
         NEW r \in ProcType, proc' \in [Proc -> ProcType], proc'[p] = r,
         \A q \in Proc \ {p} : Idle(q), Placed(r),
         NEW k \in Lock, m' = Release(m, c, k), sched' = sched, irq' = irq, DevicesType',
         k \in LocksAt(pc, proc[p].lk, "none"), DepthAt(pc) \in Nat, DepthAt(pc) > 0,
         LocksAt(r.pc, r.lk, "none") = LocksAt(pc, proc[p].lk, "none") \ {k},
         DepthAt(r.pc) = DepthAt(pc) - 1, FlagAt(r.pc) \in {FlagAt(pc), "any"}
  PROVE  ConsoleInv'
<1> USE Zenon
<1>1. /\ m \in Machine /\ m.cpu[c].on = p /\ m.cpu[c].spin = "no" /\ irq[p] = NoFrame
      /\ Fits(m, c, LocksAt(pc, proc[p].lk, "none"), DepthAt(pc), FlagAt(pc))
  BY AtFits
<1>2. /\ Same(m, m', c)
      /\ Fits(m', c, LocksAt(r.pc, r.lk, "none"), DepthAt(r.pc), FlagAt(r.pc))
  <2>1. /\ Same(m, Release(m, c, k), c)
        /\ Fits(Release(m, c, k), c, LocksAt(pc, proc[p].lk, "none") \ {k}, DepthAt(pc) - 1, FlagAt(r.pc))
    BY <1>1, ReleaseFits
  <2> QED BY <2>1
<1> QED BY <1>1, <1>2, ProcStep DEF Placed

\* The rows of the tables that they use
LEMMA Places ==
  /\ \A lk : /\ LocksAt("user", lk, "none") = {} /\ LocksAt("relock", lk, "none") = {}
             /\ LocksAt("exit", lk, "none") = {} /\ LocksAt("kill", lk, "none") = {"ptable"}
             /\ LocksAt("zombie", lk, "none") = {"ptable"} /\ LocksAt("forkret", lk, "none") = {"ptable"}
             /\ LocksAt("slept", lk, "none") = {"ptable"} /\ LocksAt("read", lk, "none") = {"input"}
             /\ LocksAt("ticks0", lk, "none") = {"tickslock"} /\ LocksAt("nap", lk, "none") = {"tickslock"}
             /\ LocksAt("write", lk, "none") = {"cons"} /\ LocksAt("sleep", lk, "none") = {lk, "ptable"}
  /\ \A pc \in {"user", "relock", "exit"} : DepthAt(pc) = 0
  /\ \A pc \in {"kill", "zombie", "forkret", "slept", "read", "ticks0", "nap", "write"} : DepthAt(pc) = 1
  /\ DepthAt("sleep") = 2
  /\ \A pc \in {"user", "relock", "kill", "read", "sleep", "ticks0", "nap", "write"} : FlagAt(pc) = "on"
  /\ \A pc \in {"forkret", "slept", "exit", "zombie"} : FlagAt(pc) = "any"
<1> USE Zenon
<1>1. \A lk : /\ LocksAt("user", lk, "none") = {} /\ LocksAt("relock", lk, "none") = {}
              /\ LocksAt("exit", lk, "none") = {} /\ LocksAt("kill", lk, "none") = {"ptable"}
              /\ LocksAt("zombie", lk, "none") = {"ptable"} /\ LocksAt("forkret", lk, "none") = {"ptable"}
              /\ LocksAt("slept", lk, "none") = {"ptable"} /\ LocksAt("read", lk, "none") = {"input"}
  BY DEF LocksAt
<1>2. \A lk : /\ LocksAt("ticks0", lk, "none") = {"tickslock"} /\ LocksAt("nap", lk, "none") = {"tickslock"}
              /\ LocksAt("write", lk, "none") = {"cons"} /\ LocksAt("sleep", lk, "none") = {lk, "ptable"}
  BY DEF LocksAt
<1> QED BY <1>1, <1>2 DEF DepthAt, FlagAt

\* Updates of the record of a process
LEMMA PcType ==
  ASSUME NEW r \in ProcType, NEW pc \in PCs
  PROVE  LET u == [r EXCEPT !.pc = pc] IN
         u \in ProcType /\ u.pc = pc /\ u.lk = r.lk /\ u.state = r.state
BY Zenon DEF ProcType

\* A process moves on with a new count: types.
LEMMA PcNType ==
  ASSUME NEW r \in ProcType, NEW pc \in PCs, NEW n \in Nat
  PROVE  LET u == [r EXCEPT !.pc = pc, !.n = n] IN
         u \in ProcType /\ u.pc = pc /\ u.lk = r.lk /\ u.state = r.state
BY Zenon DEF ProcType

\* Outside of the calls that sleep, lk is as Init and End() set it.
LEMMA InputLock ==
  ASSUME NEW p \in Proc, Own(p), proc[p] \in ProcType,
         proc[p].pc \notin {"ticks0", "nap", "sleep", "slept", "relock"}
  PROVE  proc[p].lk = "input"
BY Zenon DEF Own, ProcType

\* exit() takes ptable.lock.
LEMMA ExitInv ==
  ASSUME ConsoleInv, NEW c \in CPU, NEW p \in Proc, Exit(c, p)
  PROVE  ConsoleInv'
<1> USE Zenon
<1> DEFINE r == [proc[p] EXCEPT !.pc = "zombie"]
<1>1. At(c, p, "exit") /\ m' = Acquire(m, c, "ptable") /\ UNCHANGED <<sched, irq, input, dev, ticks, line>>
  BY DEF Exit
<1>2. proc' = [proc EXCEPT ![p] = r]
  BY DEF Exit
<1>3. proc[p] \in ProcType /\ proc[p].state = "RUNNING" /\ Own(p) /\ proc[p].pc = "exit"
  BY <1>1, AtFits, ZenonT(60)
<1>4. r \in ProcType /\ r.pc = "zombie" /\ r.lk = proc[p].lk /\ r.state = "RUNNING"
  BY <1>3, PcType DEF PCs
<1> HIDE DEF r
<1>5. Placed(r)
  BY <1>3, <1>4, InputLock DEF Placed
<1>6. /\ "ptable" \in Lock /\ "ptable" \notin LocksAt("exit", proc[p].lk, "none")
      /\ LocksAt(r.pc, r.lk, "none") = LocksAt("exit", proc[p].lk, "none") \cup {"ptable"}
  BY <1>4, Places DEF Lock
<1>7. /\ DepthAt("exit") \in Nat /\ DepthAt(r.pc) = DepthAt("exit") + 1
      /\ FlagAt(r.pc) \in {FlagAt("exit"), "any"}
  BY <1>4, Places, SMT
<1> QED BY <1>1, <1>2, <1>4, <1>5, <1>6, <1>7, DevicesSame, AcquireStep

\* sleep() takes the lock of its caller again.
LEMMA RelockInv ==
  ASSUME ConsoleInv, NEW c \in CPU, NEW p \in Proc, Relock(c, p)
  PROVE  ConsoleInv'
<1> USE Zenon
<1> DEFINE k == proc[p].lk
           pc == IF k = "input" THEN "read" ELSE "nap"
           r == [proc[p] EXCEPT !.pc = pc]
<1>1. At(c, p, "relock") /\ m' = Acquire(m, c, k) /\ UNCHANGED <<sched, irq, input, dev, ticks, line>>
  BY DEF Relock
<1>2. proc' = [proc EXCEPT ![p] = r]
  BY DEF Relock
<1>3. proc[p] \in ProcType /\ proc[p].state = "RUNNING"
  BY <1>1, AtFits
<1>4. k \in {"input", "tickslock"} /\ pc \in {"read", "nap"}
  BY <1>3 DEF ProcType
<1>5. r \in ProcType /\ r.pc = pc /\ r.lk = k /\ r.state = "RUNNING"
  <2>1. pc \in PCs
    BY <1>4 DEF PCs
  <2> QED BY <1>3, <2>1, PcType
<1> HIDE DEF r
<1>6. Placed(r)
  BY <1>4, <1>5 DEF Placed
<1>7. /\ k \in Lock /\ k \notin LocksAt("relock", k, "none")
      /\ LocksAt(r.pc, r.lk, "none") = LocksAt("relock", k, "none") \cup {k}
  BY <1>4, <1>5, Places, SMT DEF Lock
<1>8. /\ DepthAt("relock") = 0 /\ DepthAt("relock") \in Nat /\ DepthAt(r.pc) = DepthAt("relock") + 1
      /\ FlagAt(r.pc) \in {FlagAt("relock"), "any"}
  BY <1>4, <1>5, Places, SMT
<1> QED BY <1>1, <1>2, <1>5, <1>6, <1>7, <1>8, DevicesSame, AcquireStep

\* A system call starts with a lock: consoleread(), consolewrite(), sys_sleep(), kill().
LEMMA CallStep ==
  ASSUME ConsoleInv, NEW c \in CPU, NEW p \in Proc, NEW k \in Lock, NEW r \in ProcType,
         Call(c, p, k, r), r.state = proc[p].state,
         \/ r.pc \in {"read", "write", "kill"} /\ r.lk = proc[p].lk
         \/ r.pc = "ticks0" /\ r.lk = "tickslock",
         LocksAt(r.pc, r.lk, "none") = {k}
  PROVE  ConsoleInv'
<1> USE Zenon
<1>1. /\ At(c, p, "user") /\ m' = Acquire(m, c, k) /\ UNCHANGED <<sched, irq, input, dev, ticks, line>>
      /\ proc' = [proc EXCEPT ![p] = r]
  BY DEF Call
<1>2. proc[p] \in ProcType /\ proc[p].state = "RUNNING" /\ Own(p) /\ proc[p].pc = "user"
  BY <1>1, AtFits, ZenonT(60)
<1>3. proc[p].lk = "input"
  BY <1>2, InputLock
<1>4. Placed(r)
  BY <1>2, <1>3 DEF Placed
<1>5. /\ k \notin LocksAt("user", proc[p].lk, "none")
      /\ LocksAt(r.pc, r.lk, "none") = LocksAt("user", proc[p].lk, "none") \cup {k}
  BY Places
<1>6. /\ DepthAt("user") = 0 /\ DepthAt("user") \in Nat /\ DepthAt(r.pc) = DepthAt("user") + 1
      /\ FlagAt(r.pc) \in {FlagAt("user"), "any"}
  BY Places, SMT
<1> QED BY <1>1, <1>4, <1>5, <1>6, DevicesSame, AcquireStep

\* consoleread() takes input.lock with no lock held.
LEMMA ConsolereadInv ==
  ASSUME ConsoleInv, NEW c \in CPU, NEW p \in Proc, NEW n \in Nat, Consoleread(c, p, n)
  PROVE  ConsoleInv'
<1> USE Zenon
<1> DEFINE r == [proc[p] EXCEPT !.pc = "read", !.n = n]
<1>1. proc[p] \in ProcType
  BY DEF ConsoleInv, TypeInv
<1>2. r \in ProcType /\ r.pc = "read" /\ r.lk = proc[p].lk /\ r.state = proc[p].state
  BY <1>1 DEF PCs, ProcType
<1>3. Call(c, p, "input", r)
  BY DEF Consoleread
<1> HIDE DEF r
<1>4. "input" \in Lock /\ LocksAt(r.pc, r.lk, "none") = {"input"}
  BY <1>2, Places DEF Lock
<1> QED BY <1>2, <1>3, <1>4, CallStep

\* consolewrite() takes cons.lock with no lock held.
LEMMA ConsolewriteInv ==
  ASSUME ConsoleInv, NEW c \in CPU, NEW p \in Proc, Consolewrite(c, p)
  PROVE  ConsoleInv'
<1> USE Zenon
<1> DEFINE r == [proc[p] EXCEPT !.pc = "write"]
<1>1. proc[p] \in ProcType
  BY DEF ConsoleInv, TypeInv
<1>2. r \in ProcType /\ r.pc = "write" /\ r.lk = proc[p].lk /\ r.state = proc[p].state
  BY <1>1, PcType DEF PCs
<1>3. Call(c, p, "cons", r)
  BY DEF Consolewrite
<1> HIDE DEF r
<1>4. "cons" \in Lock /\ LocksAt(r.pc, r.lk, "none") = {"cons"}
  BY <1>2, Places DEF Lock
<1> QED BY <1>2, <1>3, <1>4, CallStep

\* sys_sleep() takes tickslock with no lock held.
LEMMA SysSleepInv ==
  ASSUME ConsoleInv, NEW c \in CPU, NEW p \in Proc, NEW n \in Nat, SysSleep(c, p, n)
  PROVE  ConsoleInv'
<1> USE Zenon
<1> DEFINE r == [proc[p] EXCEPT !.pc = "ticks0", !.n = n, !.lk = "tickslock"]
<1>1. proc[p] \in ProcType
  BY DEF ConsoleInv, TypeInv
<1>2. r \in ProcType /\ r.pc = "ticks0" /\ r.lk = "tickslock" /\ r.state = proc[p].state
  BY <1>1 DEF PCs, ProcType
<1>3. Call(c, p, "tickslock", r)
  BY DEF SysSleep
<1> HIDE DEF r
<1>4. "tickslock" \in Lock /\ LocksAt(r.pc, r.lk, "none") = {"tickslock"}
  BY <1>2, Places DEF Lock
<1> QED BY <1>2, <1>3, <1>4, CallStep

\* kill() takes ptable.lock with no lock held.
LEMMA SysKillInv ==
  ASSUME ConsoleInv, NEW c \in CPU, NEW p \in Proc, NEW n \in Nat, SysKill(c, p, n)
  PROVE  ConsoleInv'
<1> USE Zenon
<1> DEFINE r == [proc[p] EXCEPT !.pc = "kill", !.n = n]
<1>1. proc[p] \in ProcType
  BY DEF ConsoleInv, TypeInv
<1>2. r \in ProcType /\ r.pc = "kill" /\ r.lk = proc[p].lk /\ r.state = proc[p].state
  BY <1>1 DEF PCs, ProcType
<1>3. Call(c, p, "ptable", r)
  BY DEF SysKill
<1> HIDE DEF r
<1>4. "ptable" \in Lock /\ LocksAt(r.pc, r.lk, "none") = {"ptable"}
  BY <1>2, Places DEF Lock
<1> QED BY <1>2, <1>3, <1>4, CallStep

\* A call takes ptable.lock to sleep, with the lock that it has.
LEMMA WaitStep ==
  ASSUME ConsoleInv, NEW c \in CPU, NEW p \in Proc,
         At(c, p, "read") \/ At(c, p, "nap"), Wait(c, p),
         UNCHANGED <<sched, irq, input, dev, ticks, line>>
  PROVE  ConsoleInv'
<1> USE Zenon
<1> DEFINE r == [proc[p] EXCEPT !.pc = "sleep"]
<1> SUFFICES ASSUME NEW pc \in {"read", "nap"}, At(c, p, pc)
             PROVE  ConsoleInv'
  OBVIOUS
<1>1. m' = Acquire(m, c, "ptable") /\ proc' = [proc EXCEPT ![p] = r]
  BY DEF Wait
<1>2. proc[p] \in ProcType /\ proc[p].state = "RUNNING" /\ Own(p) /\ proc[p].pc = pc
  BY AtFits, ZenonT(60)
<1>3. r \in ProcType /\ r.pc = "sleep" /\ r.lk = proc[p].lk /\ r.state = "RUNNING"
  BY <1>2, PcType DEF PCs
<1> HIDE DEF r
<1>4. Placed(r)
  BY <1>3 DEF Placed
<1>5. proc[p].lk = IF pc = "read" THEN "input" ELSE "tickslock"
  BY <1>2, InputLock DEF Own
<1>6. /\ "ptable" \in Lock /\ "ptable" \notin LocksAt(pc, proc[p].lk, "none")
      /\ LocksAt(r.pc, r.lk, "none") = LocksAt(pc, proc[p].lk, "none") \cup {"ptable"}
  BY <1>3, <1>5, Places, SMT DEF Lock
<1>7. /\ DepthAt(pc) \in Nat /\ DepthAt(r.pc) = DepthAt(pc) + 1
      /\ FlagAt(r.pc) \in {FlagAt(pc), "any"}
  BY <1>3, Places, SMT
<1> QED BY <1>1, <1>3, <1>4, <1>6, <1>7, DevicesSame, AcquireStep

\* A call ends with the release of its lock.
LEMMA EndStep ==
  ASSUME ConsoleInv, NEW c \in CPU, NEW p \in Proc, NEW pc, NEW k, At(c, p, pc),
         <<pc, k>> \in {<<"read", "input">>, <<"nap", "tickslock">>, <<"write", "cons">>}, End(c, p, k),
         UNCHANGED <<sched, irq, input, dev, ticks, line>>
  PROVE  ConsoleInv'
<1> USE Zenon
<1> DEFINE r == [proc[p] EXCEPT !.pc = Return(p), !.n = 0, !.got = <<>>, !.ticks0 = 0, !.lk = "input"]
<1>1. m' = Release(m, c, k) /\ proc' = [proc EXCEPT ![p] = r]
  BY DEF End
<1>2. proc[p] \in ProcType /\ proc[p].state = "RUNNING"
  BY AtFits
<1>3. r \in ProcType /\ r.pc = Return(p) /\ r.lk = "input" /\ r.state = "RUNNING"
  <2>1. <<>> \in Seq(Char) /\ 0 \in 0 .. UINT - 1
    BY ConsoleAssumption, SMT
  <2>2. Return(p) \in PCs
    BY DEF Return, PCs
  <2> QED BY <1>2, <2>1, <2>2 DEF ProcType
<1> HIDE DEF r
<1>4. r.pc \in {"exit", "user"}
  BY <1>3 DEF Return
<1>5. Placed(r)
  BY <1>3, <1>4 DEF Placed
<1>6. /\ k \in Lock /\ k \in LocksAt(pc, proc[p].lk, "none")
      /\ LocksAt(r.pc, r.lk, "none") = LocksAt(pc, proc[p].lk, "none") \ {k}
  BY <1>4, Places, SMT DEF Lock
<1>7. /\ DepthAt(pc) \in Nat /\ DepthAt(pc) > 0 /\ DepthAt(r.pc) = DepthAt(pc) - 1
      /\ FlagAt(r.pc) \in {FlagAt(pc), "any"}
  BY <1>4, Places, SMT
<1>8. DevicesType' /\ proc' \in [Proc -> ProcType] /\ proc'[p] = r /\ \A q \in Proc \ {p} : Idle(q)
  BY <1>1, <1>3, OneProc, DevicesSame
<1> QED BY <1>1, <1>3, <1>5, <1>6, <1>7, <1>8, ReleaseStep

\* consoleread() goes to sleep() with its lock, or gives it up when killed.
LEMMA ReadBlockInv ==
  ASSUME ConsoleInv, NEW c \in CPU, NEW p \in Proc, ReadBlock(c, p)
  PROVE  ConsoleInv'
<1> USE Zenon
<1>1. CASE proc[p].killed
  BY <1>1, EndStep DEF ReadBlock
<1>2. CASE ~proc[p].killed
  BY <1>2, WaitStep DEF ReadBlock
<1> QED BY <1>1, <1>2

\* consoleread() gives up the lock that it has, and returns.
LEMMA ReadEndInv ==
  ASSUME ConsoleInv, NEW c \in CPU, NEW p \in Proc, ReadEnd(c, p)
  PROVE  ConsoleInv'
BY EndStep, Zenon DEF ReadEnd

\* consolewrite() gives up the lock that it has, and returns.
LEMMA WriteEndInv ==
  ASSUME ConsoleInv, NEW c \in CPU, NEW p \in Proc, WriteEnd(c, p)
  PROVE  ConsoleInv'
BY EndStep, Zenon DEF WriteEnd

\* sys_sleep() goes to sleep() with its lock, or gives it up.
LEMMA NapInv ==
  ASSUME ConsoleInv, NEW c \in CPU, NEW p \in Proc, Nap(c, p)
  PROVE  ConsoleInv'
<1> USE Zenon
<1>1. CASE TooSoon(p) /\ ~proc[p].killed
  BY <1>1, WaitStep DEF Nap
<1>2. CASE ~(TooSoon(p) /\ ~proc[p].killed)
  BY <1>2, EndStep DEF Nap
<1> QED BY <1>1, <1>2

\* A killed process that enters the kernel holds nothing when it exits.
LEMMA SyscallKilledInv ==
  ASSUME ConsoleInv, NEW c \in CPU, NEW p \in Proc, SyscallKilled(c, p)
  PROVE  ConsoleInv'
<1> USE Zenon
<1> DEFINE r == [proc[p] EXCEPT !.pc = "exit"]
<1>1. /\ At(c, p, "user") /\ UNCHANGED <<m, sched, irq, input, dev, ticks, line>>
      /\ proc' = [proc EXCEPT ![p] = r]
  BY DEF SyscallKilled
<1>2. proc[p] \in ProcType /\ proc[p].state = "RUNNING" /\ Own(p) /\ proc[p].pc = "user"
  BY <1>1, AtFits, ZenonT(60)
<1>3. r \in ProcType /\ r.pc = "exit" /\ r.lk = proc[p].lk /\ r.state = "RUNNING"
  BY <1>2, PcType DEF PCs
<1> HIDE DEF r
<1>4. Placed(r)
  BY <1>2, <1>3, InputLock DEF Placed
<1>5. /\ LocksAt(r.pc, r.lk, "none") = LocksAt("user", proc[p].lk, "none")
      /\ DepthAt(r.pc) = DepthAt("user") /\ FlagAt(r.pc) \in {FlagAt("user"), "any"}
  BY <1>3 DEF LocksAt, DepthAt, FlagAt
<1> QED BY <1>1, <1>3, <1>4, <1>5, DevicesSame, PlainStep

\* sys_sleep() reads the clock with tickslock.
LEMMA Ticks0Inv ==
  ASSUME ConsoleInv, NEW c \in CPU, NEW p \in Proc, Ticks0(c, p)
  PROVE  ConsoleInv'
<1> USE Zenon
<1> DEFINE r == [proc[p] EXCEPT !.ticks0 = ticks, !.pc = "nap"]
<1>1. /\ At(c, p, "ticks0") /\ UNCHANGED <<m, sched, irq, input, dev, ticks, line>>
      /\ proc' = [proc EXCEPT ![p] = r]
  BY DEF Ticks0
<1>2. proc[p] \in ProcType /\ proc[p].state = "RUNNING" /\ Own(p) /\ proc[p].pc = "ticks0"
  BY <1>1, AtFits
<1>3. r \in ProcType /\ r.pc = "nap" /\ r.lk = proc[p].lk /\ r.state = "RUNNING"
  <2>1. ticks \in 0 .. UINT - 1
    BY DEF ConsoleInv, TypeInv, DevicesType
  <2> QED BY <1>2, <2>1 DEF PCs, ProcType
<1> HIDE DEF r
<1>4. Placed(r)
  BY <1>2, <1>3 DEF Placed, Own
<1>5. /\ LocksAt(r.pc, r.lk, "none") = LocksAt("ticks0", proc[p].lk, "none")
      /\ DepthAt(r.pc) = DepthAt("ticks0") /\ FlagAt(r.pc) \in {FlagAt("ticks0"), "any"}
  BY <1>3 DEF LocksAt, DepthAt, FlagAt
<1> QED BY <1>1, <1>3, <1>4, <1>5, DevicesSame, PlainStep

\* Indices are taken modulo 2^w and modulo the size of the buffer.
LEMMA BufType ==
  ASSUME ConsoleInv, NEW i \in Int
  PROVE  Buf(i) \in Char
BY UintType, Zenon DEF ConsoleInv, TypeInv, DevicesType, InputType, Buf

\* The indices of the ring as numbers.
LEMMA IndexTypes ==
  ASSUME ConsoleInv
  PROVE  input.r \in Nat /\ input.w \in Nat /\ input.e \in Nat /\ UINT \in Nat /\ input \in InputType
BY ConsoleAssumption DEF ConsoleInv, TypeInv, DevicesType, InputType

\* consoleread() takes a character, and keeps its lock.
LEMMA ReadCharInv ==
  ASSUME ConsoleInv, NEW c \in CPU, NEW p \in Proc, ReadChar(c, p)
  PROVE  ConsoleInv'
<1> USE Zenon
<1> DEFINE x == Buf(input.r)
           eof == x = "^D"
           n == IF eof THEN 0 ELSE Left(proc[p].n, x)
           got == IF eof THEN proc[p].got ELSE Append(proc[p].got, x)
           next == IF eof THEN AfterEof(p) ELSE Uint(input.r + 1)
           r == [proc[p] EXCEPT !.n = n, !.got = got]
<1>1. At(c, p, "read") /\ proc[p].n > 0 /\ UNCHANGED <<m, sched, irq, dev, ticks>>
  BY DEF ReadChar
<1>2. proc' = [proc EXCEPT ![p] = r]
  BY DEF ReadChar
<1>3. input' = [input EXCEPT !.r = next]
  BY DEF ReadChar
<1>4. proc[p] \in ProcType /\ proc[p].state = "RUNNING" /\ Own(p) /\ proc[p].pc = "read"
  BY <1>1, AtFits
<1>5. x \in Char
  BY BufType, IndexTypes, SMT
<1>6. n \in Nat /\ got \in Seq(Char)
  <2>1. proc[p].n \in Nat /\ proc[p].got \in Seq(Char)
    BY <1>4 DEF ProcType
  <2>2. proc[p].n - 1 \in Nat
    BY <1>1, <2>1, SMT
  <2>3. Append(proc[p].got, x) \in Seq(Char)
    BY <1>5, <2>1, SMT
  <2> QED BY <2>1, <2>2, <2>3 DEF Left
<1>7. next \in 0 .. UINT - 1
  <2>1. Uint(input.r + 1) \in 0 .. UINT - 1
    BY UintType, IndexTypes, SMT
  <2>2. input.r \in 0 .. UINT - 1
    BY IndexTypes DEF InputType
  <2> QED BY <2>1, <2>2 DEF AfterEof
<1> HIDE DEF n, got, next
<1>8. DevicesType'
  <2>1. input' \in InputType
    BY <1>3, <1>7, IndexTypes DEF InputType
  <2> QED BY <1>1, <2>1 DEF ConsoleInv, TypeInv, DevicesType
<1>9. r \in ProcType /\ r.pc = "read" /\ r.lk = proc[p].lk /\ r.state = "RUNNING"
  BY <1>4, <1>6 DEF ProcType
<1> HIDE DEF r
<1>10. Placed(r)
  BY <1>4, <1>9, InputLock DEF Placed
<1>11. /\ LocksAt(r.pc, r.lk, "none") = LocksAt("read", proc[p].lk, "none")
       /\ DepthAt(r.pc) = DepthAt("read") /\ FlagAt(r.pc) \in {FlagAt("read"), "any"}
  BY <1>9, Places
<1> QED BY <1>1, <1>2, <1>8, <1>9, <1>10, <1>11, PlainStep

\* kill() wakes the process that it kills under ptable.lock, and gives it up.
LEMMA KillInv ==
  ASSUME ConsoleInv, NEW c \in CPU, NEW p \in Proc, Kill(c, p)
  PROVE  ConsoleInv'
<1> USE Zenon
<1> DEFINE q == proc[p].n
           self == IF q = p THEN "exit" ELSE Return(p)
           r == [proc[p] EXCEPT !.pc = self, !.n = 0]
           v == [proc EXCEPT ![p] = r]
           z == [v[q] EXCEPT !.killed = TRUE,
                             !.state = IF v[q].state = "SLEEPING" THEN "RUNNABLE" ELSE v[q].state]
<1>1. At(c, p, "kill") /\ m' = Release(m, c, "ptable") /\ UNCHANGED <<sched, irq, input, dev, ticks, line>>
  BY DEF Kill
<1>2. proc[p] \in ProcType /\ proc[p].state = "RUNNING" /\ Own(p) /\ proc[p].pc = "kill"
  BY <1>1, AtFits
<1>3. proc[p].lk = "input" /\ self \in {"exit", "user"}
  <2>1. self \in {"exit", "user"}
    BY DEF Return
  <2> QED BY <1>2, <2>1, InputLock
<1>4. r \in ProcType /\ r.pc = self /\ r.lk = "input" /\ r.state = "RUNNING" /\ r.intena = proc[p].intena
      /\ r.chan = proc[p].chan
  <2>1. self \in PCs
    BY <1>3 DEF PCs
  <2> QED BY <1>2, <1>3, <2>1 DEF ProcType
<1>5. v \in [Proc -> ProcType] /\ v[p] = r /\ \A u \in Proc \ {p} : v[u] = proc[u]
  <2>1. proc \in [Proc -> ProcType]
    BY DEF ConsoleInv, TypeInv
  <2> HIDE DEF r
  <2> QED BY <1>4, <2>1
<1>6. proc' = [v EXCEPT ![q].killed = TRUE,
                        ![q].state = IF @ = "SLEEPING" THEN "RUNNABLE" ELSE @]
  BY ZenonT(60) DEF Kill
<1> HIDE DEF v, r, self
<1>7. /\ proc' \in [Proc -> ProcType]
      /\ \A u \in Proc : /\ proc'[u].pc = v[u].pc /\ proc'[u].lk = v[u].lk
                         /\ proc'[u].chan = v[u].chan /\ proc'[u].intena = v[u].intena
                         /\ \/ proc'[u].state = v[u].state
                            \/ v[u].state = "SLEEPING" /\ proc'[u].state = "RUNNABLE"
  <2>1. CASE q \in Proc
    <3>1. proc' = [v EXCEPT ![q] = z]
      BY <1>6, <2>1
    <3>2. v[q] \in ProcType
      BY <1>5, <2>1
    <3>3. /\ z \in ProcType /\ z.pc = v[q].pc /\ z.lk = v[q].lk /\ z.chan = v[q].chan
          /\ z.intena = v[q].intena
          /\ z.state = IF v[q].state = "SLEEPING" THEN "RUNNABLE" ELSE v[q].state
      BY <3>2 DEF ProcType
    <3> HIDE DEF z
    <3> QED BY <1>5, <2>1, <3>1, <3>3
  <2>2. CASE q \notin Proc
    <3>1. proc' = v
      BY <1>5, <1>6, <2>2
    <3> QED BY <1>5, <3>1
  <2> QED BY <2>1, <2>2
<1>8. \A u \in Proc \ {p} : Idle(u)
  <2> TAKE u \in Proc \ {p}
  <2>1. u \in Proc /\ v[u] = proc[u]
    BY <1>5
  <2>2. /\ proc'[u].pc = v[u].pc /\ proc'[u].lk = v[u].lk
        /\ proc'[u].chan = v[u].chan /\ proc'[u].intena = v[u].intena
        /\ \/ proc'[u].state = v[u].state
           \/ v[u].state = "SLEEPING" /\ proc'[u].state = "RUNNABLE"
    BY <1>7, <2>1
  <2> QED BY <2>1, <2>2 DEF Idle
<1>9. /\ proc'[p] \in ProcType /\ proc'[p].pc = self /\ proc'[p].lk = "input"
      /\ proc'[p].state = "RUNNING"
  BY <1>4, <1>5, <1>7
<1>10. Placed(proc'[p])
  BY <1>3, <1>9 DEF Placed
<1>11. /\ "ptable" \in Lock /\ "ptable" \in LocksAt("kill", proc[p].lk, "none")
       /\ LocksAt(proc'[p].pc, proc'[p].lk, "none") = LocksAt("kill", proc[p].lk, "none") \ {"ptable"}
  BY <1>3, <1>9, Places DEF Lock
<1>12. /\ DepthAt("kill") \in Nat /\ DepthAt("kill") > 0 /\ DepthAt(proc'[p].pc) = DepthAt("kill") - 1
       /\ FlagAt(proc'[p].pc) \in {FlagAt("kill"), "any"}
  BY <1>3, <1>9, Places, SMT
<1> QED BY <1>1, <1>7, <1>8, <1>9, <1>10, <1>11, <1>12, DevicesSame, ReleaseStep

\* The first run of a process: the lock that the scheduler took is released.
LEMMA ForkretInv ==
  ASSUME ConsoleInv, NEW c \in CPU, NEW p \in Proc, Forkret(c, p)
  PROVE  ConsoleInv'
<1> USE Zenon
<1> DEFINE r == [proc[p] EXCEPT !.pc = "user"]
           u == Release(m, c, "ptable")
<1>1. /\ At(c, p, "forkret") /\ m' = [u EXCEPT !.cpu[c].iflag = TRUE]
      /\ UNCHANGED <<sched, irq, input, dev, ticks, line>> /\ proc' = [proc EXCEPT ![p] = r]
  BY DEF Forkret
<1>2. /\ proc[p] \in ProcType /\ proc[p].state = "RUNNING" /\ Own(p) /\ proc[p].pc = "forkret"
      /\ m \in Machine /\ m.cpu[c].on = p /\ m.cpu[c].spin = "no" /\ irq[p] = NoFrame
      /\ Fits(m, c, LocksAt("forkret", proc[p].lk, "none"), DepthAt("forkret"), FlagAt("forkret"))
  BY <1>1, AtFits
<1>3. r \in ProcType /\ r.pc = "user" /\ r.lk = proc[p].lk /\ r.state = "RUNNING"
  BY <1>2, PcType DEF PCs
<1>4. Fits(m, c, {"ptable"}, 1, "any")
  BY <1>2, Places
<1>5. Same(m, u, c) /\ Fits(u, c, {}, 0, "any")
  <2>1. {"ptable"} \ {"ptable"} = {} /\ 1 - 1 = 0 /\ 1 \in Nat /\ 1 > 0 /\ "ptable" \in Lock
    BY SMT DEF Lock
  <2>2. Same(m, u, c) /\ Fits(u, c, {"ptable"} \ {"ptable"}, 1 - 1, "any")
    BY <1>2, <1>4, <2>1, ReleaseFits
  <2> QED BY <2>1, <2>2
<1> HIDE DEF r, u
<1>6. Same(u, m', c) /\ Fits(m', c, {}, 0, "on")
  <2>1. u \in Machine
    BY <1>5 DEF Same, Local
  <2> QED BY <1>1, <1>5, <2>1, FlagFits
<1>7. Same(m, m', c)
  BY <1>5, <1>6, SameTwice
<1>8. Fits(m', c, LocksAt(r.pc, r.lk, "none"), DepthAt(r.pc), FlagAt(r.pc))
  BY <1>3, <1>6, Places
<1>9. Placed(r)
  BY <1>2, <1>3, InputLock DEF Placed
<1> QED BY <1>1, <1>2, <1>3, <1>7, <1>8, <1>9, OneProc, DevicesSame, ProcStep DEF Placed

\* A process that slept has its own intena again.
LEMMA AwakeInv ==
  ASSUME ConsoleInv, NEW c \in CPU, NEW p \in Proc, Awake(c, p)
  PROVE  ConsoleInv'
<1> USE Zenon
<1> DEFINE r == [proc[p] EXCEPT !.chan = "none", !.pc = "relock"]
           u == Back(m, c, p)
<1>1. /\ At(c, p, "slept") /\ m' = Release(u, c, "ptable")
      /\ UNCHANGED <<sched, irq, input, dev, ticks, line>> /\ proc' = [proc EXCEPT ![p] = r]
  BY DEF Awake
<1>2. /\ proc[p] \in ProcType /\ proc[p].state = "RUNNING" /\ Own(p) /\ proc[p].pc = "slept"
      /\ m \in Machine /\ m.cpu[c].on = p /\ m.cpu[c].spin = "no" /\ irq[p] = NoFrame
      /\ Fits(m, c, LocksAt("slept", proc[p].lk, "none"), DepthAt("slept"), FlagAt("slept"))
  BY <1>1, AtFits
<1>3. r \in ProcType /\ r.pc = "relock" /\ r.lk = proc[p].lk /\ r.state = "RUNNING"
  BY <1>2 DEF PCs, ProcType
<1>4. Fits(m, c, {"ptable"}, 1, "any")
  BY <1>2, Places
<1>5. Same(m, u, c) /\ Fits(u, c, {"ptable"}, 1, "on") /\ u.cpu[c].spin = "no"
  <2>1. proc[p].intena \in BOOLEAN /\ "on" \in {"any", IF proc[p].intena THEN "on" ELSE "off"}
    BY <1>2 DEF Own, ProcType
  <2> QED BY <1>2, <1>4, <2>1, IntenaFits DEF Back
<1> HIDE DEF r, u
<1>6. Same(u, m', c) /\ Fits(m', c, {}, 0, "on")
  <2>1. {"ptable"} \ {"ptable"} = {} /\ 1 - 1 = 0 /\ 1 \in Nat /\ 1 > 0 /\ "ptable" \in Lock
    BY SMT DEF Lock
  <2>2. u \in Machine
    BY <1>5 DEF Same, Local
  <2>3. Same(u, m', c) /\ Fits(m', c, {"ptable"} \ {"ptable"}, 1 - 1, "on")
    BY <1>1, <1>5, <2>1, <2>2, ReleaseFits
  <2> QED BY <2>1, <2>3
<1>7. Same(m, m', c)
  BY <1>5, <1>6, SameTwice
<1>8. Fits(m', c, LocksAt(r.pc, r.lk, "none"), DepthAt(r.pc), FlagAt(r.pc))
  BY <1>3, <1>6, Places
<1>9. Placed(r)
  BY <1>3 DEF Placed
<1> QED BY <1>1, <1>2, <1>3, <1>7, <1>8, <1>9, OneProc, DevicesSame, ProcStep DEF Placed

-----------------------------------------------------------------------------
(* Switches. *)

\* A process leaves the CPU to the scheduler.
LEMMA LeaveStep ==
  ASSUME ConsoleInv, NEW c \in CPU, NEW p \in Proc, m.cpu[c].on = p,
         NEW r \in ProcType, proc' = [proc EXCEPT ![p] = r],
         NEW f \in Frames, irq' = [irq EXCEPT ![p] = f],
         r.state # "RUNNING", Own(p)',
         r.state = "RUNNABLE" => Pos(p)' \in {"forkret", "slept", "yielded"},
         r.state = "SLEEPING" => Pos(p)' = "slept" /\ r.chan = r.lk,
         Local(m, m', c), m'.cpu[c].on = c, Fits(m', c, {"ptable"}, 1, "any"),
         sched' = sched, DevicesType'
  PROVE  ConsoleInv'
<1> USE Zenon
<1>1. /\ proc' \in [Proc -> ProcType] /\ proc'[p] = r
      /\ \A q \in Proc \ {p} : Idle(q)
  BY OneProc
<1>2. irq' \in [Thread -> Frames] /\ irq'[p] = f /\ \A u \in Thread \ {p} : irq'[u] = irq[u]
  <2>1. irq \in [Thread -> Frames] /\ p \in Thread
    BY Threads DEF ConsoleInv, TypeInv
  <2> QED BY <2>1
<1>3. TypeInv'
  BY <1>1, <1>2 DEF ConsoleInv, TypeInv, Local
<1>4. c \in Thread \ {p} /\ c \notin Proc
  BY Threads
<1>5. sched[c].pc = "scan" /\ irq[c] = NoFrame
  <2>1. m.cpu[c].on # c
    BY <1>4
  <2> QED BY <2>1 DEF ConsoleInv, CpuInv
<1>6. Pos(c)' = "scan" /\ Locks(c)' = {"ptable"}
  <2>1. Pos(c)' = "scan"
    BY <1>2, <1>4, <1>5 DEF Pos, Base
  <2> QED BY <2>1, <1>4 DEF Locks, LocksAt
<1>7. Fit(c)'
  <2>1. DepthAt("scan") = 1 /\ FlagAt("scan") = "any"
    BY DEF DepthAt, FlagAt
  <2> QED BY <1>6, <2>1 DEF Fit
<1>8. \A u \in Thread \ {m.cpu[c].on} : Still(u)
  BY <1>1, <1>2 DEF Still, Idle
<1>9. CpuInv'
  <2>1. CpuInv /\ PlaceInv
    BY DEF ConsoleInv
  <2>2. irq'[c] = NoFrame /\ irq'[c].step = "none"
    BY <1>2, <1>4, <1>5, SMT DEF NoFrame
  <2>3. m'.cpu[c].on \in Proc \cup {c} /\ irq'[c].step \notin {"yield", "yielded"}
    BY <2>2
  <2> QED BY <1>7, <1>8, <2>1, <2>2, <2>3, CpuStep
<1>10. \A a, b \in CPU : m'.cpu[a].on = m'.cpu[b].on => a = b
  <2>1. \A d \in CPU \ {c} : m'.cpu[d].on = m.cpu[d].on /\ m.cpu[d].on # c
    <3> TAKE d \in CPU \ {c}
    <3>1. m.cpu[d].on \in Proc \cup {d}
      BY DEF ConsoleInv, CpuInv
    <3>2. m'.cpu[d].on = m.cpu[d].on
      BY DEF Local
    <3> QED BY <1>4, <3>1, <3>2
  <2>2. \A a, b \in CPU : m.cpu[a].on = m.cpu[b].on => a = b
    BY DEF ConsoleInv, PlaceInv
  <2> QED BY <2>1, <2>2, SMT
<1>11. ASSUME NEW q \in Proc
       PROVE  /\ Own(q)'
              /\ proc'[q].state = "RUNNING" <=> \E d \in CPU : m'.cpu[d].on = q
              /\ proc'[q].state = "RUNNABLE" => Pos(q)' \in {"forkret", "slept", "yielded"}
              /\ proc'[q].state = "SLEEPING" => Pos(q)' = "slept" /\ proc'[q].chan = proc'[q].lk
  <2>1. CASE q = p
    <3>1. ~\E d \in CPU : m'.cpu[d].on = p
      <4> SUFFICES ASSUME NEW d \in CPU PROVE m'.cpu[d].on # p
        OBVIOUS
      <4>1. CASE d = c
        BY <4>1, <1>4
      <4>2. CASE d # c
        <5>1. m'.cpu[d].on = m.cpu[d].on
          BY <4>2 DEF Local
        <5>2. m.cpu[d].on = m.cpu[c].on => d = c
          BY DEF ConsoleInv, PlaceInv
        <5> QED BY <4>2, <5>1, <5>2
      <4> QED BY <4>1, <4>2
    <3> QED BY <1>1, <2>1, <3>1
  <2>2. CASE q # p
    <3>1. Own(q)' /\ Pos(q)' = Pos(q) /\ Calm(q)
      <4>1. Calm(q)
        BY <1>1, <1>2, <2>2, Threads DEF Calm
      <4> QED BY <4>1, CalmOwn DEF ConsoleInv, PlaceInv
    <3>2. /\ proc[q].state = "RUNNING" <=> \E d \in CPU : m.cpu[d].on = q
          /\ proc[q].state = "RUNNABLE" => Pos(q) \in {"forkret", "slept", "yielded"}
          /\ proc[q].state = "SLEEPING" => Pos(q) = "slept" /\ proc[q].chan = proc[q].lk
      BY DEF ConsoleInv, PlaceInv
    <3>3. \A d \in CPU : m'.cpu[d].on = q <=> m.cpu[d].on = q
      <4> TAKE d \in CPU
      <4>1. CASE d = c
        BY <4>1, <1>4, <2>2
      <4>2. CASE d # c
        BY <4>2 DEF Local
      <4> QED BY <4>1, <4>2
    <3>4. /\ \/ proc'[q].state = proc[q].state
             \/ proc[q].state = "SLEEPING" /\ proc'[q].state = "RUNNABLE"
          /\ proc'[q].chan = proc[q].chan /\ proc'[q].lk = proc[q].lk
      BY <3>1 DEF Calm, Idle
    <3> QED BY <3>1, <3>2, <3>3, <3>4
  <2> QED BY <2>1, <2>2
<1>12. PlaceInv'
  BY <1>10, <1>11 DEF PlaceInv
<1> QED BY <1>3, <1>9, <1>12 DEF ConsoleInv

\* The frame of a thread that it keeps
LEMMA KeepsFrame ==
  ASSUME ConsoleInv, NEW t \in Thread, irq' = irq
  PROVE  irq[t] \in Frames /\ irq' = [irq EXCEPT ![t] = irq[t]]
<1> USE Zenon
<1>1. irq \in [Thread -> Frames]
  BY DEF ConsoleInv, TypeInv
<1> QED BY <1>1

\* exit() leaves its CPU to the scheduler with ptable.lock alone.
LEMMA ZombieInv ==
  ASSUME ConsoleInv, NEW c \in CPU, NEW p \in Proc, Zombie(c, p)
  PROVE  ConsoleInv'
<1> USE Zenon
<1> DEFINE r == [proc[p] EXCEPT !.state = "ZOMBIE"]
<1>1. /\ At(c, p, "zombie") /\ m' = Sched(m, c)
      /\ UNCHANGED <<sched, irq, input, dev, ticks, line>> /\ proc' = [proc EXCEPT ![p] = r]
  BY DEF Zombie
<1>2. /\ proc[p] \in ProcType /\ Own(p) /\ proc[p].pc = "zombie"
      /\ m \in Machine /\ m.cpu[c].on = p /\ m.cpu[c].spin = "no" /\ irq[p] = NoFrame
      /\ Fits(m, c, LocksAt("zombie", proc[p].lk, "none"), DepthAt("zombie"), FlagAt("zombie"))
  BY <1>1, AtFits
<1>3. r \in ProcType /\ r.pc = "zombie" /\ r.lk = proc[p].lk /\ r.state = "ZOMBIE" /\ r.intena = proc[p].intena
  BY <1>2 DEF ProcType
<1> HIDE DEF r
<1>4. Local(m, m', c) /\ m'.cpu[c].on = c /\ Fits(m', c, {"ptable"}, 1, "any")
  <2>1. Fits(m, c, {"ptable"}, 1, "any")
    BY <1>2, Places
  <2> QED BY <1>1, <1>2, <2>1, SchedFits
<1>5. irq[p] \in Frames /\ irq' = [irq EXCEPT ![p] = irq[p]]
  BY <1>1, KeepsFrame, Threads
<1>6. Own(p)'
  <2>1. proc'[p] = r /\ irq'[p] = irq[p]
    BY <1>1, <1>3, OneProc
  <2> QED BY <1>2, <1>3, <2>1 DEF Own
<1>7. r.state # "RUNNING" /\ r.state # "RUNNABLE" /\ r.state # "SLEEPING"
  BY <1>3
<1> QED BY <1>1, <1>2, <1>3, <1>4, <1>5, <1>6, <1>7, LeaveStep, DevicesSame

\* sleep() exchanges the caller's lock for ptable.lock and leaves the CPU to the
\* scheduler with that one alone.
LEMMA SleepInv ==
  ASSUME ConsoleInv, NEW c \in CPU, NEW p \in Proc, Sleep(c, p)
  PROVE  ConsoleInv'
<1> USE Zenon
<1> DEFINE r == [proc[p] EXCEPT !.chan = proc[p].lk, !.state = "SLEEPING",
                                !.pc = "slept", !.intena = m.cpu[c].intena]
           u == Release(m, c, proc[p].lk)
<1>1. /\ At(c, p, "sleep") /\ m' = Sched(u, c)
      /\ UNCHANGED <<sched, irq, input, dev, ticks, line>>
      /\ proc' = [proc EXCEPT ![p] = r]
  BY DEF Sleep, SleepSwitch
<1>2. /\ proc[p] \in ProcType /\ Own(p) /\ proc[p].pc = "sleep"
      /\ m \in Machine /\ m.cpu[c].on = p /\ m.cpu[c].spin = "no" /\ irq[p] = NoFrame
      /\ Fits(m, c, LocksAt("sleep", proc[p].lk, "none"), DepthAt("sleep"), FlagAt("sleep"))
  BY <1>1, AtFits
<1>3. Fits(m, c, {proc[p].lk, "ptable"}, 2, "on") /\ proc[p].lk \in {"input", "tickslock"}
  <2>1. /\ LocksAt("sleep", proc[p].lk, "none") = {proc[p].lk, "ptable"}
        /\ DepthAt("sleep") = 2 /\ FlagAt("sleep") = "on"
    BY DEF LocksAt, DepthAt, FlagAt
  <2>2. proc[p].lk \in {"input", "tickslock"}
    BY <1>2 DEF ProcType
  <2> QED BY <1>2, <2>1, <2>2
<1>4. m.cpu[c].intena = TRUE
  <2>1. m.cpu[c].intena \in BOOLEAN
    BY <1>2 DEF Machine, CpuType
  <2>2. m.cpu[c].intena
    BY <1>3, SMT DEF Fits
  <2> QED BY <2>1, <2>2
<1>5. /\ r \in ProcType /\ r.pc = "slept" /\ r.lk = proc[p].lk /\ r.state = "SLEEPING"
      /\ r.chan = r.lk /\ r.intena = TRUE
  <2>1. "slept" \in PCs
    BY DEF PCs
  <2>2. proc[p].lk \in {"none", "input", "tickslock"}
    BY <1>3
  <2> QED BY <1>2, <1>4, <2>1, <2>2 DEF ProcType
<1>6. Same(m, u, c) /\ u.cpu[c].spin = "no" /\ Fits(u, c, {"ptable"}, 1, "on")
  <2>1. {proc[p].lk, "ptable"} \ {proc[p].lk} = {"ptable"} /\ 2 - 1 = 1 /\ 2 \in Nat /\ 2 > 0
        /\ proc[p].lk \in Lock /\ proc[p].lk \in {proc[p].lk, "ptable"}
    BY <1>3, SMT DEF Lock
  <2>2. /\ Same(m, u, c) /\ u.cpu[c].spin = "no"
        /\ Fits(u, c, {proc[p].lk, "ptable"} \ {proc[p].lk}, 2 - 1, "on")
    BY <1>2, <1>3, <2>1, ReleaseFits
  <2> QED BY <2>1, <2>2
<1> HIDE DEF r, u
<1>7. Local(m, m', c) /\ m'.cpu[c].on = c /\ Fits(m', c, {"ptable"}, 1, "any")
  <2>1. u \in Machine
    BY <1>6 DEF Same, Local
  <2>2. Local(u, m', c) /\ m'.cpu[c].on = c /\ Fits(m', c, {"ptable"}, 1, "any")
    BY <1>1, <1>6, <2>1, SchedFits
  <2> QED BY <1>6, <2>2, SMT DEF Same, Local
<1>8. irq[p] \in Frames /\ irq' = [irq EXCEPT ![p] = irq[p]]
  BY <1>1, KeepsFrame, Threads
<1>9. Own(p)' /\ Pos(p)' = "slept"
  <2>1. proc'[p] = r /\ irq'[p] = irq[p]
    BY <1>1, <1>5, OneProc
  <2>2. irq[p].step = "none"
    BY <1>2, SMT DEF NoFrame
  <2> QED BY <1>2, <1>5, <2>1, <2>2 DEF Own, Pos, Base
<1>10. r.state # "RUNNING" /\ r.state # "RUNNABLE"
  BY <1>5
<1> QED BY <1>1, <1>2, <1>5, <1>7, <1>8, <1>9, <1>10, LeaveStep, DevicesSame

\* The lock of a handler, by its step
LEMMA Steps ==
  /\ \A d : /\ LocksAt("tail", "input", d) = {} /\ LocksAt("yield", "input", d) = {"ptable"}
            /\ LocksAt("yielded", "input", d) = {"ptable"} /\ LocksAt("getc", "input", d) = {"input"}
            /\ LocksAt("listing", "input", d) = {"input"} /\ LocksAt("list", "input", d) = {"input", "cons"}
            /\ LocksAt("tick", "input", d) = {"tickslock"}
            /\ LocksAt("wake", "input", d) = {IF d = "timer" THEN "tickslock" ELSE "input", "ptable"}
            /\ LocksAt("idle", "input", d) = {} /\ LocksAt("sti", "input", d) = {}
            /\ LocksAt("scan", "input", d) = {"ptable"}
  /\ \A s \in {"tail", "idle", "sti"} : DepthAt(s) = 0
  /\ \A s \in {"yield", "yielded", "getc", "listing", "tick", "scan"} : DepthAt(s) = 1
  /\ \A s \in {"list", "wake"} : DepthAt(s) = 2
  /\ \A s \in {"tail", "yield", "getc", "listing", "list", "tick", "wake"} : FlagAt(s) = "off"
  /\ FlagAt("idle") = "on" /\ \A s \in {"sti", "scan", "yielded"} : FlagAt(s) = "any"
BY Zenon DEF LocksAt, DepthAt, FlagAt

\* yield() leaves the CPU to the scheduler with ptable.lock alone.
LEMMA YieldInv ==
  ASSUME ConsoleInv, NEW c \in CPU, NEW p \in Proc, Yield(c, p)
  PROVE  ConsoleInv'
<1> USE Zenon
<1> DEFINE r == [proc[p] EXCEPT !.state = "RUNNABLE", !.intena = m.cpu[c].intena]
           f == [irq[p] EXCEPT !.step = "yielded"]
<1>1. /\ InHandler(c, p, "yield") /\ m' = Sched(m, c)
      /\ UNCHANGED <<sched, input, dev, ticks, line>>
      /\ proc' = [proc EXCEPT ![p] = r] /\ irq' = [irq EXCEPT ![p] = f]
  BY DEF Yield
<1>2. /\ m \in Machine /\ m.cpu[c].on = p /\ m.cpu[c].spin = "no"
      /\ irq[p] \in Frames /\ irq[p] # NoFrame /\ irq[p].step = "yield"
      /\ Fits(m, c, LocksAt("yield", "input", irq[p].dev), DepthAt("yield"), FlagAt("yield"))
  <2>1. "yield" # "none" /\ p \in Thread
    BY Threads
  <2> QED BY <1>1, <2>1, HandlerFits
<1>3. Fits(m, c, {"ptable"}, 1, "off")
  BY <1>2, Steps
<1>4. m.cpu[c].intena = FALSE
  <2>1. m.cpu[c].intena \in BOOLEAN
    BY <1>2 DEF Machine, CpuType
  <2>2. ~m.cpu[c].intena
    BY <1>3, SMT DEF Fits
  <2> QED BY <2>1, <2>2
<1>5. proc[p] \in ProcType /\ Own(p)
  BY DEF ConsoleInv, TypeInv, PlaceInv
<1>6. /\ r \in ProcType /\ r.pc = proc[p].pc /\ r.lk = proc[p].lk /\ r.state = "RUNNABLE"
      /\ r.intena = FALSE
  BY <1>4, <1>5 DEF ProcType
<1>7. f \in Frames /\ f # NoFrame /\ f.step = "yielded"
  BY <1>2 DEF Frames, NoFrame
<1> HIDE DEF r, f
<1>8. Local(m, m', c) /\ m'.cpu[c].on = c /\ Fits(m', c, {"ptable"}, 1, "any")
  BY <1>1, <1>2, <1>3, SchedFits
<1>9. Own(p)' /\ Pos(p)' = "yielded"
  <2>1. proc'[p] = r
    BY <1>1, <1>6, OneProc
  <2>2. irq'[p] = f
    BY <1>1, Threads DEF ConsoleInv, TypeInv
  <2>3. proc[p].pc \in {"user", "relock", "exit"}
    BY <1>2, <1>5 DEF Own
  <2> QED BY <1>5, <1>6, <1>7, <2>1, <2>2, <2>3 DEF Own, Pos, Base
<1>10. r.state # "RUNNING" /\ r.state # "SLEEPING"
  BY <1>6
<1> QED BY <1>1, <1>2, <1>6, <1>7, <1>8, <1>9, <1>10, LeaveStep, DevicesSame

-----------------------------------------------------------------------------
(* The scheduler. *)

\* No thread moves.
LEMMA UnmovedStep ==
  ASSUME ConsoleInv, NEW c \in CPU, NEW t, m.cpu[c].on = t,
         UNCHANGED <<proc, sched, irq>>, Same(m, m', c),
         Fits(m', c, Locks(t), DepthAt(Pos(t)), FlagAt(Pos(t))), DevicesType'
  PROVE  ConsoleInv'
<1> USE Zenon
<1>1. \A u : Still(u)
  BY DEF Still
<1>2. m'.cpu[c].on = t /\ t \in Proc \cup {c} /\ t \in Thread
  <2>1. m.cpu[c].on \in Proc \cup {c}
    BY DEF ConsoleInv, CpuInv
  <2>2. m'.cpu[c].on = t
    BY DEF Same
  <2> QED BY <2>1, <2>2, Threads
<1>3. Fit(c)'
  <2>1. Pos(t)' = Pos(t) /\ Locks(t)' = Locks(t)
    BY <1>1, StillThere
  <2> QED BY <1>2, <2>1 DEF Fit
<1>4. TypeInv'
  BY DEF ConsoleInv, TypeInv, Same, Local
<1>5. CpuInv'
  <2>1. Local(m, m', c) /\ CpuInv /\ PlaceInv
    BY DEF ConsoleInv, Same
  <2>2. /\ m'.cpu[c].on # c => sched'[c].pc = "scan"
        /\ irq'[c] # NoFrame => sched'[c].pc \in {"idle", "sti"}
        /\ irq'[c].step \notin {"yield", "yielded"}
    BY <1>2 DEF ConsoleInv, CpuInv
  <2> QED BY <1>1, <1>2, <1>3, <2>1, <2>2, CpuStep
<1>6. PlaceInv'
  <2>1. \A q \in Proc : Calm(q)
    BY DEF Calm, Idle
  <2>2. t \in Proc => proc'[t].state = "RUNNING" /\ Own(t)'
    <3> SUFFICES ASSUME t \in Proc
                 PROVE  proc'[t].state = "RUNNING" /\ Own(t)'
      OBVIOUS
    <3>1. proc[t].state = "RUNNING" /\ Own(t)
      BY DEF ConsoleInv, PlaceInv
    <3>2. Own(t)'
      BY <2>1, <3>1, CalmOwn
    <3> QED BY <3>1, <3>2
  <2> QED BY <1>2, <2>1, <2>2, PlaceStep DEF ConsoleInv
<1> QED BY <1>4, <1>5, <1>6 DEF ConsoleInv

\* acquire() ends.
LEMMA XchgInv ==
  ASSUME ConsoleInv, NEW c \in CPU, Xchg(c)
  PROVE  ConsoleInv'
<1> USE Zenon
<1> DEFINE k == m.cpu[c].spin
           t == m.cpu[c].on
           x == [m.cpu[c] EXCEPT !.spin = "no"]
<1>1. /\ k \in Lock /\ m.lock[k] = NoCPU /\ m' = [m EXCEPT !.cpu[c] = x, !.lock[k] = c]
      /\ UNCHANGED <<proc, sched, irq, input, dev, ticks, line>>
  BY DEF Xchg
<1>2. m \in Machine /\ m.cpu[c] \in CpuType
  BY DEF ConsoleInv, TypeInv, Machine
<1>3. /\ x \in CpuType /\ x.on = t /\ x.spin = "no" /\ x.iflag = m.cpu[c].iflag
      /\ x.ncli = m.cpu[c].ncli /\ x.intena = m.cpu[c].intena
  BY <1>2 DEF CpuType
<1>4. Fits(m, c, Locks(t), DepthAt(Pos(t)), FlagAt(Pos(t)))
  BY DEF ConsoleInv, CpuInv, Fit
<1> HIDE DEF x
<1>5. m' \in Machine
  BY <1>1, <1>2, <1>3, SetBoth
<1>6. /\ m'.cpu[c] = x /\ m'.lock[k] = c
      /\ \A d \in CPU \ {c} : m'.cpu[d] = m.cpu[d]
      /\ \A l \in Lock \ {k} : m'.lock[l] = m.lock[l]
  BY <1>1, <1>2 DEF Machine
<1>7. Same(m, m', c)
  <2>1. \A d \in CPU \ {c} : \A l \in Lock : m'.lock[l] = d <=> m.lock[l] = d
    BY <1>1, <1>6, ConsoleAssumption
  <2> QED BY <1>3, <1>5, <1>6, <2>1 DEF Same, Local
<1>8. Fits(m', c, Locks(t), DepthAt(Pos(t)), FlagAt(Pos(t)))
  <2>1. "no" \notin Lock
    BY DEF Lock
  <2> QED BY <1>1, <1>3, <1>4, <1>6, <2>1, SMT DEF Fits
<1> QED BY <1>1, <1>7, <1>8, UnmovedStep, DevicesSame

\* The scheduler goes to another place of its loop.
LEMMA SchedulerStep ==
  ASSUME ConsoleInv, NEW c \in CPU, m.cpu[c].on = c, irq[c] = NoFrame,
         NEW k \in [pc : {"idle", "scan", "sti"}, at : Nat], sched' = [sched EXCEPT ![c] = k],
         UNCHANGED <<proc, irq, input, dev, ticks>>, Same(m, m', c),
         Fits(m', c, LocksAt(k.pc, "input", "none"), DepthAt(k.pc), FlagAt(k.pc))
  PROVE  ConsoleInv'
<1> USE Zenon
<1>1. /\ sched' \in [CPU -> [pc : {"idle", "scan", "sti"}, at : Nat]] /\ sched'[c] = k
      /\ \A d \in CPU \ {c} : sched'[d] = sched[d]
  BY DEF ConsoleInv, TypeInv
<1>2. c \in Thread /\ c \notin Proc /\ m'.cpu[c].on = c
  BY Threads DEF Same
<1>3. TypeInv'
  BY <1>1, DevicesSame DEF ConsoleInv, TypeInv, Same, Local
<1>4. irq[c].step = "none" /\ irq[c].dev = "none"
  BY SMT DEF NoFrame
<1>5. Pos(c)' = k.pc /\ Locks(c)' = LocksAt(k.pc, "input", "none")
  BY <1>1, <1>2, <1>4 DEF Pos, Base, Locks
<1>6. Fit(c)'
  BY <1>2, <1>5 DEF Fit
<1>7. \A u \in Thread \ {m.cpu[c].on} : Still(u)
  <2> TAKE u \in Thread \ {m.cpu[c].on}
  <2>1. u \notin Proc => u \in CPU \ {c}
    BY DEF Thread
  <2> QED BY <1>1, <2>1 DEF Still
<1>8. CpuInv'
  <2>1. Local(m, m', c) /\ CpuInv /\ PlaceInv
    BY DEF ConsoleInv, Same
  <2>2. irq'[c].step \notin {"yield", "yielded"}
    BY <1>4
  <2> QED BY <1>2, <1>6, <1>7, <2>1, <2>2, CpuStep
<1>9. PlaceInv'
  <2>1. \A q \in Proc : Calm(q)
    BY DEF Calm, Idle
  <2> QED BY <1>2, <2>1, PlaceStep DEF ConsoleInv
<1> QED BY <1>3, <1>8, <1>9 DEF ConsoleInv

\* The scheduler of a CPU: types.
LEMMA SchedType ==
  ASSUME ConsoleInv, NEW c \in CPU
  PROVE  sched[c] \in [pc : {"idle", "scan", "sti"}, at : Nat]
BY Zenon DEF ConsoleInv, TypeInv

\* The scheduler lets interrupts in when it holds no lock.
LEMMA StiInv ==
  ASSUME ConsoleInv, NEW c \in CPU, Sti(c)
  PROVE  ConsoleInv'
<1> USE Zenon
<1> DEFINE k == [sched[c] EXCEPT !.pc = "idle"]
<1>1. /\ Executes(c, c) /\ irq[c] = NoFrame /\ sched[c].pc = "sti"
      /\ m' = [m EXCEPT !.cpu[c].iflag = TRUE] /\ sched' = [sched EXCEPT ![c] = k]
      /\ UNCHANGED <<proc, irq, input, dev, ticks, line>>
  BY DEF Sti
<1>2. /\ m \in Machine /\ m.cpu[c].on = c
      /\ Fits(m, c, LocksAt("sti", "input", "none"), DepthAt("sti"), FlagAt("sti"))
  BY <1>1, SchedulerFits
<1>3. k \in [pc : {"idle", "scan", "sti"}, at : Nat] /\ k.pc = "idle"
  BY SchedType
<1>4. Fits(m, c, {}, 0, "any")
  BY <1>2, Steps
<1>5. Same(m, m', c) /\ Fits(m', c, {}, 0, "on")
  BY <1>1, <1>2, <1>4, FlagFits
<1>6. Fits(m', c, LocksAt(k.pc, "input", "none"), DepthAt(k.pc), FlagAt(k.pc))
  BY <1>3, <1>5, Steps
<1> HIDE DEF k
<1> QED BY <1>1, <1>2, <1>3, <1>5, <1>6, SchedulerStep

\* The scheduler takes ptable.lock for its next round.
LEMMA SchedulerLockInv ==
  ASSUME ConsoleInv, NEW c \in CPU, SchedulerLock(c)
  PROVE  ConsoleInv'
<1> USE Zenon
<1> DEFINE k == [pc |-> "scan", at |-> 1]
<1>1. /\ Executes(c, c) /\ irq[c] = NoFrame /\ sched[c].pc = "idle"
      /\ m' = Acquire(m, c, "ptable") /\ sched' = [sched EXCEPT ![c] = k]
      /\ UNCHANGED <<proc, irq, input, dev, ticks, line>>
  BY DEF SchedulerLock
<1>2. /\ m \in Machine /\ m.cpu[c].on = c /\ m.cpu[c].spin = "no"
      /\ Fits(m, c, LocksAt("idle", "input", "none"), DepthAt("idle"), FlagAt("idle"))
  BY <1>1, SchedulerFits
<1>3. k \in [pc : {"idle", "scan", "sti"}, at : Nat] /\ k.pc = "scan"
  OBVIOUS
<1>4. Fits(m, c, {}, 0, "on")
  BY <1>2, Steps
<1>5. Same(m, m', c) /\ Fits(m', c, {"ptable"}, 1, "any")
  <2>1. "ptable" \in Lock /\ "ptable" \notin {} /\ 0 \in Nat /\ {} \cup {"ptable"} = {"ptable"} /\ 0 + 1 = 1
    BY SMT DEF Lock
  <2>2. Same(m, m', c) /\ Fits(m', c, {} \cup {"ptable"}, 0 + 1, "any")
    BY <1>1, <1>2, <1>4, <2>1, AcquireFits
  <2> QED BY <2>1, <2>2
<1>6. Fits(m', c, LocksAt(k.pc, "input", "none"), DepthAt(k.pc), FlagAt(k.pc))
  BY <1>3, <1>5, Steps
<1> HIDE DEF k
<1> QED BY <1>1, <1>2, <1>3, <1>5, <1>6, SchedulerStep

\* What a thread that can be switched to has
LEMMA Waits ==
  ASSUME NEW pos \in {"forkret", "slept", "yielded"}, NEW lk, NEW d
  PROVE  LocksAt(pos, lk, d) = {"ptable"} /\ DepthAt(pos) = 1 /\ FlagAt(pos) = "any"
BY Zenon DEF LocksAt, DepthAt, FlagAt

\* The scheduler leaves the CPU to a process.
LEMMA EnterStep ==
  ASSUME ConsoleInv, NEW c \in CPU, m.cpu[c].on = c, irq[c] = NoFrame,
         NEW p \in Proc, proc[p].state = "RUNNABLE",
         NEW r \in ProcType, proc' = [proc EXCEPT ![p] = r], r.state = "RUNNING",
         r.pc = proc[p].pc, r.lk = proc[p].lk, r.intena = proc[p].intena,
         NEW k \in [pc : {"idle", "scan", "sti"}, at : Nat], sched' = [sched EXCEPT ![c] = k],
         k.pc = "scan", sched[c].pc = "scan",
         UNCHANGED <<irq, input, dev, ticks>>,
         Fits(m, c, {"ptable"}, 1, "any"), m' = [m EXCEPT !.cpu[c].on = p]
  PROVE  ConsoleInv'
<1> USE Zenon
<1>1. /\ proc' \in [Proc -> ProcType] /\ proc'[p] = r
      /\ \A q \in Proc \ {p} : proc'[q] = proc[q]
  BY DEF ConsoleInv, TypeInv
<1>2. /\ sched' \in [CPU -> [pc : {"idle", "scan", "sti"}, at : Nat]] /\ sched'[c] = k
      /\ \A d \in CPU \ {c} : sched'[d] = sched[d]
  BY DEF ConsoleInv, TypeInv
<1>3. c \in Thread /\ c \notin Proc /\ p \in Thread
  BY Threads
<1>4. Local(m, m', c) /\ m'.cpu[c].on = p /\ Fits(m', c, {"ptable"}, 1, "any")
  <2>1. m \in Machine
    BY DEF ConsoleInv, TypeInv
  <2>2. /\ Local(m, [m EXCEPT !.cpu[c].on = p], c)
        /\ [m EXCEPT !.cpu[c].on = p].cpu[c].on = p
        /\ Fits([m EXCEPT !.cpu[c].on = p], c, {"ptable"}, 1, "any")
    BY <1>3, <2>1, SwitchFits
  <2> QED BY <2>2
<1>5. TypeInv'
  BY <1>1, <1>2, <1>4, DevicesSame DEF ConsoleInv, TypeInv, Local
<1>6. \A u \in Thread : Still(u)
  <2> TAKE u \in Thread
  <2>1. CASE u \in Proc
    BY <1>1, <2>1 DEF Still
  <2>2. CASE u \in CPU \ {c}
    BY <1>2, <2>2, Threads DEF Still
  <2>3. CASE u = c
    BY <1>2, <1>3, <2>3 DEF Still
  <2> QED BY <2>1, <2>2, <2>3 DEF Thread
<1>7. Pos(p) \in {"forkret", "slept", "yielded"} /\ Pos(p)' = Pos(p) /\ Locks(p)' = Locks(p)
  BY <1>3, <1>6, StillThere DEF ConsoleInv, PlaceInv
<1>8. Fit(c)'
  <2>1. Locks(p) = {"ptable"} /\ DepthAt(Pos(p)) = 1 /\ FlagAt(Pos(p)) = "any"
    <3> DEFINE pos == Pos(p)
               lk == IF p \in Proc THEN proc[p].lk ELSE "input"
    <3>1. pos \in {"forkret", "slept", "yielded"} /\ Locks(p) = LocksAt(pos, lk, irq[p].dev)
      BY <1>7 DEF Locks
    <3> HIDE DEF pos, lk
    <3>2. LocksAt(pos, lk, irq[p].dev) = {"ptable"} /\ DepthAt(pos) = 1 /\ FlagAt(pos) = "any"
      BY <3>1, Waits
    <3> QED BY <3>1, <3>2 DEF pos
  <2> QED BY <1>4, <1>7, <2>1 DEF Fit
<1>9. CpuInv'
  <2>1. CpuInv /\ PlaceInv
    BY DEF ConsoleInv
  <2>2. /\ irq'[c] = NoFrame
        /\ irq'[c].step \notin {"yield", "yielded"}
    BY SMT DEF NoFrame
  <2>3. m'.cpu[c].on \in Proc \cup {c} /\ sched'[c].pc = "scan"
    BY <1>2, <1>4
  <2> QED BY <1>4, <1>6, <1>8, <2>1, <2>2, <2>3, CpuStep
<1>10. \A d \in CPU : m.cpu[d].on # p
  BY DEF ConsoleInv, PlaceInv
<1>11. \A d \in CPU \ {c} : m'.cpu[d].on = m.cpu[d].on
  BY <1>4 DEF Local
<1>12. \A a, b \in CPU : m'.cpu[a].on = m'.cpu[b].on => a = b
  <2>1. \A a, b \in CPU : m.cpu[a].on = m.cpu[b].on => a = b
    BY DEF ConsoleInv, PlaceInv
  <2> QED BY <1>4, <1>10, <1>11, <2>1, SMT
<1>13. ASSUME NEW q \in Proc
       PROVE  /\ Own(q)'
              /\ proc'[q].state = "RUNNING" <=> \E d \in CPU : m'.cpu[d].on = q
              /\ proc'[q].state = "RUNNABLE" => Pos(q)' \in {"forkret", "slept", "yielded"}
              /\ proc'[q].state = "SLEEPING" => Pos(q)' = "slept" /\ proc'[q].chan = proc'[q].lk
  <2>1. Own(q)
    BY DEF ConsoleInv, PlaceInv
  <2>2. CASE q = p
    <3>1. Own(p)'
      BY <1>1, <2>1, <2>2 DEF Own
    <3> QED BY <1>1, <1>4, <2>2, <3>1
  <2>3. CASE q # p
    <3>1. proc'[q] = proc[q]
      BY <1>1, <2>3
    <3>2. Own(q)' /\ Pos(q)' = Pos(q)
      <4>1. Calm(q)
        BY <3>1 DEF Calm, Idle
      <4> QED BY <2>1, <4>1, CalmOwn
    <3>3. \A d \in CPU : m'.cpu[d].on = q <=> m.cpu[d].on = q
      BY <1>3, <1>4, <1>11, <2>3, SMT
    <3>4. /\ proc[q].state = "RUNNING" <=> \E d \in CPU : m.cpu[d].on = q
          /\ proc[q].state = "RUNNABLE" => Pos(q) \in {"forkret", "slept", "yielded"}
          /\ proc[q].state = "SLEEPING" => Pos(q) = "slept" /\ proc[q].chan = proc[q].lk
      BY DEF ConsoleInv, PlaceInv
    <3> QED BY <3>1, <3>2, <3>3, <3>4
  <2> QED BY <2>2, <2>3
<1>14. PlaceInv'
  BY <1>12, <1>13 DEF PlaceInv
<1> QED BY <1>5, <1>9, <1>14 DEF ConsoleInv

\* The scheduler hands its lock to the process that it runs, which is on no
\* other CPU, or gives it up at the end of the table.
LEMMA SchedulerScanInv ==
  ASSUME ConsoleInv, NEW c \in CPU, SchedulerScan(c)
  PROVE  ConsoleInv'
<1> USE Zenon
<1> DEFINE next == {p \in Proc : p >= sched[c].at /\ proc[p].state = "RUNNABLE"}
<1>1. /\ Executes(c, c) /\ irq[c] = NoFrame /\ sched[c].pc = "scan"
      /\ UNCHANGED <<irq, input, dev, ticks, line>>
  BY DEF SchedulerScan
<1>2. /\ m \in Machine /\ m.cpu[c].on = c /\ m.cpu[c].spin = "no"
      /\ Fits(m, c, LocksAt("scan", "input", "none"), DepthAt("scan"), FlagAt("scan"))
  BY <1>1, SchedulerFits
<1>3. Fits(m, c, {"ptable"}, 1, "any")
  BY <1>2, Steps
<1>4. CASE m' = Release(m, c, "ptable") /\ sched' = [sched EXCEPT ![c] = [pc |-> "sti", at |-> 1]]
           /\ UNCHANGED proc
  <2> DEFINE k == [pc |-> "sti", at |-> 1]
  <2>1. m' = Release(m, c, "ptable") /\ sched' = [sched EXCEPT ![c] = k] /\ proc' = proc
    BY <1>4
  <2>2. k \in [pc : {"idle", "scan", "sti"}, at : Nat] /\ k.pc = "sti"
    OBVIOUS
  <2>3. Same(m, m', c) /\ Fits(m', c, {}, 0, "any")
    <3>1. {"ptable"} \ {"ptable"} = {} /\ 1 - 1 = 0 /\ 1 \in Nat /\ 1 > 0 /\ "ptable" \in Lock
      BY SMT DEF Lock
    <3>2. Same(m, m', c) /\ Fits(m', c, {"ptable"} \ {"ptable"}, 1 - 1, "any")
      BY <1>2, <1>3, <2>1, <3>1, ReleaseFits
    <3> QED BY <3>1, <3>2
  <2>4. Fits(m', c, LocksAt(k.pc, "input", "none"), DepthAt(k.pc), FlagAt(k.pc))
    BY <2>2, <2>3, Steps
  <2> HIDE DEF k
  <2> QED BY <1>1, <1>2, <2>1, <2>2, <2>3, <2>4, SchedulerStep
<1>5. ASSUME NEW p \in next, m' = [m EXCEPT !.cpu[c].on = p],
             sched' = [sched EXCEPT ![c].at = p + 1], proc' = [proc EXCEPT ![p].state = "RUNNING"]
      PROVE  ConsoleInv'
  <2> DEFINE k == [sched[c] EXCEPT !.at = p + 1]
             r == [proc[p] EXCEPT !.state = "RUNNING"]
  <2>1. /\ m' = [m EXCEPT !.cpu[c].on = p] /\ sched' = [sched EXCEPT ![c] = k]
        /\ proc' = [proc EXCEPT ![p] = r]
    BY <1>5
  <2>3. p \in Proc /\ proc[p].state = "RUNNABLE"
    OBVIOUS
  <2>4. k \in [pc : {"idle", "scan", "sti"}, at : Nat] /\ k.pc = "scan"
    <3>1. p + 1 \in Nat
      BY <2>3, SMT DEF Proc
    <3> QED BY <1>1, <3>1, SchedType
  <2>5. /\ r \in ProcType /\ r.state = "RUNNING"
        /\ r.pc = proc[p].pc /\ r.lk = proc[p].lk /\ r.intena = proc[p].intena
    <3>1. proc[p] \in ProcType
      BY <2>3 DEF ConsoleInv, TypeInv
    <3> QED BY <3>1 DEF ProcType
  <2> HIDE DEF k, r
  <2> QED BY <1>1, <1>2, <1>3, <2>1, <2>3, <2>4, <2>5, EnterStep
<1> QED BY <1>4, <1>5 DEF SchedulerScan

-----------------------------------------------------------------------------
(* Interrupt handlers. *)

\* Where thread t can be interrupted
Below(t) ==
    /\ t \in Proc => proc[t].pc \in {"user", "relock", "exit"}
    /\ t \notin Proc => sched[t].pc \in {"idle", "sti"}

\* A handler runs only on top of a thread that holds no lock.
LEMMA HandlerBelow ==
  ASSUME ConsoleInv, NEW c \in CPU, NEW t \in Proc \cup {c}, irq[t] # NoFrame
  PROVE  Below(t)
<1> USE Zenon
<1>1. CASE t \in Proc
  BY <1>1 DEF ConsoleInv, PlaceInv, Own, Below
<1>2. CASE t \notin Proc
  <2>1. t = c
    BY <1>2
  <2>2. irq[c] # NoFrame => sched[c].pc \in {"idle", "sti"}
    BY DEF ConsoleInv, CpuInv
  <2> QED BY <1>2, <2>1, <2>2 DEF Below
<1> QED BY <1>1, <1>2

\* A CPU that can be interrupted has no lock.
LEMMA InterruptFits ==
  ASSUME ConsoleInv, NEW c \in CPU, NEW t \in Thread, Interrupt(c, t)
  PROVE  /\ m \in Machine /\ m.cpu[c].on = t /\ m.cpu[c].spin = "no"
         /\ t \in Proc \cup {c} /\ Below(t)
         /\ Fits(m, c, {}, 0, "any")
<1> USE Zenon
<1>1. m \in Machine /\ m.cpu[c].on = t /\ m.cpu[c].spin = "no" /\ m.cpu[c].iflag
  BY DEF ConsoleInv, TypeInv, Interrupt, Executes
<1>2. t \in Proc \cup {c} /\ Fits(m, c, Locks(t), DepthAt(Pos(t)), FlagAt(Pos(t)))
  BY <1>1 DEF ConsoleInv, CpuInv, Fit
<1>3. DepthAt(Pos(t)) = 0
  BY <1>1, <1>2, SMT DEF Fits, DepthAt
<1>4. Pos(t) \in {"user", "relock", "exit", "tail", "idle", "sti"}
  BY <1>3, SMT DEF DepthAt
<1>5. Locks(t) = {}
  BY <1>4 DEF Locks, LocksAt
<1>6. Fits(m, c, {}, 0, "any")
  BY <1>2, <1>3, <1>5 DEF Fits
<1>7. Below(t)
  <2>1. CASE irq[t] # NoFrame
    BY <1>2, <2>1, HandlerBelow
  <2>2. CASE irq[t] = NoFrame
    <3>1. Pos(t) = Base(t)
      BY <2>2 DEF Pos
    <3>2. CASE t \in Proc
      <4>1. proc[t].pc = Pos(t) /\ proc[t].pc \in PCs
        BY <3>1, <3>2 DEF Base, ConsoleInv, TypeInv, ProcType
      <4> QED BY <1>4, <3>2, <4>1 DEF Below, PCs
    <3>3. CASE t \notin Proc
      <4>1. t = c
        BY <1>2, <3>3
      <4>2. sched[t].pc = Pos(t)
        BY <3>1, <3>3 DEF Base
      <4>3. sched[t].pc \in {"idle", "scan", "sti"}
        BY <4>1, SchedType
      <4> QED BY <1>4, <3>3, <4>2, <4>3 DEF Below
    <3> QED BY <3>2, <3>3
  <2> QED BY <2>1, <2>2
<1> QED BY <1>1, <1>2, <1>6, <1>7

\* The interrupt turns them off.
LEMMA OffFits ==
  ASSUME ConsoleInv, NEW c \in CPU, NEW t \in Thread, Interrupt(c, t)
  PROVE  /\ Off(c) \in Machine /\ Off(c).cpu[c].spin = "no"
         /\ Same(m, Off(c), c) /\ Fits(Off(c), c, {}, 0, "off")
<1> USE Zenon
<1>1. m \in Machine /\ Fits(m, c, {}, 0, "any")
  BY InterruptFits
<1>2. "off" \in {"any", IF FALSE THEN "on" ELSE "off"}
  OBVIOUS
<1>3. Same(m, Off(c), c) /\ Fits(Off(c), c, {}, 0, "off") /\ Off(c).cpu[c].spin = "no"
  BY <1>1, <1>2, FlagFits DEF Off
<1> QED BY <1>3 DEF Same, Local

\* A handler begins, and takes the lock k if it needs one.
LEMMA BeginStep ==
  ASSUME ConsoleInv, NEW c \in CPU, NEW t \in Thread, Interrupt(c, t),
         NEW f \in Frames, irq' = [irq EXCEPT ![t] = f],
         UNCHANGED <<proc, sched, input, dev, ticks>>,
         \/ f.step = "tail" /\ m' = Off(c)
         \/ \E k \in {"input", "tickslock"} :
               /\ f.step = IF k = "input" THEN "getc" ELSE "tick"
               /\ m' = Acquire(Off(c), c, k)
  PROVE  ConsoleInv'
<1> USE Zenon
<1>1. f # NoFrame /\ f.step # "yielded" /\ f.step # "yield"
  BY SMT DEF NoFrame
<1>2. /\ Same(m, m', c)
      /\ Fits(m', c, LocksAt(f.step, "input", f.dev), DepthAt(f.step), FlagAt(f.step))
  <2>1. CASE f.step = "tail" /\ m' = Off(c)
    <3>1. Same(m, m', c) /\ Fits(m', c, {}, 0, "off")
      BY <2>1, OffFits
    <3> QED BY <2>1, <3>1, Steps
  <2>2. ASSUME NEW k \in {"input", "tickslock"},
               f.step = IF k = "input" THEN "getc" ELSE "tick", m' = Acquire(Off(c), c, k)
        PROVE  /\ Same(m, m', c)
               /\ Fits(m', c, LocksAt(f.step, "input", f.dev), DepthAt(f.step), FlagAt(f.step))
    <3>1. k \in Lock /\ k \notin {} /\ 0 \in Nat /\ {} \cup {k} = {k} /\ 0 + 1 = 1
      BY SMT DEF Lock
    <3>2. Same(Off(c), m', c) /\ Fits(m', c, {} \cup {k}, 0 + 1, "off")
      BY <2>2, <3>1, OffFits, AcquireFits
    <3>3. Same(m, m', c)
      BY <3>2, OffFits, SameTwice
    <3>4. Fits(m', c, {k}, 1, "off")
      BY <3>1, <3>2
    <3>5. LocksAt(f.step, "input", f.dev) = {k} /\ DepthAt(f.step) = 1 /\ FlagAt(f.step) = "off"
      BY <2>2, Steps, SMT
    <3> QED BY <3>3, <3>4, <3>5
  <2> QED BY <2>1, <2>2
<1>3. proc' \in [Proc -> ProcType] /\ \A q \in Proc : Idle(q)
  BY DEF ConsoleInv, TypeInv, Idle
<1>4. DevicesType'
  BY DevicesSame
<1>5. m.cpu[c].on = t /\ Below(t)
  BY InterruptFits
<1> QED BY <1>1, <1>2, <1>3, <1>4, <1>5, HandlerStep DEF Below

\* The handler of a device begins by taking input.lock.
LEMMA DevintrInv ==
  ASSUME ConsoleInv, NEW c \in CPU, NEW t \in Thread, NEW d \in {"kbd", "uart"}, Devintr(c, t, d)
  PROVE  ConsoleInv'
<1> USE Zenon
<1> DEFINE f == [dev |-> d, step |-> "getc"]
<1>1. /\ Interrupt(c, t) /\ irq' = [irq EXCEPT ![t] = f] /\ m' = Acquire(Off(c), c, "input")
      /\ UNCHANGED <<proc, sched, input, dev, ticks, line>>
  BY DEF Devintr
<1>2. f \in Frames /\ f.step = "getc"
  BY DEF Frames
<1>3. f.step = IF "input" = "input" THEN "getc" ELSE "tick"
  BY <1>2
<1> HIDE DEF f
<1> QED BY <1>1, <1>2, <1>3, BeginStep

\* The timer's handler takes tickslock on the CPU that keeps the time.
LEMMA TimerInv ==
  ASSUME ConsoleInv, NEW c \in CPU, NEW t \in Thread, Timer(c, t)
  PROVE  ConsoleInv'
<1> USE Zenon
<1> DEFINE f == [dev |-> "timer", step |-> IF c = BootCPU THEN "tick" ELSE "tail"]
<1>1. /\ Interrupt(c, t) /\ irq' = [irq EXCEPT ![t] = f]
      /\ m' = IF c = BootCPU THEN Acquire(Off(c), c, "tickslock") ELSE Off(c)
      /\ UNCHANGED <<proc, sched, input, dev, ticks, line>>
  BY DEF Timer
<1>2. f \in Frames /\ f.step = IF c = BootCPU THEN "tick" ELSE "tail"
  BY DEF Frames
<1> HIDE DEF f
<1>3. \/ f.step = "tail" /\ m' = Off(c)
      \/ /\ f.step = IF "tickslock" = "input" THEN "getc" ELSE "tick"
         /\ m' = Acquire(Off(c), c, "tickslock")
  BY <1>1, <1>2
<1> QED BY <1>1, <1>2, <1>3, BeginStep

\* What is known of a CPU in a handler, and of its frame
LEMMA FrameIs ==
  ASSUME ConsoleInv, NEW c \in CPU, NEW t \in Thread, NEW step, step # "none", InHandler(c, t, step),
         NEW to
  PROVE  /\ irq[t].dev \in {"kbd", "uart", "timer", "yielded"} /\ irq[t].step = step
         /\ [irq[t] EXCEPT !.step = to] = [dev |-> irq[t].dev, step |-> to]
         /\ step \in {"getc", "list", "listing"} => irq[t].dev \in {"kbd", "uart"}
         /\ step \in {"tick", "yield", "yielded"} => irq[t].dev = "timer"
         /\ step = "wake" => irq[t].dev \in {"kbd", "uart", "timer"}
<1>1. irq[t] \in Frames /\ irq[t].step = step
  BY HandlerFits, Zenon
<1> QED BY <1>1 DEF Frames

\* A handler goes on with the step to.
LEMMA GoOnStep ==
  ASSUME ConsoleInv, NEW c \in CPU, NEW t \in Thread, NEW step, step # "none", InHandler(c, t, step),
         NEW to \in {"getc", "list", "listing", "wake", "tail", "yield"},
         to = "yield" => t \in Proc,
         NEW d, irq[t].dev = d, [dev |-> d, step |-> to] \in Frames,
         irq' = [irq EXCEPT ![t].step = to],
         proc' \in [Proc -> ProcType], \A q \in Proc : Idle(q),
         sched' = sched, DevicesType', Same(m, m', c),
         Fits(m', c, LocksAt(to, "input", d), DepthAt(to), FlagAt(to))
  PROVE  ConsoleInv'
<1> USE Zenon
<1> DEFINE f == [dev |-> d, step |-> to]
<1>1. irq' = [irq EXCEPT ![t] = f]
  <2>1. [irq[t] EXCEPT !.step = to] = f
    BY FrameIs
  <2> QED BY <2>1
<1>2. f # NoFrame /\ f.step # "yielded" /\ f.step = to /\ f.dev = d
  BY DEF NoFrame
<1>3. m.cpu[c].on = t /\ Below(t)
  BY HandlerFits, HandlerBelow
<1> HIDE DEF f
<1>4. f \in Frames /\ Fits(m', c, LocksAt(f.step, "input", f.dev), DepthAt(f.step), FlagAt(f.step))
  BY <1>2 DEF f
<1>5. /\ t \in Proc => proc[t].pc \in {"user", "relock", "exit"}
      /\ t \notin Proc => sched[t].pc \in {"idle", "sti"}
  BY <1>3 DEF Below
<1> QED BY <1>1, <1>2, <1>3, <1>4, <1>5, HandlerStep

\* A handler takes a second lock.
LEMMA HandlerAcquire ==
  ASSUME ConsoleInv, NEW c \in CPU, NEW t \in Thread, NEW step, step # "none", InHandler(c, t, step),
         NEW to \in {"getc", "list", "listing", "wake", "tail", "yield"},
         to = "yield" => t \in Proc,
         NEW d, irq[t].dev = d, [dev |-> d, step |-> to] \in Frames,
         irq' = [irq EXCEPT ![t].step = to],
         UNCHANGED <<proc, sched>>, DevicesType',
         NEW k \in Lock, m' = Acquire(m, c, k), k \notin LocksAt(step, "input", d),
         LocksAt(to, "input", d) = LocksAt(step, "input", d) \cup {k},
         DepthAt(step) = 0 \/ k \in {"ptable", "cons"},
         DepthAt(step) \in Nat, DepthAt(to) = DepthAt(step) + 1, FlagAt(to) = FlagAt(step)
  PROVE  ConsoleInv'
<1> USE Zenon
<1>1. /\ m \in Machine /\ m.cpu[c].spin = "no"
      /\ Fits(m, c, LocksAt(step, "input", d), DepthAt(step), FlagAt(step))
  BY HandlerFits
<1>2. /\ Same(m, m', c)
      /\ Fits(m', c, LocksAt(step, "input", d) \cup {k}, DepthAt(step) + 1, FlagAt(step))
  BY <1>1, AcquireFits
<1>3. proc' \in [Proc -> ProcType] /\ \A q \in Proc : Idle(q)
  BY DEF ConsoleInv, TypeInv, Idle
<1>4. Fits(m', c, LocksAt(to, "input", d), DepthAt(to), FlagAt(to))
  BY <1>2
<1> QED BY <1>2, <1>3, <1>4, GoOnStep

\* A handler gives up a lock.
LEMMA HandlerRelease ==
  ASSUME ConsoleInv, NEW c \in CPU, NEW t \in Thread, NEW step, step # "none", InHandler(c, t, step),
         NEW to \in {"getc", "list", "listing", "wake", "tail"},
         NEW d, irq[t].dev = d, [dev |-> d, step |-> to] \in Frames,
         irq' = [irq EXCEPT ![t].step = to],
         proc' \in [Proc -> ProcType], \A q \in Proc : Idle(q),
         sched' = sched, DevicesType',
         NEW k \in Lock, m' = Release(m, c, k), k \in LocksAt(step, "input", d),
         LocksAt(to, "input", d) = LocksAt(step, "input", d) \ {k},
         DepthAt(step) \in Nat, DepthAt(step) > 0,
         DepthAt(to) = DepthAt(step) - 1, FlagAt(to) = FlagAt(step)
  PROVE  ConsoleInv'
<1> USE Zenon
<1>1. /\ m \in Machine /\ m.cpu[c].spin = "no"
      /\ Fits(m, c, LocksAt(step, "input", d), DepthAt(step), FlagAt(step))
  BY HandlerFits
<1>2. /\ Same(m, m', c)
      /\ Fits(m', c, LocksAt(step, "input", d) \ {k}, DepthAt(step) - 1, FlagAt(step))
  BY <1>1, ReleaseFits
<1>3. Fits(m', c, LocksAt(to, "input", d), DepthAt(to), FlagAt(to))
  BY <1>2
<1>4. to \in {"getc", "list", "listing", "wake", "tail", "yield"} /\ to # "yield"
  OBVIOUS
<1> QED BY <1>2, <1>3, <1>4, GoOnStep

\* The steps of a device's handler and of the timer's
LEMMA DevFrames ==
  /\ \A d \in {"kbd", "uart"}, s \in {"getc", "list", "listing", "wake", "tail"} :
        [dev |-> d, step |-> s] \in Frames
  /\ \A s \in {"wake", "tail", "yield"} : [dev |-> "timer", step |-> s] \in Frames
  /\ [dev |-> "yielded", step |-> "tail"] \in Frames
BY Zenon DEF Frames

\* Processes that are left alone: types.
LEMMA ProcSame ==
  ASSUME ConsoleInv, proc' = proc
  PROVE  proc' \in [Proc -> ProcType] /\ \A q \in Proc : Idle(q)
BY Zenon DEF ConsoleInv, TypeInv, Idle

\* The clock ticks with tickslock held.
LEMMA TickInv ==
  ASSUME ConsoleInv, NEW c \in CPU, NEW t \in Thread, Tick(c, t)
  PROVE  ConsoleInv'
<1> USE Zenon
<1>1. /\ InHandler(c, t, "tick") /\ m' = Acquire(m, c, "ptable")
      /\ irq' = [irq EXCEPT ![t].step = "wake"] /\ UNCHANGED <<proc, sched, input>>
      /\ ticks' = Uint(ticks + 1) /\ dev' = [dev EXCEPT !.ticks = @ - 1]
  BY DEF Tick
<1>2. DevicesType'
  <2>1. input \in InputType /\ dev \in DevType /\ ticks \in 0 .. UINT - 1
    BY DEF ConsoleInv, TypeInv, DevicesType
  <2>2. ticks + 1 \in Int
    BY <2>1, ConsoleAssumption, SMT
  <2>3. ticks' \in 0 .. UINT - 1
    BY <1>1, <2>2, UintType
  <2>4. dev.ticks - 1 \in Int
    BY <2>1, SMT DEF DevType
  <2>5. dev' \in DevType
    BY <1>1, <2>1, <2>4 DEF DevType
  <2> QED BY <1>1, <2>1, <2>3, <2>5 DEF DevicesType
<1>3. irq[t].dev = "timer"
  BY <1>1, FrameIs
<1>4. /\ "ptable" \in Lock /\ "ptable" \notin LocksAt("tick", "input", "timer")
      /\ LocksAt("wake", "input", "timer") = LocksAt("tick", "input", "timer") \cup {"ptable"}
  BY Steps, SMT DEF Lock
<1>5. DepthAt("tick") \in Nat /\ DepthAt("wake") = DepthAt("tick") + 1 /\ FlagAt("wake") = FlagAt("tick")
  BY Steps, SMT
<1>6. "tick" # "none" /\ "wake" # "yield"
  OBVIOUS
<1> QED BY <1>1, <1>2, <1>3, <1>4, <1>5, <1>6, DevFrames, HandlerAcquire

\* consoleintr() has read all that there is and gives up input.lock.
LEMMA DrainedInv ==
  ASSUME ConsoleInv, NEW c \in CPU, NEW t \in Thread, Drained(c, t)
  PROVE  ConsoleInv'
<1> USE Zenon
<1> DEFINE d == irq[t].dev
<1>1. /\ InHandler(c, t, "getc") /\ m' = Release(m, c, "input")
      /\ irq' = [irq EXCEPT ![t].step = "tail"] /\ UNCHANGED <<proc, sched, input, dev, ticks, line>>
  BY DEF Drained
<1>2. d \in {"kbd", "uart"}
  BY <1>1, FrameIs
<1> HIDE DEF d
<1>3. /\ "input" \in Lock /\ "input" \in LocksAt("getc", "input", d)
      /\ LocksAt("tail", "input", d) = LocksAt("getc", "input", d) \ {"input"}
  BY Steps DEF Lock
<1>4. /\ DepthAt("getc") \in Nat /\ DepthAt("getc") > 0
      /\ DepthAt("tail") = DepthAt("getc") - 1 /\ FlagAt("tail") = FlagAt("getc")
  BY Steps, SMT
<1>5. "getc" # "none"
  OBVIOUS
<1> QED BY <1>1, <1>2, <1>3, <1>4, <1>5, DevFrames, ProcSame, DevicesSame, HandlerRelease DEF d

\* procdump() ends a cprintf(): it gives up cons.lock and keeps input.lock.
LEMMA ListInv ==
  ASSUME ConsoleInv, NEW c \in CPU, NEW t \in Thread, List(c, t)
  PROVE  ConsoleInv'
<1> USE Zenon
<1> DEFINE d == irq[t].dev
<1>1. /\ InHandler(c, t, "list") /\ m' = Release(m, c, "cons")
      /\ UNCHANGED <<proc, sched, input, dev, ticks, line>>
  BY DEF List
<1>2. PICK to \in {"getc", "listing"} : irq' = [irq EXCEPT ![t].step = to]
  BY DEF List
<1>3. d \in {"kbd", "uart"}
  BY <1>1, FrameIs
<1> HIDE DEF d
<1>4. /\ "cons" \in Lock /\ "cons" \in LocksAt("list", "input", d)
      /\ LocksAt(to, "input", d) = LocksAt("list", "input", d) \ {"cons"}
  BY Steps, SMT DEF Lock
<1>5. /\ DepthAt("list") \in Nat /\ DepthAt("list") > 0
      /\ DepthAt(to) = DepthAt("list") - 1 /\ FlagAt(to) = FlagAt("list")
  BY Steps, SMT
<1>6. "list" # "none"
  OBVIOUS
<1> QED BY <1>1, <1>2, <1>3, <1>4, <1>5, <1>6, DevFrames, ProcSame, DevicesSame, HandlerRelease DEF d

\* procdump() takes cons.lock for the next cprintf() while it has input.lock.
LEMMA ListNextInv ==
  ASSUME ConsoleInv, NEW c \in CPU, NEW t \in Thread, ListNext(c, t)
  PROVE  ConsoleInv'
<1> USE Zenon
<1> DEFINE d == irq[t].dev
<1>1. /\ InHandler(c, t, "listing") /\ m' = Acquire(m, c, "cons")
      /\ irq' = [irq EXCEPT ![t].step = "list"] /\ UNCHANGED <<proc, sched, input, dev, ticks, line>>
  BY DEF ListNext
<1>2. d \in {"kbd", "uart"}
  BY <1>1, FrameIs
<1> HIDE DEF d
<1>3. /\ "cons" \in Lock /\ "cons" \notin LocksAt("listing", "input", d)
      /\ LocksAt("list", "input", d) = LocksAt("listing", "input", d) \cup {"cons"}
  BY Steps, SMT DEF Lock
<1>4. /\ DepthAt("listing") \in Nat
      /\ DepthAt("list") = DepthAt("listing") + 1 /\ FlagAt("list") = FlagAt("listing")
  BY Steps, SMT
<1>5. "listing" # "none" /\ "list" # "yield"
  OBVIOUS
<1> QED BY <1>1, <1>2, <1>3, <1>4, <1>5, DevFrames, DevicesSame, HandlerAcquire DEF d

\* A process whose tick is over takes ptable.lock with no lock held.
LEMMA YieldLockInv ==
  ASSUME ConsoleInv, NEW c \in CPU, NEW p \in Proc, YieldLock(c, p)
  PROVE  ConsoleInv'
<1> USE Zenon
<1>1. /\ InHandler(c, p, "tail") /\ m' = Acquire(m, c, "ptable") /\ irq[p].dev = "timer"
      /\ irq' = [irq EXCEPT ![p].step = "yield"] /\ UNCHANGED <<proc, sched, input, dev, ticks, line>>
  BY DEF YieldLock, Yields
<1>2. /\ "ptable" \in Lock /\ "ptable" \notin LocksAt("tail", "input", "timer")
      /\ LocksAt("yield", "input", "timer") = LocksAt("tail", "input", "timer") \cup {"ptable"}
  BY Steps DEF Lock
<1>3. /\ DepthAt("tail") \in Nat
      /\ DepthAt("yield") = DepthAt("tail") + 1 /\ FlagAt("yield") = FlagAt("tail")
  BY Steps, SMT
<1>4. "tail" # "none"
  OBVIOUS
<1> QED BY <1>1, <1>2, <1>3, <1>4, Threads, DevFrames, DevicesSame, HandlerAcquire

\* wakeup1()
LEMMA Wakeup1Idle ==
  ASSUME ConsoleInv, NEW chan, proc' = Wakeup1(chan)
  PROVE  proc' \in [Proc -> ProcType] /\ \A q \in Proc : Idle(q)
<1> USE Zenon
<1>1. proc \in [Proc -> ProcType]
  BY DEF ConsoleInv, TypeInv
<1> DEFINE w(p) == [proc[p] EXCEPT !.state = "RUNNABLE"]
<1>2. ASSUME NEW p \in Proc
      PROVE  /\ w(p) \in ProcType /\ w(p).pc = proc[p].pc /\ w(p).lk = proc[p].lk
             /\ w(p).chan = proc[p].chan /\ w(p).intena = proc[p].intena /\ w(p).state = "RUNNABLE"
  <2>1. proc[p] \in ProcType
    BY <1>1
  <2> QED BY <2>1 DEF ProcType
<1>3. proc' = [p \in Proc |-> IF proc[p].state = "SLEEPING" /\ proc[p].chan = chan THEN w(p) ELSE proc[p]]
  BY DEF Wakeup1
<1> HIDE DEF w
<1>4. \A p \in Proc : \/ proc'[p] = proc[p]
                      \/ proc[p].state = "SLEEPING" /\ proc'[p] = w(p)
  BY <1>3
<1>5. proc' \in [Proc -> ProcType]
  <2>1. \A p \in Proc : proc'[p] \in ProcType
    BY <1>1, <1>2, <1>4
  <2> QED BY <1>3, <2>1
<1>6. ASSUME NEW q \in Proc PROVE Idle(q)
  <2>1. CASE proc'[q] = proc[q]
    BY <2>1 DEF Idle
  <2>2. CASE proc[q].state = "SLEEPING" /\ proc'[q] = w(q)
    BY <1>2, <2>2 DEF Idle
  <2> QED BY <1>4, <2>1, <2>2
<1> QED BY <1>5, <1>6

\* wakeup() changes sleepers under ptable.lock and gives it up; the timer gives up
\* tickslock too, consoleintr() goes on with input.lock.
LEMMA WakeInv ==
  ASSUME ConsoleInv, NEW c \in CPU, NEW t \in Thread, Wake(c, t)
  PROVE  ConsoleInv'
<1> USE Zenon
<1> DEFINE d == irq[t].dev
           s == Release(m, c, "ptable")
<1>1. /\ InHandler(c, t, "wake") /\ UNCHANGED <<sched, input, dev, ticks, line>>
      /\ m' = IF d = "timer" THEN Release(s, c, "tickslock") ELSE s
      /\ irq' = [irq EXCEPT ![t].step = IF d = "timer" THEN "tail" ELSE "getc"]
  BY DEF Wake
<1>2. proc' \in [Proc -> ProcType] /\ \A q \in Proc : Idle(q)
  <2>1. \E chan : proc' = Wakeup1(chan)
    BY DEF Wake
  <2> QED BY <2>1, Wakeup1Idle
<1>3. d \in {"kbd", "uart", "timer"} /\ "wake" # "none"
  BY <1>1, FrameIs
<1>4. /\ m \in Machine /\ m.cpu[c].spin = "no"
      /\ Fits(m, c, LocksAt("wake", "input", d), DepthAt("wake"), FlagAt("wake"))
  BY <1>1, <1>3, HandlerFits
<1>5. DevicesType'
  BY <1>1, DevicesSame
<1> HIDE DEF d
<1>6. CASE d = "timer"
  <2>1. Fits(m, c, {"tickslock", "ptable"}, 2, "off")
    BY <1>4, <1>6, Steps
  <2>2. Same(m, s, c) /\ s.cpu[c].spin = "no" /\ Fits(s, c, {"tickslock"}, 1, "off")
    <3>1. /\ {"tickslock", "ptable"} \ {"ptable"} = {"tickslock"} /\ 2 - 1 = 1 /\ 2 \in Nat /\ 2 > 0
          /\ "ptable" \in Lock /\ "ptable" \in {"tickslock", "ptable"}
      BY SMT DEF Lock
    <3>2. /\ Same(m, s, c) /\ s.cpu[c].spin = "no"
          /\ Fits(s, c, {"tickslock", "ptable"} \ {"ptable"}, 2 - 1, "off")
      BY <1>4, <2>1, <3>1, ReleaseFits
    <3> QED BY <3>1, <3>2
  <2> HIDE DEF s
  <2>3. Same(s, m', c) /\ Fits(m', c, {}, 0, "off")
    <3>1. {"tickslock"} \ {"tickslock"} = {} /\ 1 - 1 = 0 /\ 1 \in Nat /\ 1 > 0 /\ "tickslock" \in Lock
      BY SMT DEF Lock
    <3>2. s \in Machine
      BY <2>2 DEF Same, Local
    <3>3. Same(s, m', c) /\ Fits(m', c, {"tickslock"} \ {"tickslock"}, 1 - 1, "off")
      BY <1>1, <1>6, <2>2, <3>1, <3>2, ReleaseFits
    <3> QED BY <3>1, <3>3
  <2>4. Same(m, m', c)
    BY <2>2, <2>3, SameTwice
  <2>5. Fits(m', c, LocksAt("tail", "input", d), DepthAt("tail"), FlagAt("tail"))
    BY <2>3, Steps
  <2>6. /\ irq' = [irq EXCEPT ![t].step = "tail"] /\ [dev |-> d, step |-> "tail"] \in Frames
        /\ irq[t].dev = d /\ "tail" # "yield"
    BY <1>1, <1>6, DevFrames DEF d
  <2> QED BY <1>1, <1>2, <1>3, <1>5, <2>4, <2>5, <2>6, GoOnStep
<1>7. CASE d # "timer"
  <2>1. d \in {"kbd", "uart"}
    BY <1>3, <1>7
  <2>2. /\ "ptable" \in Lock /\ "ptable" \in LocksAt("wake", "input", d)
        /\ LocksAt("getc", "input", d) = LocksAt("wake", "input", d) \ {"ptable"}
    BY <1>7, Steps, SMT DEF Lock
  <2>3. /\ DepthAt("wake") \in Nat /\ DepthAt("wake") > 0
        /\ DepthAt("getc") = DepthAt("wake") - 1 /\ FlagAt("getc") = FlagAt("wake")
    BY Steps, SMT
  <2>4. /\ irq' = [irq EXCEPT ![t].step = "getc"] /\ [dev |-> d, step |-> "getc"] \in Frames
        /\ irq[t].dev = d /\ m' = Release(m, c, "ptable")
    BY <1>1, <1>7, <2>1, DevFrames DEF d
  <2> QED BY <1>1, <1>2, <1>3, <1>5, <2>2, <2>3, <2>4, HandlerRelease
<1> QED BY <1>6, <1>7

\* yield(): the process has its own intena again.
LEMMA YieldedInv ==
  ASSUME ConsoleInv, NEW c \in CPU, NEW p \in Proc, Yielded(c, p)
  PROVE  ConsoleInv'
<1> USE Zenon
<1> DEFINE f == [dev |-> "yielded", step |-> "tail"]
           u == Back(m, c, p)
<1>1. /\ InHandler(c, p, "yielded") /\ m' = Release(u, c, "ptable") /\ irq' = [irq EXCEPT ![p] = f]
      /\ UNCHANGED <<proc, sched, input, dev, ticks, line>>
  BY DEF Yielded
<1>2. /\ m \in Machine /\ m.cpu[c].on = p /\ m.cpu[c].spin = "no" /\ p \in Proc \cup {c}
      /\ irq[p] # NoFrame /\ irq[p].step = "yielded"
      /\ Fits(m, c, LocksAt("yielded", "input", irq[p].dev), DepthAt("yielded"), FlagAt("yielded"))
  <2>1. "yielded" # "none" /\ p \in Thread
    BY Threads
  <2> QED BY <1>1, <2>1, HandlerFits
<1>3. Fits(m, c, {"ptable"}, 1, "any")
  BY <1>2, Steps
<1>4. Same(m, u, c) /\ Fits(u, c, {"ptable"}, 1, "off") /\ u.cpu[c].spin = "no"
  <2>1. proc[p] \in ProcType /\ Own(p)
    BY DEF ConsoleInv, TypeInv, PlaceInv
  <2>2. proc[p].intena \in BOOLEAN /\ ~proc[p].intena
    BY <1>2, <2>1 DEF Own, ProcType
  <2>3. "off" \in {"any", IF proc[p].intena THEN "on" ELSE "off"}
    BY <2>2
  <2> QED BY <1>2, <1>3, <2>2, <2>3, IntenaFits DEF Back
<1>5. f \in Frames /\ f # NoFrame /\ f.step = "tail"
  BY DevFrames DEF NoFrame
<1> HIDE DEF f, u
<1>6. Same(u, m', c) /\ Fits(m', c, {}, 0, "off")
  <2>1. {"ptable"} \ {"ptable"} = {} /\ 1 - 1 = 0 /\ 1 \in Nat /\ 1 > 0 /\ "ptable" \in Lock
    BY SMT DEF Lock
  <2>2. u \in Machine
    BY <1>4 DEF Same, Local
  <2>3. Same(u, m', c) /\ Fits(m', c, {"ptable"} \ {"ptable"}, 1 - 1, "off")
    BY <1>1, <1>4, <2>1, <2>2, ReleaseFits
  <2> QED BY <2>1, <2>3
<1>7. Same(m, m', c)
  BY <1>4, <1>6, SameTwice
<1>8. Fits(m', c, LocksAt(f.step, "input", f.dev), DepthAt(f.step), FlagAt(f.step))
  BY <1>5, <1>6, Steps
<1>9. Below(p) /\ f.step # "yielded" /\ f.step # "yield"
  BY <1>2, <1>5, HandlerBelow
<1> QED BY <1>1, <1>2, <1>5, <1>7, <1>8, <1>9, Threads, ProcSame, DevicesSame, HandlerStep DEF Below

\* The handler returns to the thread that it interrupted.
LEMMA ReturnStep ==
  ASSUME ConsoleInv, NEW c \in CPU, NEW t \in Thread, m.cpu[c].on = t,
         irq' = [irq EXCEPT ![t] = NoFrame],
         proc' \in [Proc -> ProcType], \A q \in Proc \ {t} : Idle(q),
         t \in Proc => proc'[t].state = "RUNNING" /\ Own(t)',
         t \in Proc => proc'[t].pc \in {"user", "relock", "exit"},
         t \notin Proc => sched[t].pc \in {"idle", "sti"},
         sched' = sched, DevicesType', Same(m, m', c),
         NEW flag, Fits(m', c, {}, 0, flag),
         flag = "on" \/ (t \in Proc /\ proc'[t].pc = "exit")
  PROVE  ConsoleInv'
<1> USE Zenon
<1>1. irq' \in [Thread -> Frames] /\ irq'[t] = NoFrame /\ \A u \in Thread \ {t} : irq'[u] = irq[u]
  <2>1. irq \in [Thread -> Frames] /\ NoFrame \in Frames
    BY DEF ConsoleInv, TypeInv, Frames, NoFrame
  <2> QED BY <2>1
<1>2. TypeInv'
  BY <1>1 DEF ConsoleInv, TypeInv, Same, Local
<1>3. NoFrame.step = "none" /\ NoFrame.dev = "none"
  BY DEF NoFrame
<1>4. Pos(t)' \in {"user", "relock", "exit", "idle", "sti"} /\ (flag = "on" \/ Pos(t)' = "exit")
  <2>1. Pos(t)' = IF t \in Proc THEN proc'[t].pc ELSE sched[t].pc
    BY <1>1 DEF Pos, Base
  <2> QED BY <2>1
<1>5. Fit(c)'
  <2>1. m'.cpu[c].on = t
    BY DEF Same
  <2>2. Locks(t)' = {} /\ DepthAt(Pos(t))' = 0 /\ FlagAt(Pos(t))' \in {flag, "any"}
    BY <1>4 DEF Locks, LocksAt, DepthAt, FlagAt
  <2>3. ASSUME NEW x, x \in {flag, "any"} PROVE Fits(m', c, {}, 0, x)
    BY <2>3 DEF Fits
  <2> QED BY <2>1, <2>2, <2>3 DEF Fit
<1>6. \A u \in Thread \ {t} : Still(u)
  BY <1>1 DEF Still, Idle
<1>7. t \in Proc \cup {c} /\ m'.cpu[c].on = t
  BY DEF ConsoleInv, CpuInv, Same
<1>8. /\ irq'[c] # NoFrame => sched'[c].pc \in {"idle", "sti"}
      /\ irq'[c].step \notin {"yield", "yielded"}
  <2>1. CASE t = c
    BY <2>1, <1>1, <1>3
  <2>2. CASE t # c
    BY <2>2, <1>1, Threads DEF ConsoleInv, CpuInv
  <2> QED BY <2>1, <2>2
<1>9. CpuInv'
  <2>1. m'.cpu[c].on # c => sched'[c].pc = "scan"
    BY <1>7 DEF ConsoleInv, CpuInv
  <2>2. Local(m, m', c) /\ CpuInv /\ PlaceInv
    BY DEF ConsoleInv, Same
  <2> QED BY <1>5, <1>6, <1>7, <1>8, <2>1, <2>2, CpuStep
<1>10. \A q \in Proc \ {t} : Calm(q)
  BY <1>1, Threads DEF Calm
<1>11. PlaceInv'
  BY <1>10, PlaceStep DEF ConsoleInv
<1> QED BY <1>2, <1>9, <1>11 DEF ConsoleInv

\* A handler returns to the flag that the thread below it had.
LEMMA IretInv ==
  ASSUME ConsoleInv, NEW c \in CPU, NEW t \in Thread, Iret(c, t)
  PROVE  ConsoleInv'
<1> USE Zenon
<1>1. /\ InHandler(c, t, "tail") /\ m' = [m EXCEPT !.cpu[c].iflag = TRUE]
      /\ irq' = [irq EXCEPT ![t] = NoFrame] /\ UNCHANGED <<proc, sched, input, dev, ticks, line>>
  BY DEF Iret
<1>2. "tail" # "none"
  OBVIOUS
<1>3. /\ m \in Machine /\ m.cpu[c].on = t /\ t \in Proc \cup {c} /\ irq[t] # NoFrame
      /\ Fits(m, c, LocksAt("tail", "input", irq[t].dev), DepthAt("tail"), FlagAt("tail"))
  BY <1>1, <1>2, HandlerFits
<1>4. Fits(m, c, {}, 0, "off")
  BY <1>3, Steps
<1>5. Same(m, m', c) /\ Fits(m', c, {}, 0, "on")
  BY <1>1, <1>3, <1>4, FlagFits
<1>6. Below(t)
  BY <1>3, HandlerBelow
<1>7. t \in Proc => proc'[t].state = "RUNNING" /\ Own(t)'
  <2> SUFFICES ASSUME t \in Proc
               PROVE  proc'[t].state = "RUNNING" /\ Own(t)'
    OBVIOUS
  <2>1. proc[t].state = "RUNNING" /\ Own(t)
    BY <1>3 DEF ConsoleInv, PlaceInv
  <2>2. irq'[t] = NoFrame /\ irq'[t].step = "none"
    <3>1. irq'[t] = NoFrame
      BY <1>1 DEF ConsoleInv, TypeInv
    <3> QED BY <3>1, SMT DEF NoFrame
  <2> QED BY <1>1, <2>1, <2>2 DEF Own
<1> QED BY <1>1, <1>3, <1>5, <1>6, <1>7, ProcSame, DevicesSame, ReturnStep DEF Below

\* A killed process exits from the handler, which holds no lock any more.
LEMMA TrapExitInv ==
  ASSUME ConsoleInv, NEW c \in CPU, NEW p \in Proc, TrapExit(c, p)
  PROVE  ConsoleInv'
<1> USE Zenon
<1> DEFINE r == [proc[p] EXCEPT !.pc = "exit"]
<1>1. /\ InHandler(c, p, "tail") /\ proc[p].pc = "user" /\ irq' = [irq EXCEPT ![p] = NoFrame]
      /\ proc' = [proc EXCEPT ![p] = r] /\ UNCHANGED <<m, sched, input, dev, ticks, line>>
  BY DEF TrapExit
<1>2. "tail" # "none" /\ p \in Thread
  BY Threads
<1>3. /\ m \in Machine /\ m.cpu[c].on = p
      /\ Fits(m, c, LocksAt("tail", "input", irq[p].dev), DepthAt("tail"), FlagAt("tail"))
  BY <1>1, <1>2, HandlerFits
<1>4. Fits(m', c, {}, 0, "off") /\ Same(m, m', c)
  BY <1>1, <1>3, Steps DEF Same, Local
<1>5. proc[p] \in ProcType /\ Own(p) /\ proc[p].state = "RUNNING"
  BY <1>3 DEF ConsoleInv, TypeInv, PlaceInv
<1>6. r \in ProcType /\ r.pc = "exit" /\ r.lk = proc[p].lk /\ r.state = "RUNNING"
  BY <1>5, PcType DEF PCs
<1> HIDE DEF r
<1>7. /\ proc' \in [Proc -> ProcType] /\ proc'[p] = r
      /\ \A q \in Proc \ {p} : Idle(q)
  BY <1>1, <1>6, OneProc
<1>8. Own(p)'
  <2>1. irq'[p] = NoFrame /\ irq'[p].step = "none"
    <3>1. irq'[p] = NoFrame
      BY <1>1, <1>2 DEF ConsoleInv, TypeInv
    <3> QED BY <3>1, SMT DEF NoFrame
  <2>2. proc[p].lk = "input"
    BY <1>1, <1>5, InputLock
  <2> QED BY <1>6, <1>7, <2>1, <2>2 DEF Own
<1>9. DevicesType'
  BY <1>1, DevicesSame
<1> QED BY <1>1, <1>2, <1>3, <1>4, <1>6, <1>7, <1>8, <1>9, ReturnStep

-----------------------------------------------------------------------------
(* The devices, and consoleintr(). *)

Sent == Char \cup {"CR", "^H", "DEL", "^U", "^P", "^R"}

\* kbdgetc()
LEMMA KbdgetcType ==
  ASSUME dev \in DevType, NEW b \in Byte
  PROVE  /\ Kbdgetc(b).c \in Sent
         /\ Kbdgetc(b).shift \in SUBSET {"E0ESC", "CTL", "SHIFT", "CAPSLOCK"}
<1> USE Zenon
<1>1. dev.shift \in SUBSET {"E0ESC", "CTL", "SHIFT", "CAPSLOCK"}
  BY DEF DevType
<1>2. \A k, e : Shiftcode(k, e) \subseteq {"CTL", "SHIFT"} /\ Togglecode(k) \subseteq {"CAPSLOCK"}
  BY DEF Shiftcode, Togglecode
<1>3. Pressed(b) \in SUBSET {"E0ESC", "CTL", "SHIFT", "CAPSLOCK"}
  BY <1>1, <1>2 DEF Pressed
<1>4. Released(b) \in SUBSET {"E0ESC", "CTL", "SHIFT", "CAPSLOCK"}
  BY <1>1 DEF Released
<1>5. ASSUME b.key # "E0", NEW on
      PROVE  Charcode(b.key, on) \in Sent /\ Charcode(b.key, on) \notin {"^P", "^R"}
  BY <1>5 DEF Charcode, Upper, Sent, Char, Byte
<1>6. \A x \in Sent : Upper(x) \in Sent /\ Lower(x) \in Sent
  BY SMT DEF Upper, Lower, Sent, Char
<1>7. CASE b.key = "E0"
  <2>1. Kbdgetc(b) = [c |-> "NUL", shift |-> dev.shift \cup {"E0ESC"}]
    BY <1>7 DEF Kbdgetc
  <2> QED BY <1>1, <2>1, SMT DEF Sent, Char
<1>8. CASE b.key # "E0" /\ b.up
  <2>1. Kbdgetc(b) = [c |-> "NUL", shift |-> Released(b)]
    BY <1>8 DEF Kbdgetc
  <2> QED BY <1>4, <2>1, SMT DEF Sent, Char
<1>9. CASE b.key # "E0" /\ ~b.up
  <2> DEFINE on == Pressed(b)
             x == Charcode(b.key, on)
             y == IF "CAPSLOCK" \notin on THEN x ELSE IF Upper(x) # x THEN Upper(x) ELSE Lower(x)
  <2>1. Kbdgetc(b) = [c |-> y, shift |-> on]
    BY <1>9 DEF Kbdgetc
  <2>2. x \in Sent
    BY <1>5, <1>9
  <2>3. y \in Sent
    <3> HIDE DEF x, on
    <3> QED BY <1>6, <2>2
  <2> HIDE DEF x, y, on
  <2>4. Kbdgetc(b).c = y /\ Kbdgetc(b).shift = on
    BY <2>1, SMT
  <2> QED BY <1>3, <2>3, <2>4 DEF on
<1> QED BY <1>7, <1>8, <1>9

\* One character less of device d
LEMMA DevTake ==
  ASSUME dev \in DevType, NEW d \in {"kbd", "uart"}, dev[d] # <<>>,
         NEW shift \in SUBSET {"E0ESC", "CTL", "SHIFT", "CAPSLOCK"}
  PROVE  [dev EXCEPT ![d] = Tail(@), !.shift = shift] \in DevType
<1> USE Zenon
<1>1. dev.kbd \in Seq(Byte) /\ dev.uart \in Seq(Sent)
  BY DEF DevType, Sent
<1>2. CASE d = "kbd"
  <2>1. Tail(dev.kbd) \in Seq(Byte)
    BY <1>1, <1>2, SMT
  <2>2. [dev EXCEPT ![d] = Tail(@), !.shift = shift] = [dev EXCEPT !.kbd = Tail(dev.kbd), !.shift = shift]
    BY <1>2
  <2> QED BY <2>1, <2>2 DEF DevType
<1>3. CASE d = "uart"
  <2>1. Tail(dev.uart) \in Seq(Sent)
    BY <1>1, <1>3, SMT
  <2>2. [dev EXCEPT ![d] = Tail(@), !.shift = shift] = [dev EXCEPT !.uart = Tail(dev.uart), !.shift = shift]
    BY <1>3
  <2> QED BY <2>1, <2>2 DEF DevType, Sent
<1> QED BY <1>2, <1>3

\* No CPU does anything.
LEMMA QuietStep ==
  ASSUME ConsoleInv, UNCHANGED <<m, proc, sched, irq>>, DevicesType'
  PROVE  ConsoleInv'
<1> USE Zenon
<1> DEFINE c == BootCPU
           t == m.cpu[c].on
<1>1. c \in CPU
  BY ConsoleAssumption
<1> HIDE DEF c
<1>2. Fits(m', c, Locks(t), DepthAt(Pos(t)), FlagAt(Pos(t)))
  BY <1>1 DEF ConsoleInv, CpuInv, Fit
<1>3. Same(m, m', c)
  BY DEF ConsoleInv, TypeInv, Same, Local
<1> QED BY <1>1, <1>2, <1>3, UnmovedStep

\* The devices send at any time and touch no CPU.
LEMMA KeyInv ==
  ASSUME ConsoleInv, Key \/ SerialChar
  PROVE  ConsoleInv'
<1> USE Zenon
<1>1. dev \in DevType
  BY DEF ConsoleInv, TypeInv, DevicesType
<1>2. UNCHANGED <<m, proc, sched, irq, input, ticks>> /\ dev.todo # <<>>
  BY DEF Key, SerialChar
<1>3. dev.todo \in Seq(Event)
  BY <1>1 DEF DevType
<1>4. Head(dev.todo) \in Event /\ Tail(dev.todo) \in Seq(Event)
  BY <1>2, <1>3, SMT
<1>5. dev' \in DevType
  <2>1. CASE Key
    <3> DEFINE k == Head(dev.todo)
               down == IF k.up THEN dev.down \ {k.key} ELSE dev.down \cup {k.key}
    <3>1. dev' = [dev EXCEPT !.kbd = Bytes(k.key, k.up), !.todo = Tail(dev.todo), !.down = down]
      BY <2>1 DEF Key
    <3>2. /\ k.key \in {"a", "d", "h", "u", "ret", "ctl", "rctl", "shift", "caps"}
          /\ k.up \in BOOLEAN
      BY <1>4, <2>1 DEF Event, Key
    <3> HIDE DEF k
    <3>3. Bytes(k.key, k.up) \in Seq(Byte)
      <4>1. [key |-> "E0", up |-> FALSE] \in Byte /\ [key |-> "ctl", up |-> k.up] \in Byte
        BY <3>2 DEF Byte
      <4>2. k.key # "rctl" => [key |-> k.key, up |-> k.up] \in Byte
        BY <3>2 DEF Byte
      <4>3. CASE k.key = "rctl"
        <5>1. Bytes(k.key, k.up) = <<[key |-> "E0", up |-> FALSE], [key |-> "ctl", up |-> k.up]>>
          BY <4>3 DEF Bytes
        <5>2. \A x, y \in Byte : <<x, y>> \in Seq(Byte)
          BY SMT
        <5> QED BY <4>1, <5>1, <5>2
      <4>4. CASE k.key # "rctl"
        <5>1. Bytes(k.key, k.up) = <<[key |-> k.key, up |-> k.up]>>
          BY <4>4 DEF Bytes
        <5>2. \A x \in Byte : <<x>> \in Seq(Byte)
          BY SMT
        <5> QED BY <4>2, <4>4, <5>1, <5>2
      <4> QED BY <4>3, <4>4
    <3>4. down \in SUBSET {"a", "d", "h", "u", "ret", "ctl", "rctl", "shift", "caps"}
      <4>1. dev.down \in SUBSET {"a", "d", "h", "u", "ret", "ctl", "rctl", "shift", "caps"}
        BY <1>1 DEF DevType
      <4> QED BY <3>2, <4>1
    <3> HIDE DEF down
    <3> QED BY <1>1, <1>4, <3>1, <3>3, <3>4 DEF DevType
  <2>2. CASE SerialChar
    <3> DEFINE x == Head(dev.todo).key
    <3>1. dev' = [dev EXCEPT !.uart = <<x>>, !.todo = Tail(dev.todo)]
      BY <2>2 DEF SerialChar
    <3>2. x \in Sent
      BY <1>4, <2>2 DEF Event, SerialChar, Sent
    <3> HIDE DEF x
    <3>3. <<x>> \in Seq(Sent)
      BY <3>2, SMT
    <3> QED BY <1>1, <1>4, <3>1, <3>3 DEF DevType, Sent
  <2> QED BY <2>1, <2>2
<1>6. DevicesType'
  BY <1>2, <1>5 DEF ConsoleInv, TypeInv, DevicesType
<1> QED BY <1>2, <1>6, QuietStep

\* A handler that goes on without another lock
LEMMA HandlerStay ==
  ASSUME ConsoleInv, NEW c \in CPU, NEW t \in Thread, InHandler(c, t, "getc"),
         UNCHANGED <<m, proc, sched, irq>>, DevicesType'
  PROVE  ConsoleInv'
BY QuietStep, Zenon

\* consoleintr(): a character is stored.
LEMMA StoreInv ==
  ASSUME ConsoleInv, NEW c \in CPU, NEW t \in Thread, InHandler(c, t, "getc"),
         NEW x \in Char, Store(c, t, x), UNCHANGED <<proc, sched, ticks>>, dev' \in DevType
  PROVE  ConsoleInv'
<1> USE Zenon
<1> DEFINE e == Uint(input.e + 1)
           buf == [input.buf EXCEPT ![input.e % INPUT_BUF] = x]
           stored == [input EXCEPT !.buf[input.e % INPUT_BUF] = x, !.e = e]
           d == irq[t].dev
<1>1. input \in InputType /\ input.e \in Nat /\ ticks \in 0 .. UINT - 1
  BY IndexTypes DEF ConsoleInv, TypeInv, DevicesType
<1>2. e \in 0 .. UINT - 1 /\ input.e % INPUT_BUF \in 0 .. INPUT_BUF - 1
  <2>1. input.e + 1 \in Int /\ input.e \in Int
    BY <1>1, SMT
  <2> QED BY <2>1, UintType
<1> HIDE DEF e
<1>3. input' \in InputType
  <2>1. buf \in [0 .. INPUT_BUF - 1 -> Char]
    BY <1>1 DEF InputType
  <2>2. stored = [input EXCEPT !.buf = buf, !.e = e]
    OBVIOUS
  <2>3. input' \in {stored, [stored EXCEPT !.w = e]}
    BY DEF Store, e
  <2> HIDE DEF buf
  <2>4. [input EXCEPT !.buf = buf, !.e = e] \in InputType
    BY <1>1, <1>2, <2>1 DEF InputType
  <2>5. stored \in InputType
    BY <2>2, <2>4
  <2> HIDE DEF stored
  <2>6. [stored EXCEPT !.w = e] \in InputType
    BY <1>2, <2>5 DEF InputType
  <2> QED BY <2>3, <2>5, <2>6
<1>4. DevicesType'
  BY <1>1, <1>3 DEF DevicesType
<1>5. CASE UNCHANGED <<m, irq>>
  BY <1>4, <1>5, HandlerStay
<1>6. CASE m' = Acquire(m, c, "ptable") /\ irq' = [irq EXCEPT ![t].step = "wake"]
  <2>1. d \in {"kbd", "uart"} /\ "getc" # "none" /\ "wake" # "yield"
    BY FrameIs
  <2> HIDE DEF d
  <2>2. /\ "ptable" \in Lock /\ "ptable" \notin LocksAt("getc", "input", d)
        /\ LocksAt("wake", "input", d) = LocksAt("getc", "input", d) \cup {"ptable"}
    BY <2>1, Steps, SMT DEF Lock
  <2>3. DepthAt("getc") \in Nat /\ DepthAt("wake") = DepthAt("getc") + 1 /\ FlagAt("wake") = FlagAt("getc")
    BY Steps, SMT
  <2>4. UNCHANGED <<proc, sched>>
    OBVIOUS
  <2> QED BY <1>4, <1>6, <2>1, <2>2, <2>3, <2>4, DevFrames, HandlerAcquire DEF d
<1> QED BY <1>5, <1>6 DEF Store

\* What the next character of a device can be
LEMMA GotTypes ==
  ASSUME dev \in DevType, NEW d \in {"kbd", "uart"}, dev[d] # <<>>,
         NEW got, got = IF d = "kbd" THEN Kbdgetc(Head(dev.kbd)) ELSE Uartgetc(Head(dev.uart))
  PROVE  got.c \in Sent /\ got.shift \in SUBSET {"E0ESC", "CTL", "SHIFT", "CAPSLOCK"}
<1> USE Zenon
<1>1. dev.kbd \in Seq(Byte) /\ dev.uart \in Seq(Sent) /\ dev.shift \in SUBSET {"E0ESC", "CTL", "SHIFT", "CAPSLOCK"}
  BY DEF DevType, Sent
<1>2. CASE d = "kbd"
  <2>1. Head(dev.kbd) \in Byte
    <3>1. dev.kbd # <<>>
      BY <1>2
    <3> QED BY <1>1, <3>1, SMT
  <2>2. got = Kbdgetc(Head(dev.kbd))
    BY <1>2
  <2> QED BY <2>1, <2>2, KbdgetcType
<1>3. CASE d = "uart"
  <2>1. Head(dev.uart) \in Sent
    <3>1. dev.uart # <<>>
      BY <1>3
    <3> QED BY <1>1, <3>1, SMT
  <2>2. got = [c |-> Head(dev.uart), shift |-> dev.shift]
    BY <1>3 DEF Uartgetc
  <2>3. got.c = Head(dev.uart) /\ got.shift = dev.shift
    BY ONLY <2>2, Zenon
  <2> QED BY <1>1, <2>1, <2>3
<1> QED BY <1>2, <1>3

\* consoleintr()
LEMMA GetcInv ==
  ASSUME ConsoleInv, NEW c \in CPU, NEW t \in Thread, Getc(c, t)
  PROVE  ConsoleInv'
<1> USE Zenon
<1> DEFINE d == irq[t].dev
           got == IF d = "kbd" THEN Kbdgetc(Head(dev.kbd)) ELSE Uartgetc(Head(dev.uart))
           x == got.c
<1>1. /\ InHandler(c, t, "getc") /\ dev[d] # <<>>
      /\ dev' = [dev EXCEPT ![d] = Tail(@), !.shift = got.shift]
      /\ UNCHANGED <<proc, sched, ticks>>
  BY DEF Getc
<1>2. d \in {"kbd", "uart"} /\ "getc" # "none" /\ "list" # "yield"
  BY <1>1, FrameIs
<1>3. dev \in DevType /\ input \in InputType /\ ticks \in 0 .. UINT - 1
  BY DEF ConsoleInv, TypeInv, DevicesType
<1>4. x \in Sent /\ got.shift \in SUBSET {"E0ESC", "CTL", "SHIFT", "CAPSLOCK"}
  BY <1>1, <1>2, <1>3, GotTypes
<1>5. dev' \in DevType
  <2> HIDE DEF d, got
  <2> QED BY <1>1, <1>2, <1>3, <1>4, DevTake DEF d
<1>6. \/ /\ x = "^P" \/ x = "^R"
         /\ m' = Acquire(m, c, "cons") /\ irq' = [irq EXCEPT ![t].step = "list"] /\ input' = input
      \/ UNCHANGED <<m, irq, input>>
      \/ (\E k \in 0 .. Uint(input.e - input.w) : input' = [input EXCEPT !.e = Uint(input.e - k)]) /\ UNCHANGED <<m, irq>>
      \/ input' = [input EXCEPT !.e = IF @ # input.w THEN Uint(@ - 1) ELSE @] /\ UNCHANGED <<m, irq>>
      \/ x \notin {"^P", "^R", "^U", "^H", "DEL"} /\ Store(c, t, IF x = "CR" THEN "LF" ELSE x)
  <2> HIDE DEF x
  <2> QED BY DEF Getc, x
<1> HIDE DEF x, got
<1>7. ASSUME input' \in InputType, UNCHANGED <<m, irq>> PROVE ConsoleInv'
  <2>1. DevicesType'
    BY <1>1, <1>3, <1>5, <1>7 DEF DevicesType
  <2> QED BY <1>1, <1>7, <2>1, HandlerStay
<1>8. CASE m' = Acquire(m, c, "cons") /\ irq' = [irq EXCEPT ![t].step = "list"] /\ input' = input
  <2> HIDE DEF d
  <2>1. /\ "cons" \in Lock /\ "cons" \notin LocksAt("getc", "input", d)
        /\ LocksAt("list", "input", d) = LocksAt("getc", "input", d) \cup {"cons"}
    BY Steps, SMT DEF Lock
  <2>2. DepthAt("getc") \in Nat /\ DepthAt("list") = DepthAt("getc") + 1 /\ FlagAt("list") = FlagAt("getc")
    BY Steps, SMT
  <2>3. DevicesType'
    BY <1>1, <1>3, <1>5, <1>8 DEF DevicesType
  <2> QED BY <1>1, <1>2, <1>8, <2>1, <2>2, <2>3, DevFrames, HandlerAcquire DEF d
<1>9. CASE UNCHANGED <<m, irq, input>>
  BY <1>3, <1>7, <1>9
<1>10. ASSUME NEW e \in 0 .. UINT - 1, input' = [input EXCEPT !.e = e], UNCHANGED <<m, irq>>
       PROVE  ConsoleInv'
  <2>1. input' \in InputType
    BY <1>3, <1>10 DEF InputType
  <2> QED BY <1>7, <1>10, <2>1
<1>11. (IF input.e # input.w THEN Uint(input.e - 1) ELSE input.e) \in 0 .. UINT - 1
  <2>1. input.e - 1 \in Int
    BY IndexTypes, SMT
  <2>2. input.e \in 0 .. UINT - 1
    BY <1>3 DEF InputType
  <2> QED BY <2>1, <2>2, UintType
<1>12. CASE x \notin {"^P", "^R", "^U", "^H", "DEL"} /\ Store(c, t, IF x = "CR" THEN "LF" ELSE x)
  <2>1. (IF x = "CR" THEN "LF" ELSE x) \in Char
    BY <1>4, <1>12 DEF Sent, Char
  <2> QED BY <1>1, <1>5, <1>12, <2>1, StoreInv
<1>13. \A k \in 0 .. Uint(input.e - input.w) : Uint(input.e - k) \in 0 .. UINT - 1
  BY IndexTypes, UintType, SMT
<1> QED BY <1>6, <1>8, <1>9, <1>10, <1>11, <1>12, <1>13

-----------------------------------------------------------------------------
(* The invariant. *)

\* At boot nothing is held.
LEMMA ConsoleInitInv ==
  ASSUME Init
  PROVE  ConsoleInv
<1> USE Zenon
<1> DEFINE k0(c) == [on |-> c, iflag |-> TRUE, ncli |-> 0, intena |-> FALSE, spin |-> "no"]
<1>1. /\ m = [cpu |-> [c \in CPU |-> k0(c)], lock |-> [k \in Lock |-> NoCPU], panic |-> ""]
      /\ sched = [c \in CPU |-> [pc |-> "idle", at |-> 1]]
      /\ irq = [t \in Thread |-> NoFrame]
      /\ input = [buf |-> [i \in 0 .. INPUT_BUF - 1 |-> "NUL"], r |-> 0, w |-> 0, e |-> 0]
      /\ ticks = UINT - 1
  BY DEF Init
<1>2. PICK s \in Scenarios :
          /\ dev = [kbd |-> <<>>, uart |-> <<>>, down |-> {}, shift |-> {},
                    todo |-> s.script, ticks |-> s.ticks]
          /\ proc = [p \in Proc |->
                        [state |-> "RUNNABLE", chan |-> "none", killed |-> FALSE,
                         pc |-> "forkret", intena |-> FALSE, n |-> 0, got |-> <<>>,
                         ticks0 |-> 0, lk |-> "input", calls |-> s.calls[p]]]
  BY DEF Init
<1>3. ASSUME NEW c \in CPU PROVE k0(c) \in CpuType
  <2>1. c \in Thread /\ 0 \in Nat
    BY Threads
  <2> QED BY <2>1 DEF CpuType
<1>4. /\ \A c \in CPU : /\ m.cpu[c].on = c /\ m.cpu[c].iflag = TRUE /\ m.cpu[c].ncli = 0
                        /\ m.cpu[c].spin = "no"
      /\ \A l \in Lock : m.lock[l] = NoCPU
  BY <1>1
<1>5. m \in Machine
  <2>1. [c \in CPU |-> k0(c)] \in [CPU -> CpuType]
    BY <1>3
  <2> HIDE DEF k0
  <2> QED BY <1>1, <2>1 DEF Machine
<1>6. \A p \in Proc : /\ proc[p] \in ProcType /\ proc[p].state = "RUNNABLE" /\ proc[p].pc = "forkret"
                      /\ proc[p].lk = "input"
  <2> TAKE p \in Proc
  <2>1. s.calls[p] \in SUBSET ({"read", "write", "sleep", "kill"} \X Nat)
    BY ConsoleAssumption
  <2>2. 0 \in Nat /\ <<>> \in Seq(Char) /\ 0 \in 0 .. UINT - 1
    BY ConsoleAssumption, SMT
  <2> DEFINE r0 == [state |-> "RUNNABLE", chan |-> "none", killed |-> FALSE,
                    pc |-> "forkret", intena |-> FALSE, n |-> 0, got |-> <<>>,
                    ticks0 |-> 0, lk |-> "input", calls |-> s.calls[p]]
  <2>3. proc[p] = r0
    BY <1>2
  <2>4. "forkret" \in PCs
    BY DEF PCs
  <2>5. r0 \in ProcType
    BY <2>1, <2>2, <2>4 DEF ProcType
  <2>6. r0.state = "RUNNABLE" /\ r0.pc = "forkret" /\ r0.lk = "input"
    OBVIOUS
  <2> HIDE DEF r0
  <2> QED BY <2>3, <2>5, <2>6
<1>7. proc \in [Proc -> ProcType]
  BY <1>2, <1>6
<1>8. /\ \A c \in CPU : sched[c].pc = "idle"
      /\ \A t \in Thread : irq[t] = NoFrame
      /\ NoFrame.step = "none" /\ NoFrame.dev = "none"
  BY <1>1 DEF NoFrame
<1>9. TypeInv
  <2>1. sched \in [CPU -> [pc : {"idle", "scan", "sti"}, at : Nat]]
    BY <1>1
  <2>2. irq \in [Thread -> Frames]
    BY <1>1 DEF NoFrame, Frames
  <2>3. input \in InputType /\ ticks \in 0 .. UINT - 1
    <3>1. 0 \in 0 .. UINT - 1 /\ UINT - 1 \in 0 .. UINT - 1 /\ "NUL" \in Char
      BY ConsoleAssumption, SMT DEF Char
    <3>2. [i \in 0 .. INPUT_BUF - 1 |-> "NUL"] \in [0 .. INPUT_BUF - 1 -> Char]
      BY <3>1
    <3> QED BY <1>1, <3>1, <3>2 DEF InputType
  <2>4. dev \in DevType
    <3>1. s.script \in Seq(Event) /\ s.ticks \in Int
      BY ConsoleAssumption, SMT
    <3>2. <<>> \in Seq(Byte) /\ <<>> \in Seq(Char \cup {"CR", "^H", "DEL", "^U", "^P", "^R"})
      BY SMT
    <3> QED BY <1>2, <3>1, <3>2 DEF DevType
  <2> QED BY <1>5, <1>7, <2>1, <2>2, <2>3, <2>4 DEF TypeInv, DevicesType
<1>10. CpuInv
  <2> SUFFICES ASSUME NEW c \in CPU
               PROVE  /\ m.cpu[c].on \in Proc \cup {c}
                      /\ Fit(c)
                      /\ m.cpu[c].on # c => sched[c].pc = "scan"
                      /\ irq[c] # NoFrame => sched[c].pc \in {"idle", "sti"}
                      /\ irq[c].step \notin {"yield", "yielded"}
    BY DEF CpuInv
  <2>1. Pos(c) = "idle" /\ Locks(c) = {}
    <3>1. Pos(c) = "idle"
      BY <1>8, Threads DEF Pos, Base
    <3> QED BY <3>1 DEF Locks, LocksAt
  <2>2. Fits(m, c, {}, 0, "on")
    BY <1>4, ConsoleAssumption, SMT DEF Fits
  <2>3. Fit(c)
    <3>1. DepthAt("idle") = 0 /\ FlagAt("idle") = "on" /\ m.cpu[c].on = c
      BY <1>4, Steps
    <3> QED BY <2>1, <2>2, <3>1 DEF Fit
  <2> QED BY <1>4, <1>8, <2>3, Threads
<1>11. PlaceInv
  <2>1. \A c, d \in CPU : m.cpu[c].on = m.cpu[d].on => c = d
    BY <1>4
  <2>2. ASSUME NEW p \in Proc
        PROVE  /\ Own(p)
               /\ ~\E c \in CPU : m.cpu[c].on = p
               /\ Pos(p) = "forkret"
    <3>1. ~\E c \in CPU : m.cpu[c].on = p
      BY <1>4, Threads
    <3>2. irq[p] = NoFrame /\ irq[p].step = "none"
      BY <1>8, Threads
    <3> QED BY <1>6, <3>1, <3>2 DEF Own, Pos, Base
  <2>3. \A p \in Proc : proc[p].state # "RUNNING" /\ proc[p].state # "SLEEPING"
    BY <1>6
  <2> QED BY <2>1, <2>2, <2>3 DEF PlaceInv
<1> QED BY <1>9, <1>10, <1>11 DEF ConsoleInv

\* The steps of the system by who takes them.
LEMMA NextIs ==
  ASSUME [Next]_vars
  PROVE  \/ \E c \in CPU : CpuNext(c)
         \/ \E c \in CPU, p \in Proc : ProcNext(c, p)
         \/ \E c \in CPU, p \in Proc : \E call \in proc[p].calls : CallNext(c, p, call)
         \/ \E c \in CPU, t \in Thread : HandlerNext(c, t)
         \/ Key \/ SerialChar
         \/ UNCHANGED vars
BY Zenon DEF Next

\* Every step keeps the invariant: one lemma for each action.
LEMMA ConsoleNextInv ==
  ASSUME ConsoleInv, [Next]_vars
  PROVE  ConsoleInv'
<1> USE Zenon
<1>1. ASSUME NEW c \in CPU, CpuNext(c)
      PROVE  ConsoleInv'
  BY <1>1, XchgInv, StiInv, SchedulerLockInv, SchedulerScanInv DEF CpuNext
<1>2. ASSUME NEW c \in CPU, NEW p \in Proc, ProcNext(c, p)
      PROVE  ConsoleInv'
  BY <1>2, ForkretInv, SleepInv, AwakeInv, RelockInv, SyscallKilledInv, ExitInv, ZombieInv,
     ReadBlockInv, ReadCharInv, ReadEndInv, WriteEndInv, Ticks0Inv, NapInv, KillInv,
     TrapExitInv, YieldLockInv, YieldInv, YieldedInv DEF ProcNext
<1>3. ASSUME NEW c \in CPU, NEW p \in Proc, NEW call \in proc[p].calls, CallNext(c, p, call)
      PROVE  ConsoleInv'
  <2>1. proc[p].calls \in SUBSET ({"read", "write", "sleep", "kill"} \X Nat)
    BY DEF ConsoleInv, TypeInv, ProcType
  <2>2. call[2] \in Nat
    BY <2>1
  <2> QED BY <1>3, <2>2, ConsolereadInv, ConsolewriteInv, SysSleepInv, SysKillInv DEF CallNext
<1>4. ASSUME NEW c \in CPU, NEW t \in Thread, HandlerNext(c, t)
      PROVE  ConsoleInv'
  BY <1>4, TimerInv, TickInv, GetcInv, DrainedInv, ListInv, ListNextInv, WakeInv, IretInv,
     DevintrInv DEF HandlerNext
<1>5. CASE Key \/ SerialChar
  BY <1>5, KeyInv
<1>6. CASE UNCHANGED vars
  <2>1. UNCHANGED <<m, proc, sched, irq, input, dev, ticks>>
    BY <1>6 DEF vars
  <2> QED BY <2>1, DevicesSame, QuietStep
<1> QED BY <1>1, <1>2, <1>3, <1>4, <1>5, <1>6, NextIs

\* The locks that a CPU has, the depth of its pushcli() calls and its interrupt
\* flag are always those of the place where the thread that it executes is, in
\* its own code or in a handler, and each running process is on one CPU.
THEOREM ConsoleInvariant == Spec => []ConsoleInv
BY ConsoleInitInv, ConsoleNextInv, PTL DEF Spec

\* What the places of all threads say of panics and interrupts.
LEMMA LockInvHolds ==
  ASSUME ConsoleInv
  PROVE  LockInv
<1> USE Zenon
<1>1. NoPanic
  BY DEF ConsoleInv, TypeInv, Machine, NoPanic
<1>2. ASSUME NEW c \in CPU
      PROVE  LET t == m.cpu[c].on
                 k == m.cpu[c]
             IN /\ (\E l \in Lock : m.lock[l] = c) => ~k.iflag
                /\ irq[t] # NoFrame => ~k.iflag
                /\ irq[t] = NoFrame /\ k.ncli = 0 =>
                      k.iflag \/ IF t = c THEN sched[c].pc = "sti" ELSE proc[t].pc = "exit"
  <2> DEFINE t == m.cpu[c].on
  <2>1. /\ t \in Proc \cup {c} /\ t \in Thread
        /\ Fits(m, c, Locks(t), DepthAt(Pos(t)), FlagAt(Pos(t)))
    BY Threads DEF ConsoleInv, CpuInv, Fit
  <2>2. irq[t] \in Frames
    BY <2>1 DEF ConsoleInv, TypeInv
  <2> HIDE DEF t
  <2>3. Locks(t) # {} => DepthAt(Pos(t)) > 0
    BY SMT DEF Locks, LocksAt, DepthAt
  <2>4. (\E l \in Lock : m.lock[l] = c) => ~m.cpu[c].iflag
    BY <2>1, <2>3 DEF Fits
  <2>5. irq[t] # NoFrame => ~m.cpu[c].iflag
    <3> SUFFICES ASSUME irq[t] # NoFrame
                 PROVE  ~m.cpu[c].iflag
      OBVIOUS
    <3>1. Pos(t) = irq[t].step
      BY DEF Pos
    <3>2. DepthAt(Pos(t)) > 0 \/ (DepthAt(Pos(t)) = 0 /\ FlagAt(Pos(t)) = "off")
      BY <2>2, <3>1, SMT DEF Frames, NoFrame, DepthAt, FlagAt
    <3> QED BY <2>1, <3>2 DEF Fits
  <2>6. ASSUME irq[t] = NoFrame, m.cpu[c].ncli = 0
        PROVE  m.cpu[c].iflag \/ IF t = c THEN sched[c].pc = "sti" ELSE proc[t].pc = "exit"
    <3>1. Pos(t) = Base(t) /\ DepthAt(Pos(t)) = 0
      BY <2>1, <2>6 DEF Pos, Fits
    <3>2. FlagAt(Pos(t)) = "on" \/ Pos(t) \in {"exit", "tail", "sti"}
      BY <3>1, SMT DEF DepthAt, FlagAt
    <3>3. CASE FlagAt(Pos(t)) = "on"
      BY <2>1, <3>1, <3>3 DEF Fits
    <3>4. CASE Pos(t) \in {"exit", "tail", "sti"}
      <4>1. CASE t = c
        <5>1. Pos(t) = sched[c].pc
          BY <3>1, <4>1, Threads DEF Base
        <5>2. sched[c].pc \in {"idle", "scan", "sti"}
          BY SchedType
        <5> QED BY <3>4, <4>1, <5>1, <5>2
      <4>2. CASE t # c
        <5>1. t \in Proc /\ Pos(t) = proc[t].pc
          BY <2>1, <3>1, <4>2 DEF Base
        <5>2. proc[t].pc \in PCs
          BY <5>1 DEF ConsoleInv, TypeInv, ProcType
        <5> QED BY <3>4, <4>2, <5>1, <5>2 DEF PCs
      <4> QED BY <4>1, <4>2
    <3> QED BY <3>2, <3>3, <3>4
  <2> QED BY <2>4, <2>5, <2>6 DEF t
<1> QED BY <1>1, <1>2 DEF LockInv, InterruptFlag

\* No CPU ever panics in acquire(), release(), popcli() or sched(), and
\* interrupts are off wherever a lock is held or a handler runs and on in user
\* space and in the idle scheduler, for any number of CPUs and processes,
\* whatever they call and whatever interrupts them.
THEOREM LocksAreUsedWell == Spec => []LockInv
BY ConsoleInvariant, LockInvHolds, PTL
=============================================================================
