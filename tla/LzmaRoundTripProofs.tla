------------------------ MODULE LzmaRoundTripProofs ------------------------
(***************************************************************************)
(* What dumbencoder writes is what LzmaDecoder reads, for words, symbols   *)
(* and probabilities of all widths.  The header and the grid that holds    *)
(* the literals' probabilities come first, then the range coder:           *)
(*                                                                         *)
(*   - the bytes a range encoder has written or keeps back are a number,   *)
(*     its Place; the bytes of the finished stream are another, its Value; *)
(*   - every bit moves the place by a part of the range, and what is       *)
(*     written in the end stays inside the range of every bit before;      *)
(*   - so the difference of the two, seen through as many bytes as the     *)
(*     encoder's next carry can reach, is the decoder's code, bit by bit.  *)
(*                                                                         *)
(* The inductive invariant is IndInv: the history of the encoder is a      *)
(* chain of such bits, and the decoder stands at one of its links, or      *)
(* behind the last one where it can read nothing but zeros.                *)
(***************************************************************************)
EXTENDS LzmaRoundTrip, RecursionLemmas

-----------------------------------------------------------------------------
(* The header *)

\* A number below 9 * 5 * 5 and its digits.
LEMMA Digits ==
    ASSUME NEW lc \in 0..8, NEW lp \in 0..4, NEW pb \in 0..4
    PROVE  LET b == lc + 9 * (lp + 5 * pb)
           IN  b \in 0..224 /\ b % 9 = lc /\ (b \div 9) % 5 = lp /\ b \div 45 = pb
<1> DEFINE q == lp + 5 * pb
           b == lc + 9 * q
<1>1. q \in 0..24 /\ b \in 0..224
  OBVIOUS
<1>2. b % 9 = lc /\ b \div 9 = q
  OBVIOUS
<1>3. q % 5 = lp
  OBVIOUS
<1>4. b \div 45 = pb
  OBVIOUS
<1> QED
  BY <1>1, <1>2, <1>3, <1>4

\* The byte the encoder packs its properties in is a valid one, and the decoder
\* unpacks it to them, for all properties the format allows.
THEOREM PropertiesReadBack ==
    ASSUME NEW lc \in 0..8, NEW lp \in 0..4, NEW pb \in 0..4
    PROVE  /\ PropsByte(lc, lp, pb) < 225
           /\ Properties(PropsByte(lc, lp, pb)) = [lc |-> lc, lp |-> lp, pb |-> pb]
BY Digits DEF PropsByte, Properties

\* The decoder works with the encoder's properties and with a dictionary of at
\* least the size it announces; with the size in the header if it is to be
\* taken from there and is not all ones, and with none if that is written for
\* none.
THEOREM HeaderReadsBack ==
    ASSUME NEW lc \in 0..8, NEW lp \in 0..4, NEW pb \in 0..4,
           NEW sizes \in SUBSET (0..(SizeWord - 1) \cup {NoSize}),
           NEW o \in EncoderOptions(sizes), NEW d \in DecoderOptions(sizes),
           d.from # "provided" <=> ~o.skip
    PROVE  LET p == Params(Header(lc, lp, pb, o), d)
           IN  /\ p.props = [lc |-> lc, lp |-> lp, pb |-> pb]
               /\ p.dict >= DictSize
               /\ d.from = "header" /\ o.size # SizeWord - 1 => p.size = o.size
               /\ d.from # "header" => p.size = d.size
<1> DEFINE h == Header(lc, lp, pb, o)
           p == Params(h, d)
<1>1. h[1] = PropsByte(lc, lp, pb) /\ h[2] = DictSize
  BY DEF Header
<1>2. p.props = [lc |-> lc, lp |-> lp, pb |-> pb]
  BY <1>1, PropertiesReadBack DEF Params
<1>3. p.dict >= DictSize
  BY <1>1, FieldAssumption DEF Params
<1>4. ASSUME d.from = "header", o.size # SizeWord - 1 PROVE p.size = o.size
  <2>1. ~o.skip
    BY <1>4
  <2>2. h[3] = IF o.size = NoSize THEN SizeWord - 1 ELSE o.size
    BY <2>1 DEF Header
  <2> QED
    BY <1>4, <2>2 DEF Params
<1>5. d.from # "header" => p.size = d.size
  BY DEF Params
<1> QED
  BY <1>2, <1>3, <1>4, <1>5

-----------------------------------------------------------------------------
(* The grid *)

\* Two elements of a grid are at different places, inside its array.
LEMMA OwnPlace ==
    ASSUME NEW rows \in Nat, NEW cols \in Nat,
           NEW r \in 0..(rows - 1), NEW c \in 0..(cols - 1),
           NEW s \in 0..(rows - 1), NEW e \in 0..(cols - 1)
    PROVE  /\ At(r, c, cols) \in 0..(rows * cols - 1)
           /\ At(r, c, cols) = At(s, e, cols) => r = s /\ c = e
<1>1. r * cols \in Nat /\ s * cols \in Nat /\ rows * cols \in Nat
  BY SMT
<1>2. ASSUME NEW i \in Nat, NEW j \in Nat, i < j
      PROVE  i * cols + cols <= j * cols
  <2>1. PICK k \in Nat : j = i + 1 + k
    <3>1. j - i - 1 \in Nat /\ j = i + 1 + (j - i - 1)
      BY <1>2
    <3> QED
      BY <3>1
  <2>2. j * cols = i * cols + cols + k * cols
    BY <2>1
  <2>3. k * cols \in Nat /\ i * cols \in Nat
    OBVIOUS
  <2> QED
    BY <2>2, <2>3
<1>3. At(r, c, cols) \in 0..(rows * cols - 1)
  <2>1. r * cols + cols <= rows * cols
    BY <1>2
  <2> QED
    BY <1>1, <2>1 DEF At, StartRow
<1>4. ASSUME At(r, c, cols) = At(s, e, cols) PROVE r = s
  <2>1. r * cols + c = s * cols + e
    BY <1>4 DEF At, StartRow
  <2>2. CASE r < s
    <3>1. r * cols + cols <= s * cols
      BY <1>2, <2>2
    <3> QED
      BY <1>1, <2>1, <3>1
  <2>3. CASE s < r
    <3>1. s * cols + cols <= r * cols
      BY <1>2, <2>3
    <3> QED
      BY <1>1, <2>1, <3>1
  <2> QED
    BY <2>2, <2>3
<1>5. ASSUME At(r, c, cols) = At(s, e, cols), r = s PROVE c = e
  BY <1>1, <1>5 DEF At, StartRow
<1> QED
  BY <1>3, <1>4, <1>5

\* The array of a grid is replaced.
LEMMA DataSet ==
    ASSUME NEW data, NEW cols, NEW v
    PROVE  [[data |-> data, cols |-> cols] EXCEPT !.data = v] = [data |-> v, cols |-> cols]
OBVIOUS

\* An element that is set is read back, and every other is as it was: a bit of
\* one literal context adapts no other's.
THEOREM SetAlone ==
    ASSUME NEW X, NEW rows \in Nat, NEW cols \in Nat, NEW x \in X,
           NEW data \in [0..(rows * cols - 1) -> X],
           NEW r \in 0..(rows - 1), NEW c \in 0..(cols - 1),
           NEW s \in 0..(rows - 1), NEW e \in 0..(cols - 1)
    PROVE  LET g == [data |-> data, cols |-> cols]
               h == Set(g, r, c, x)
           IN  /\ h.data \in [0..(rows * cols - 1) -> X] /\ h.cols = cols
               /\ Get(h, s, e) = IF s = r /\ e = c THEN x ELSE Get(g, s, e)
<1> DEFINE g == [data |-> data, cols |-> cols]
           h == Set(g, r, c, x)
           next == [data EXCEPT ![At(r, c, cols)] = x]
<1>1. At(r, c, cols) \in 0..(rows * cols - 1) /\ At(s, e, cols) \in 0..(rows * cols - 1)
  BY OwnPlace
<1>2. At(s, e, cols) = At(r, c, cols) <=> s = r /\ e = c
  <2>1. ASSUME At(s, e, cols) = At(r, c, cols) PROVE s = r /\ e = c
    BY <2>1, OwnPlace
  <2> QED
    BY <2>1
<1>3. h = [data |-> next, cols |-> cols]
  <2>1. g.data = data /\ g.cols = cols
    OBVIOUS
  <2>2. h = [g EXCEPT !.data = [g.data EXCEPT ![At(r, c, g.cols)] = x]]
    BY DEF Set
  <2> QED
    BY <2>1, <2>2
<1>4. Get(h, s, e) = next[At(s, e, cols)] /\ Get(g, s, e) = data[At(s, e, cols)]
  <2>1. h.data = next /\ h.cols = cols /\ g.data = data /\ g.cols = cols
    <3> HIDE DEF next, h
    <3> QED
      BY <1>3
  <2>2. Get(h, s, e) = h.data[At(s, e, h.cols)] /\ Get(g, s, e) = g.data[At(s, e, g.cols)]
    BY DEF Get
  <2> QED
    BY <2>1, <2>2
<1> QED
  BY <1>1, <1>2, <1>3, <1>4

\* After init, and after fill, every element is the same.
THEOREM AllTheSame ==
    ASSUME NEW rows \in Nat, NEW cols \in Nat, NEW x, NEW y,
           NEW r \in 0..(rows - 1), NEW c \in 0..(cols - 1)
    PROVE  /\ Get(Grid(x, rows, cols), r, c) = x
           /\ Get(Fill(Grid(x, rows, cols), y), r, c) = y
<1>1. At(r, c, cols) \in 0..(rows * cols - 1)
  BY OwnPlace
<1>2. Get(Grid(x, rows, cols), r, c) = x
  BY <1>1 DEF Grid, Get
<1>3. Fill(Grid(x, rows, cols), y) = Grid(y, rows, cols)
  <2> DEFINE data == [i \in 0..(rows * cols - 1) |-> x]
             g    == [data |-> data, cols |-> cols]
  <2>1. Grid(x, rows, cols) = g /\ g.data = data /\ DOMAIN data = 0..(rows * cols - 1)
    BY DEF Grid
  <2> DEFINE next == [i \in DOMAIN g.data |-> y]
  <2>2. Fill(g, y) = [g EXCEPT !.data = next]
    BY DEF Fill
  <2>3. [g EXCEPT !.data = next] = [data |-> next, cols |-> cols]
    <3> HIDE DEF next, data
    <3> QED
      BY DataSet
  <2>4. next = [i \in 0..(rows * cols - 1) |-> y]
    BY <2>1
  <2> QED
    BY <2>1, <2>2, <2>3, <2>4 DEF Grid
<1>4. Get(Grid(y, rows, cols), r, c) = y
  BY <1>1 DEF Grid, Get
<1> QED
  BY <1>2, <1>3, <1>4

-----------------------------------------------------------------------------
(* Products *)

\* A product grows with its factors.
LEMMA ProductGrows ==
    ASSUME NEW a \in Nat, NEW b \in Nat, NEW c \in Nat, NEW d \in Nat, a <= b, c <= d
    PROVE  a * c \in Nat /\ b * d \in Nat /\ a * c <= b * d
<1>1. PICK x \in Nat : b = a + x
  <2>1. b - a \in Nat /\ b = a + (b - a)
    OBVIOUS
  <2> QED BY <2>1
<1>2. PICK y \in Nat : d = c + y
  <2>1. d - c \in Nat /\ d = c + (d - c)
    OBVIOUS
  <2> QED BY <2>1
<1>3. (a + x) * (c + y) = a * c + a * y + x * c + x * y
  OBVIOUS
<1>4. a * c \in Nat /\ a * y \in Nat /\ x * c \in Nat /\ x * y \in Nat
  OBVIOUS
<1> QED BY <1>1, <1>2, <1>3, <1>4

\* What stays below n when a digit of base b is put behind it.
LEMMA DigitBehind ==
    ASSUME NEW b \in Nat \ {0}, NEW x \in Nat, NEW y \in 0..(b - 1), NEW n \in Nat
    PROVE  /\ x * b + y \in Nat /\ n * b \in Nat
           /\ x < n <=> x * b + y < n * b
<1>1. x * b \in Nat /\ n * b \in Nat
  OBVIOUS
<1>2. ASSUME x < n PROVE x * b + y < n * b
  <2>1. (x + 1) * b <= n * b
    BY <1>2, ProductGrows
  <2>2. (x + 1) * b = x * b + b
    OBVIOUS
  <2> QED BY <1>1, <2>1, <2>2
<1>3. ASSUME n <= x PROVE n * b <= x * b + y
  <2>1. n * b <= x * b
    BY <1>3, ProductGrows
  <2> QED BY <1>1, <2>1
<1> QED BY <1>1, <1>2, <1>3

\* Division by a number that is not 0.
LEMMA Divided ==
    ASSUME NEW x \in Nat, NEW n \in Nat \ {0}
    PROVE  /\ x \div n \in Nat /\ x % n \in 0..(n - 1)
           /\ n * (x \div n) \in Nat /\ x = n * (x \div n) + (x % n)
  OBVIOUS

\* What dividing n times q and a rest gives.
LEMMA DivideIs ==
    ASSUME NEW n \in Nat \ {0}, NEW q \in Nat, NEW r \in 0..(n - 1)
    PROVE  (n * q + r) \div n = q /\ (n * q + r) % n = r
<1> DEFINE x == n * q + r
           p == x \div n
           s == x % n
<1>1. x \in Nat
  <2>1. n * q \in Nat
    OBVIOUS
  <2> QED BY <2>1
<1>2. p \in Nat /\ s \in 0..(n - 1) /\ x = n * p + s
  <2> HIDE DEF x
  <2> QED BY <1>1, Divided
<1> HIDE DEF p, s
<1>3. n * q + r = n * p + s
  BY <1>2 DEF x
<1>4. ~(q < p)
  <2> SUFFICES ASSUME q < p PROVE FALSE
    OBVIOUS
  <2>1. n * (q + 1) <= n * p
    BY <1>2, ProductGrows
  <2>2. n * (q + 1) = n * q + n /\ n * q \in Nat /\ n * p \in Nat
    BY <1>2
  <2> QED BY <1>2, <1>3, <2>1, <2>2
<1>5. ~(p < q)
  <2> SUFFICES ASSUME p < q PROVE FALSE
    OBVIOUS
  <2>1. n * (p + 1) <= n * q
    BY <1>2, ProductGrows
  <2>2. n * (p + 1) = n * p + n /\ n * q \in Nat /\ n * p \in Nat
    BY <1>2
  <2> QED BY <1>2, <1>3, <2>1, <2>2
<1>6. p = q
  BY <1>2, <1>4, <1>5
<1>7. n * p = n * q /\ n * q \in Nat
  BY <1>6
<1>8. s = r
  BY <1>2, <1>3, <1>7
<1> QED BY <1>6, <1>8 DEF p, s, x

\* A larger number has a larger quotient.
LEMMA QuotientGrows ==
    ASSUME NEW x \in Nat, NEW y \in Nat, NEW n \in Nat \ {0}, x <= y
    PROVE  x \div n <= y \div n
<1> DEFINE p == x \div n
           q == y \div n
<1>1. /\ p \in Nat /\ q \in Nat /\ n * p \in Nat /\ n * q \in Nat
      /\ n * p <= x /\ y < n * q + n
  BY Divided
<1> HIDE DEF p, q
<1>2. ~(q < p)
  <2> SUFFICES ASSUME q < p PROVE FALSE
    OBVIOUS
  <2>1. n * (q + 1) <= n * p
    BY <1>1, ProductGrows
  <2>2. n * (q + 1) = n * q + n
    BY <1>1
  <2> QED BY <1>1, <2>1, <2>2
<1> QED BY <1>1, <1>2 DEF p, q

-----------------------------------------------------------------------------
(* Widths *)

\* How byte, word and probabilities relate.
LEMMA Widths ==
    /\ Base \in Nat /\ Base >= 2 /\ Top \in Nat /\ Top >= Base
    /\ Word \in Nat /\ Word = Top * Base /\ Top <= Word - 1 /\ 2 * Top <= Word
    /\ Half \in Nat \ {0} /\ ProbTotal = 2 * Half
<1>1. ByteBits \in Nat \ {0} /\ WordBytes - 2 \in Nat /\ WordBytes - 1 \in Nat
      /\ TotalBits - 1 \in Nat
  BY WidthAssumption
<1> DEFINE d == ByteBits - 1
           t == ByteBits * (WordBytes - 2)
<1>2. d \in Nat /\ ByteBits = d + 1
  BY <1>1
<1>3. t \in Nat /\ ByteBits * (WordBytes - 1) = t + ByteBits
      /\ ByteBits * WordBytes = (t + ByteBits) + ByteBits
  <2>1. PICK w \in Nat : w = WordBytes - 2
    BY <1>1
  <2>2. WordBytes = w + 2 /\ WordBytes - 1 = w + 1 /\ ByteBits \in Nat
    BY <1>1, <2>1, WidthAssumption
  <2>3. ByteBits * w \in Nat /\ ByteBits * (w + 1) = ByteBits * w + ByteBits
        /\ ByteBits * (w + 2) = (ByteBits * w + ByteBits) + ByteBits
    BY <2>2
  <2> QED BY <2>1, <2>2, <2>3
<1> HIDE DEF d, t
<1>4. Base = 2 * Pow2(d) /\ Pow2(d) \in Nat \ {0}
  BY <1>2, PowerOfMore DEF Base
<1>5. Top = Pow2(t) * Base /\ Pow2(t) \in Nat \ {0}
  BY <1>1, <1>3, PowerOfMore, PowerOfSum DEF Top, Base
<1>6. Word = Top * Base
  <2>1. t + ByteBits \in Nat /\ ByteBits \in Nat
    BY <1>1, <1>3
  <2>2. Pow2((t + ByteBits) + ByteBits) = Pow2(t + ByteBits) * Pow2(ByteBits)
    BY <2>1, PowerOfSum
  <2> QED BY <1>3, <2>2 DEF Word, Top, Base
<1>7. Half \in Nat \ {0} /\ ProbTotal = 2 * Half
  <2>1. (TotalBits - 1) + 1 = TotalBits
    BY WidthAssumption
  <2>2. Pow2((TotalBits - 1) + 1) = 2 * Pow2(TotalBits - 1)
    BY <1>1, PowerOfMore
  <2> QED BY <1>1, <2>1, <2>2, PowerOfMore DEF Half, ProbTotal
<1>8. Base \in Nat /\ Base >= 2
  BY <1>4
<1>9. Top \in Nat /\ Top >= Base
  <2>1. 1 * Base <= Pow2(t) * Base /\ Pow2(t) * Base \in Nat
    BY <1>5, <1>8, ProductGrows
  <2> QED BY <1>5, <1>8, <2>1
<1>10. Word \in Nat /\ 2 * Top <= Word
  <2>1. Top * 2 <= Top * Base /\ Top * Base \in Nat
    BY <1>8, <1>9, ProductGrows
  <2> QED BY <1>6, <1>9, <2>1
<1> QED BY <1>6, <1>7, <1>8, <1>9, <1>10

\* The probabilities that adapting leads to.
Least == Pow2(MoveBits) - 1
Usable == Least..(ProbTotal - Least)

\* A half is one of them, and none is 0 or certain.
LEMMA Probabilities ==
    /\ Least \in Nat \ {0} /\ Half \in Usable /\ Usable \subseteq 1..(ProbTotal - 1)
    /\ ProbTotal <= Top /\ ProbTotal \in Nat \ {0}
<1>1. MoveBits \in Nat \ {0} /\ TotalBits \in Nat /\ TotalBits - 1 \in Nat
      /\ MoveBits <= TotalBits - 1
  BY WidthAssumption
<1>2. Pow2(MoveBits) >= 2 /\ Pow2(MoveBits) \in Nat
  <2>1. 0 \in Nat /\ MoveBits \in Nat /\ 0 < MoveBits
    BY <1>1
  <2>2. 2 * Pow2(0) <= Pow2(MoveBits)
    BY <2>1, PowerGrows
  <2> QED BY <2>1, <2>2, PowerOfMore
<1>3. Pow2(MoveBits) <= Half
  <2>1. CASE MoveBits = TotalBits - 1
    BY <2>1, <1>2 DEF Half
  <2>2. CASE MoveBits < TotalBits - 1
    <3>1. 2 * Pow2(MoveBits) <= Half
      BY <1>1, <2>2, PowerGrows DEF Half
    <3> QED BY <1>2, <3>1, Widths
  <2> QED BY <1>1, <2>1, <2>2
<1>4. Least \in Nat \ {0} /\ Half \in Usable /\ Usable \subseteq 1..(ProbTotal - 1)
  BY <1>2, <1>3, Widths DEF Least, Usable
<1>5. ProbTotal <= Top
  <2> SUFFICES ASSUME Top < ProbTotal PROVE FALSE
    BY Widths
  <2> DEFINE q == Top \div ProbTotal
  <2>1. ProbTotal \in Nat \ {0} /\ Top \in Nat \ {0}
    BY Widths
  <2>2. q = 0
    <3>1. ProbTotal * 0 + Top = Top /\ Top \in 0..(ProbTotal - 1)
      BY <2>1
    <3>2. (ProbTotal * 0 + Top) \div ProbTotal = 0
      BY <2>1, <3>1, DivideIs
    <3> QED BY <3>1, <3>2
  <2>3. (q * Least) * Base >= Top
    BY ShiftAssumption DEF Least
  <2> HIDE DEF q
  <2>4. q * Least = 0 /\ 0 * Base = 0
    BY <1>4, <2>2, Widths
  <2> QED BY <2>1, <2>3, <2>4
<1> QED BY <1>4, <1>5, Widths

\* Adapting comes to an end before certainty.
LEMMA AdaptedUsable ==
    ASSUME NEW prob \in Usable, NEW bit \in {0, 1}
    PROVE  Adapted(prob, bit) \in Usable
<1> DEFINE m == Pow2(MoveBits)
<1>1. m \in Nat \ {0} /\ Least = m - 1 /\ Least \in Nat \ {0} /\ ProbTotal \in Nat
      /\ prob \in Nat /\ ProbTotal - prob \in Nat
  <2>1. MoveBits \in Nat
    BY WidthAssumption
  <2> QED BY <2>1, Probabilities, PowerOfMore DEF Least, Usable
<1> HIDE DEF m
<1>2. ASSUME NEW x \in Nat, x >= m - 1
      PROVE  x \div m \in Nat /\ x - (x \div m) >= m - 1 /\ x - (x \div m) <= x
  <2> DEFINE q == x \div m
  <2>1. q \in Nat /\ x % m \in 0..(m - 1) /\ m * q \in Nat /\ x = m * q + (x % m)
    BY <1>1, Divided
  <2> HIDE DEF q
  <2>2. CASE q = 0
    BY <1>2, <2>1, <2>2, <1>1 DEF q
  <2>3. CASE q >= 1
    <3>1. m * q - q = (m - 1) * q
      BY <1>1, <2>1
    <3>2. (m - 1) * 1 <= (m - 1) * q
      BY <1>1, <2>1, <2>3, ProductGrows
    <3>3. x - q >= m * q - q
      BY <1>1, <2>1
    <3>4. (m - 1) * q \in Nat /\ (m - 1) * 1 = m - 1
      BY <1>1, <2>1
    <3>5. x - q >= m - 1 /\ x - q <= x /\ q \in Nat
      BY <1>1, <2>1, <3>1, <3>2, <3>3, <3>4
    <3> QED BY <3>5 DEF q
  <2> QED BY <2>1, <2>2, <2>3
<1>3. CASE bit = 1
  <2>1. prob >= m - 1 /\ prob <= ProbTotal - Least
    BY <1>1 DEF Usable
  <2>2. Adapted(prob, bit) = prob - (prob \div m)
    BY <1>3 DEF Adapted, m
  <2> DEFINE y == prob \div m
  <2>3. y \in Nat /\ prob - y >= m - 1 /\ prob - y <= prob
    BY <1>1, <1>2, <2>1
  <2> HIDE DEF y
  <2>4. prob - y \in Usable
    BY <1>1, <2>1, <2>3 DEF Usable
  <2> QED BY <2>2, <2>4 DEF y
<1>4. CASE bit = 0
  <2> DEFINE x == ProbTotal - prob
  <2>1. x \in Nat /\ x >= m - 1 /\ prob >= Least
    BY <1>1 DEF Usable
  <2>2. Adapted(prob, bit) = prob + (x \div m)
    BY <1>4 DEF Adapted, m
  <2>3. x \div m \in Nat /\ x - (x \div m) >= m - 1
    <3> HIDE DEF x
    <3> QED BY <1>2, <2>1
  <2> DEFINE y == x \div m
  <2>4. y \in Nat /\ ProbTotal - (prob + y) >= m - 1
    <3> HIDE DEF y
    <3>1. y \in Nat /\ x - y >= m - 1
      BY <2>3 DEF y
    <3> QED BY <1>1, <3>1
  <2> HIDE DEF x, y
  <2>5. prob + y \in Usable
    BY <1>1, <2>1, <2>4 DEF Usable
  <2> QED BY <2>2, <2>5 DEF y
<1> QED BY <1>3, <1>4

\* Either part of a range, however improbable, is right after a shift.
LEMMA Parts ==
    ASSUME NEW range \in Top..(Word - 1), NEW prob \in Usable
    PROVE  LET bound == Bound(range, prob)
           IN  /\ bound \in 1..(range - 1)
               /\ bound * Base >= Top /\ (range - bound) * Base >= Top
<1> DEFINE q == range \div ProbTotal
           q0 == Top \div ProbTotal
           bound == q * prob
<1>1. /\ range \in Nat /\ prob \in Nat /\ ProbTotal \in Nat \ {0} /\ ProbTotal - prob \in Nat
      /\ Least \in Nat /\ Least <= prob /\ Least <= ProbTotal - prob
      /\ Base \in Nat /\ Top \in Nat \ {0} /\ Top <= range
  BY Widths, Probabilities DEF Usable
<1>2. q \in Nat /\ q0 \in Nat /\ q0 <= q /\ ProbTotal * q \in Nat /\ ProbTotal * q <= range
  <2>1. q0 <= q
    BY <1>1, QuotientGrows
  <2>2. q0 \in Nat
    BY <1>1, Divided
  <2>3. /\ q \in Nat /\ range % ProbTotal \in 0..(ProbTotal - 1) /\ ProbTotal * q \in Nat
        /\ range = ProbTotal * q + (range % ProbTotal)
    BY <1>1, Divided
  <2> HIDE DEF q, q0
  <2>4. ProbTotal * q <= range
    BY <1>1, <2>3
  <2> QED BY <2>1, <2>2, <2>3, <2>4
<1>3. (q0 * Least) * Base >= Top
  BY ShiftAssumption DEF Least
<1>4. Bound(range, prob) = bound
  BY DEF Bound
<1> HIDE DEF q, q0
<1>5. ASSUME NEW p \in Nat, Least <= p PROVE q * p \in Nat /\ (q * p) * Base >= Top
  <2>1. q0 * Least <= q * p /\ q0 * Least \in Nat /\ q * p \in Nat
    BY <1>1, <1>2, <1>5, ProductGrows
  <2>2. (q0 * Least) * Base <= (q * p) * Base /\ (q0 * Least) * Base \in Nat /\ (q * p) * Base \in Nat
    BY <1>1, <2>1, ProductGrows
  <2> QED BY <1>1, <1>3, <2>1, <2>2
<1>6. bound \in Nat /\ bound * Base >= Top
  BY <1>1, <1>5
<1> DEFINE part == q * (ProbTotal - prob)
<1>7. part \in Nat /\ part * Base >= Top
  BY <1>1, <1>5
<1>8. ProbTotal * q = bound + part
  BY <1>1, <1>2
<1> HIDE DEF bound, part
<1>9. part <= range - bound /\ range - bound \in Nat
  BY <1>1, <1>2, <1>6, <1>7, <1>8
<1>10. part * Base <= (range - bound) * Base /\ (range - bound) * Base \in Nat /\ part * Base \in Nat
  BY <1>1, <1>7, <1>9, ProductGrows
<1>11. (range - bound) * Base >= Top
  BY <1>1, <1>7, <1>10
<1>12. bound # 0 /\ range - bound # 0
  <2>1. 0 * Base = 0
    BY <1>1
  <2> QED BY <1>1, <1>6, <1>11, <2>1
<1>13. bound \in 1..(range - 1)
  BY <1>1, <1>6, <1>9, <1>12
<1> QED BY <1>4, <1>6, <1>11, <1>13

-----------------------------------------------------------------------------
(* Repeated steps *)

\* The functions that start from x and repeat a step n times.
Iterations(S, x, step, n) ==
    {f \in [0..n -> S] : f[0] = x /\ \A i \in 1..n : f[i] = step[f[i - 1]]}

\* There is one.
LEMMA Iterates ==
    ASSUME NEW S, NEW n \in Nat, NEW x \in S, NEW step \in [S -> S]
    PROVE  Iterations(S, x, step, n) # {}
<1> DEFINE turn == [p \in S \X (1..n) |-> step[p[1]]]
<1>1. turn \in [S \X (1..n) -> S]
  OBVIOUS
<1>2. \A y \in S, i \in 1..n : turn[<<y, i>>] = step[y]
  OBVIOUS
<1> HIDE DEF turn
<1>3. PICK f \in [0..n -> S] : f[0] = x /\ \A i \in 1..n : f[i] = turn[<<f[i - 1], i>>]
  <2>1. Steps(S, x, turn, n) # {}
    BY <1>1, StepByStep
  <2> QED
    BY <2>1 DEF Steps
<1>4. \A i \in 1..n : f[i] = step[f[i - 1]]
  <2> TAKE i \in 1..n
  <2>1. f[i - 1] \in S
    OBVIOUS
  <2> QED BY <1>2, <1>3, <2>1
<1> QED BY <1>3, <1>4 DEF Iterations

-----------------------------------------------------------------------------
(* The encoder *)

\* The fields of a range encoder.
EncoderState ==
    [range : 0..(Word - 1), low : Nat, cache : 0..(Base - 1), cachesz : Nat \ {0},
     out : Seq(0..(Base - 1))]

\* No carry can come any more through the byte that low ends in, and the bytes
\* that are written then.
Settled(e) == e.low < (Base - 1) * Top \/ e.low >= Word
Waiting(e) == [i \in 1..e.cachesz |->
                  ((IF i = 1 THEN e.cache ELSE Base - 1) + (e.low \div Word)) % Base]

\* A byte is taken from low.
LEMMA WriteLowFields ==
    ASSUME NEW e \in EncoderState
    PROVE  /\ write_low(e) =
                 [range |-> e.range, low |-> (e.low * Base) % Word,
                  cache |-> IF Settled(e) THEN (e.low \div Top) % Base ELSE e.cache,
                  cachesz |-> IF Settled(e) THEN 1 ELSE e.cachesz + 1,
                  out |-> IF Settled(e) THEN e.out \o Waiting(e) ELSE e.out]
           /\ write_low(e) \in EncoderState
           /\ Waiting(e) \in Seq(0..(Base - 1)) /\ Len(Waiting(e)) = e.cachesz
<1> DEFINE settled == Settled(e)
           bytes   == Waiting(e)
<1>1. /\ e.range \in 0..(Word - 1) /\ e.low \in Nat /\ e.cache \in 0..(Base - 1)
      /\ e.cachesz \in Nat \ {0} /\ e.out \in Seq(0..(Base - 1))
      /\ Base \in Nat \ {0} /\ Word \in Nat \ {0} /\ Top \in Nat \ {0}
  BY Widths DEF EncoderState
<1>2. bytes \in Seq(0..(Base - 1)) /\ e.out \o bytes \in Seq(0..(Base - 1)) /\ Len(bytes) = e.cachesz
  <2>1. \A i \in 1..e.cachesz : bytes[i] \in 0..(Base - 1)
    <3>1. e.low \div Word \in Nat
      BY <1>1, Divided
    <3>2. \A x \in Nat : x % Base \in 0..(Base - 1)
      BY <1>1, Divided
    <3>3. \A i \in 1..e.cachesz : (IF i = 1 THEN e.cache ELSE Base - 1) \in Nat
      BY <1>1
    <3>4. \A i \in 1..e.cachesz : (IF i = 1 THEN e.cache ELSE Base - 1) + (e.low \div Word) \in Nat
      BY <3>1, <3>3
    <3> QED BY <3>2, <3>4 DEF Waiting
  <2>2. bytes \in [1..e.cachesz -> 0..(Base - 1)]
    BY <2>1 DEF Waiting
  <2> HIDE DEF bytes
  <2>3. bytes \in Seq(0..(Base - 1)) /\ Len(bytes) = e.cachesz
    BY <1>1, <2>2
  <2> QED BY <1>1, <2>3
<1>3. (e.low \div Top) % Base \in 0..(Base - 1) /\ (e.low * Base) % Word \in Nat
  <2>1. e.low \div Top \in Nat
    BY <1>1, Divided
  <2>2. e.low * Base \in Nat
    BY <1>1
  <2>3. \A x \in Nat : x % Base \in 0..(Base - 1) /\ x % Word \in 0..(Word - 1)
    BY <1>1, Divided
  <2> DEFINE y == e.low \div Top
             z == e.low * Base
  <2> HIDE DEF y, z
  <2>4. y \in Nat /\ z \in Nat
    BY <2>1, <2>2 DEF y, z
  <2>5. y % Base \in 0..(Base - 1) /\ z % Word \in 0..(Word - 1)
    BY <2>3, <2>4
  <2> QED BY <2>5 DEF y, z
<1> DEFINE g == [range |-> e.range, low |-> (e.low * Base) % Word,
                 cache |-> IF settled THEN (e.low \div Top) % Base ELSE e.cache,
                 cachesz |-> IF settled THEN 1 ELSE e.cachesz + 1,
                 out |-> IF settled THEN e.out \o bytes ELSE e.out]
<1>4. write_low(e) = g
  <2> HIDE DEF settled, bytes
  <2>1. e = [range |-> e.range, low |-> e.low, cache |-> e.cache, cachesz |-> e.cachesz,
             out |-> e.out]
    BY DEF EncoderState
  <2>2. write_low(e) = [e EXCEPT !.out     = IF settled THEN @ \o bytes ELSE @,
                      !.cache   = IF settled THEN (e.low \div Top) % Base ELSE @,
                      !.cachesz = IF settled THEN 1 ELSE @ + 1,
                      !.low     = (@ * Base) % Word]
    BY DEF write_low, settled, bytes, Settled, Waiting
  <2> QED BY <2>1, <2>2
<1>5. g \in EncoderState
  <2> HIDE DEF bytes, settled
  <2>1. (IF settled THEN e.out \o bytes ELSE e.out) \in Seq(0..(Base - 1))
    BY <1>1, <1>2
  <2>2. (IF settled THEN 1 ELSE e.cachesz + 1) \in Nat \ {0}
    BY <1>1
  <2>3. (IF settled THEN (e.low \div Top) % Base ELSE e.cache) \in 0..(Base - 1)
    BY <1>1, <1>3
  <2> QED BY <1>1, <1>3, <2>1, <2>2, <2>3 DEF EncoderState
<1> QED BY <1>2, <1>4, <1>5

-----------------------------------------------------------------------------
(* What bytes stand for *)

\* The number the first n bytes of s are, with zeros behind its end.
Value(s, n) ==
    LET value[i \in 0..n] == IF i = 0 THEN 0 ELSE value[i - 1] * Base + ByteAt(s, i)
    IN  value[n]

\* The values of a byte.
Bytes == 0..(Base - 1)

\* A byte of the input, or the zero behind it.
LEMMA ByteAtIs ==
    ASSUME NEW s \in Seq(Bytes), NEW i \in Nat \ {0}
    PROVE  ByteAt(s, i) \in Bytes /\ ByteAt(s, i) \in Nat
<1>1. 0 \in Bytes /\ Bytes \subseteq Nat
  BY Widths DEF Bytes
<1>2. i <= Len(s) => s[i] \in Bytes
  OBVIOUS
<1> QED BY <1>1, <1>2 DEF ByteAt

\* The recursive function is one.
LEMMA ValueIs ==
    ASSUME NEW s \in Seq(Bytes), NEW n \in Nat
    PROVE  \E f \in [0..n -> Nat] :
              /\ f[0] = 0 /\ \A i \in 1..n : f[i] = f[i - 1] * Base + ByteAt(s, i)
              /\ Value(s, n) = f[n]
<1> DEFINE Is(f) == f = [i \in 0..n |-> IF i = 0 THEN 0 ELSE f[i - 1] * Base + ByteAt(s, i)]
           f == CHOOSE g : Is(g)
           step == [p \in Nat \X (1..n) |-> p[1] * Base + ByteAt(s, p[2])]
<1>0. Base \in Nat /\ \A i \in 1..n : ByteAt(s, i) \in Nat
  BY Widths, ByteAtIs
<1>1. step \in [Nat \X (1..n) -> Nat] /\ 0 \in Nat
  <2>1. \A x \in Nat, i \in 1..n : x * Base + ByteAt(s, i) \in Nat
    <3> TAKE x \in Nat, i \in 1..n
    <3>1. x * Base \in Nat
      BY <1>0
    <3> QED BY <1>0, <3>1
  <2> QED BY <2>1
<1>2. \A x \in Nat, i \in 1..n : step[<<x, i>>] = x * Base + ByteAt(s, i)
  OBVIOUS
<1> HIDE DEF step
<1>3. PICK g \in [0..n -> Nat] : g[0] = 0 /\ \A i \in 1..n : g[i] = step[<<g[i - 1], i>>]
  <2>1. Steps(Nat, 0, step, n) # {}
    BY <1>1, StepByStep
  <2> QED
    BY <2>1 DEF Steps
<1>4. /\ 0 \in 0..n /\ \A i \in 0..n : i # 0 => i \in 1..n
      /\ \A i \in 1..n : i \in 0..n /\ i # 0 /\ i - 1 \in 0..n
  OBVIOUS
<1>5. \A i \in 1..n : g[i] = g[i - 1] * Base + ByteAt(s, i)
  BY <1>2, <1>3, <1>4
<1>6. g = [i \in 0..n |-> IF i = 0 THEN 0 ELSE g[i - 1] * Base + ByteAt(s, i)]
  BY <1>3, <1>4, <1>5
<1>7. Is(f)
  BY <1>6, Zenon
<1>8. Value(s, n) = f[n]
  BY Zenon DEF Value
<1> HIDE DEF f
<1>9. f[0] = 0 /\ \A i \in 1..n : f[i] = f[i - 1] * Base + ByteAt(s, i)
  BY <1>4, <1>7
<1>10. \A i \in 0..n : f[i] = g[i]
  <2>1. f[0] = g[0]
    BY <1>3, <1>9
  <2>2. \A i \in 1..n : f[i - 1] = g[i - 1] => f[i] = g[i]
    BY <1>5, <1>9
  <2> QED
    BY <2>1, <2>2, AgreeUpTo, Zenon
<1>11. Value(s, n) = g[n]
  BY <1>8, <1>10
<1> QED
  BY <1>3, <1>5, <1>11

\* The number of the first n bytes depends on them only.
LEMMA ValueKept ==
    ASSUME NEW s \in Seq(Bytes), NEW t \in Seq(Bytes), NEW n \in Nat, NEW m \in Nat, n <= m,
           \A i \in 1..n : ByteAt(s, i) = ByteAt(t, i)
    PROVE  \E f \in [0..m -> Nat] :
              /\ f[0] = 0 /\ \A i \in 1..m : f[i] = f[i - 1] * Base + ByteAt(t, i)
              /\ Value(s, n) = f[n] /\ Value(t, m) = f[m]
<1>1. PICK f \in [0..m -> Nat] :
        /\ f[0] = 0 /\ \A i \in 1..m : f[i] = f[i - 1] * Base + ByteAt(t, i)
        /\ Value(t, m) = f[m]
  BY ValueIs
<1>2. PICK g \in [0..n -> Nat] :
        /\ g[0] = 0 /\ \A i \in 1..n : g[i] = g[i - 1] * Base + ByteAt(s, i)
        /\ Value(s, n) = g[n]
  BY ValueIs
<1> DEFINE P == {i \in 0..n : f[i] = g[i]}
<1>3. 0 \in P
  BY <1>1, <1>2
<1>4. ASSUME NEW i \in 1..n, i - 1 \in P PROVE i \in P
  <2>1. i \in 1..m /\ f[i - 1] = g[i - 1]
    BY <1>4
  <2>2. f[i] = f[i - 1] * Base + ByteAt(t, i) /\ g[i] = g[i - 1] * Base + ByteAt(s, i)
    BY <1>1, <1>2, <2>1
  <2> QED BY <2>1, <2>2
<1>5. \A i \in P : f[i] = g[i]
  OBVIOUS
<1> HIDE DEF P
<1>6. 0..n \subseteq P
  BY <1>3, <1>4, InductionUpTo
<1>7. n \in 0..n
  OBVIOUS
<1>8. f[n] = g[n]
  BY <1>5, <1>6, <1>7
<1> QED BY <1>1, <1>2, <1>8

\* One byte more of s.
LEMMA ValueOfMore ==
    ASSUME NEW s \in Seq(Bytes), NEW n \in Nat
    PROVE  /\ Value(s, 0) = 0 /\ Value(s, n) \in Nat
           /\ Value(s, n + 1) = Value(s, n) * Base + ByteAt(s, n + 1)
<1>0. n + 1 \in Nat /\ n <= n + 1 /\ 0 \in Nat /\ 0 <= n
  OBVIOUS
<1>1. PICK f \in [0..(n + 1) -> Nat] :
          /\ f[0] = 0 /\ \A i \in 1..(n + 1) : f[i] = f[i - 1] * Base + ByteAt(s, i)
          /\ Value(s, n) = f[n] /\ Value(s, n + 1) = f[n + 1]
  BY <1>0, ValueKept
<1>2. Value(s, 0) = 0
  BY <1>0, ValueIs
<1>3. n + 1 \in 1..(n + 1) /\ (n + 1) - 1 = n /\ n \in 0..(n + 1)
  OBVIOUS
<1>4. f[n + 1] = f[n] * Base + ByteAt(s, n + 1)
  BY <1>1, <1>3
<1> QED BY <1>1, <1>2, <1>3, <1>4

\* The same bytes are the same number.
LEMMA ValueSame ==
    ASSUME NEW s \in Seq(Bytes), NEW t \in Seq(Bytes), NEW n \in Nat,
           \A i \in 1..n : ByteAt(s, i) = ByteAt(t, i)
    PROVE  Value(s, n) = Value(t, n)
<1>1. n <= n
  OBVIOUS
<1>2. PICK f \in [0..n -> Nat] :
          /\ f[0] = 0 /\ \A i \in 1..n : f[i] = f[i - 1] * Base + ByteAt(t, i)
          /\ Value(s, n) = f[n] /\ Value(t, n) = f[n]
  BY <1>1, ValueKept, Zenon
<1> QED BY <1>2

\* A carry that runs through bytes Base - 1 into the byte before them.
LEMMA CarryRuns ==
    ASSUME NEW s \in Seq(Bytes), NEW t \in Seq(Bytes), NEW n \in Nat, NEW k \in Nat \ {0},
           \A i \in 1..n : ByteAt(s, i) = ByteAt(t, i),
           ByteAt(t, n + 1) = ByteAt(s, n + 1) + 1,
           \A i \in 2..k : ByteAt(s, n + i) = Base - 1 /\ ByteAt(t, n + i) = 0
    PROVE  Value(t, n + k) = Value(s, n + k) + 1
<1> DEFINE d == k - 1
           P == {i \in 0..d : Value(t, n + (i + 1)) = Value(s, n + (i + 1)) + 1}
<1>0. d \in Nat /\ d + 1 = k /\ Base \in Nat
  BY Widths
<1>1. 0 \in P
  <2>1. Value(s, n + 1) = Value(s, n) * Base + ByteAt(s, n + 1)
        /\ Value(t, n + 1) = Value(t, n) * Base + ByteAt(t, n + 1)
        /\ Value(s, n) \in Nat /\ Value(s, n) = Value(t, n)
    BY ValueOfMore, ValueSame
  <2>2. ByteAt(s, n + 1) \in Nat
    BY ByteAtIs
  <2>3. Value(t, n + 1) = Value(s, n + 1) + 1
    <3>1. Value(s, n) * Base \in Nat
      BY <1>0, <2>1
    <3> QED BY <2>1, <2>2, <3>1
  <2>4. n + (0 + 1) = n + 1 /\ 0 \in 0..d
    BY <1>0
  <2> QED BY <2>3, <2>4
<1>2. ASSUME NEW i \in 1..d, i - 1 \in P PROVE i \in P
  <2> DEFINE m == n + i
             v == Value(s, m)
  <2>1. m \in Nat /\ n + ((i - 1) + 1) = m /\ n + (i + 1) = m + 1 /\ i + 1 \in 2..k
    BY <1>0
  <2>2. Value(t, m) = v + 1
    BY <1>2, <2>1
  <2>3. ByteAt(s, m + 1) = Base - 1 /\ ByteAt(t, m + 1) = 0
    BY <2>1
  <2>4. Value(s, m + 1) = v * Base + (Base - 1) /\ Value(t, m + 1) = (v + 1) * Base + 0 /\ v \in Nat
    BY <2>1, <2>2, <2>3, ValueOfMore
  <2> HIDE DEF v, m
  <2>5. (v + 1) * Base + 0 = (v * Base + (Base - 1)) + 1
    BY <1>0, <2>4
  <2>6. Value(t, m + 1) = Value(s, m + 1) + 1
    BY <2>4, <2>5
  <2>7. i \in 0..d
    OBVIOUS
  <2> QED BY <2>1, <2>6, <2>7
<1>3. \A i \in P : Value(t, n + (i + 1)) = Value(s, n + (i + 1)) + 1
  OBVIOUS
<1> HIDE DEF P
<1>4. 0..d \subseteq P
  BY <1>0, <1>1, <1>2, InductionUpTo
<1>5. d \in P
  BY <1>0, <1>4
<1> QED BY <1>0, <1>3, <1>5

-----------------------------------------------------------------------------
(* What the encoder has said so far, as a number *)

\* The bytes written and those that wait, if no carry comes.
Held(e) == [i \in 1..e.cachesz |-> IF i = 1 THEN e.cache ELSE Base - 1]
Pending(e) == e.out \o Held(e)
Amount(e) == Value(Pending(e), Len(e.out) + e.cachesz)

\* The low end of the range, behind those bytes, and how many bytes it takes.
Place(e) == Amount(e) * Word + e.low
Position(e) == Len(e.out) + e.cachesz + WordBytes

\* A carry finds a byte that it does not make overflow.
CanCarry(e) == e.low < 2 * Word /\ (e.low >= Word => e.cache # Base - 1)

\* They are bytes, and which ones.
LEMMA PendingIs ==
    ASSUME NEW e \in EncoderState
    PROVE  /\ Held(e) \in Seq(Bytes) /\ Len(Held(e)) = e.cachesz
           /\ Pending(e) \in Seq(Bytes) /\ Len(Pending(e)) = Len(e.out) + e.cachesz
           /\ Len(e.out) \in Nat /\ e.cachesz \in Nat \ {0}
           /\ \A i \in 1..Len(e.out) : ByteAt(Pending(e), i) = e.out[i]
           /\ ByteAt(Pending(e), Len(e.out) + 1) = e.cache
           /\ \A i \in 2..e.cachesz : ByteAt(Pending(e), Len(e.out) + i) = Base - 1
<1>1. e.out \in Seq(Bytes) /\ e.cachesz \in Nat \ {0} /\ e.cache \in Bytes /\ Base - 1 \in Bytes
  BY Widths DEF EncoderState, Bytes
<1> DEFINE n == Len(e.out)
           h == Held(e)
<1>2. \A i \in 1..e.cachesz : (IF i = 1 THEN e.cache ELSE Base - 1) \in Bytes
  BY <1>1
<1>3. h \in [1..e.cachesz -> Bytes]
  BY <1>2 DEF Held
<1>4. h[1] = e.cache /\ \A i \in 2..e.cachesz : h[i] = Base - 1
  <2>1. 1 \in 1..e.cachesz /\ \A i \in 2..e.cachesz : i \in 1..e.cachesz /\ i # 1
    BY <1>1
  <2> QED BY <2>1 DEF Held
<1> HIDE DEF h
<1>5. h \in Seq(Bytes) /\ Len(h) = e.cachesz /\ n \in Nat
  BY <1>1, <1>3
<1>6. Pending(e) = e.out \o h
  BY DEF Pending, h
<1>7. /\ Pending(e) \in Seq(Bytes) /\ Len(Pending(e)) = n + e.cachesz
      /\ \A i \in 1..n : Pending(e)[i] = e.out[i]
      /\ \A i \in 1..e.cachesz : Pending(e)[n + i] = h[i]
  <2>1. ASSUME NEW o \in Seq(Bytes)
        PROVE  /\ o \o h \in Seq(Bytes) /\ Len(o \o h) = Len(o) + Len(h)
               /\ \A i \in 1..Len(o) : (o \o h)[i] = o[i]
               /\ \A i \in 1..Len(h) : (o \o h)[Len(o) + i] = h[i]
    BY <1>5
  <2> QED BY <1>1, <1>5, <1>6, <2>1
<1>8. ASSUME NEW i \in 1..(n + e.cachesz) PROVE ByteAt(Pending(e), i) = Pending(e)[i]
  BY <1>5, <1>7 DEF ByteAt
<1>9. /\ \A i \in 1..n : i \in 1..(n + e.cachesz)
      /\ \A i \in 1..e.cachesz : n + i \in 1..(n + e.cachesz)
      /\ 1 \in 1..e.cachesz /\ \A i \in 2..e.cachesz : i \in 1..e.cachesz
  BY <1>1, <1>5
<1>10. \A i \in 1..n : ByteAt(Pending(e), i) = e.out[i]
  BY <1>7, <1>8, <1>9
<1>11. \A i \in 1..e.cachesz : ByteAt(Pending(e), n + i) = h[i]
  BY <1>7, <1>8, <1>9
<1> HIDE DEF n
<1>12. ByteAt(Pending(e), n + 1) = e.cache /\ \A i \in 2..e.cachesz : ByteAt(Pending(e), n + i) = Base - 1
  BY <1>4, <1>9, <1>11
<1> QED BY <1>1, <1>5, <1>7, <1>10, <1>12 DEF h, n

\* These are numbers.
LEMMA PlaceNat ==
    ASSUME NEW e \in EncoderState
    PROVE  Amount(e) \in Nat /\ Amount(e) * Word \in Nat /\ Place(e) \in Nat /\ Position(e) \in Nat
<1>1. Len(e.out) + e.cachesz \in Nat /\ Pending(e) \in Seq(Bytes)
  BY PendingIs
<1>2. Amount(e) \in Nat
  BY <1>1, ValueOfMore DEF Amount
<1>3. Word \in Nat /\ e.low \in Nat /\ WordBytes \in Nat
  BY Widths, WidthAssumption DEF EncoderState
<1>4. Amount(e) * Word \in Nat
  BY <1>2, <1>3
<1> QED BY <1>1, <1>2, <1>3, <1>4 DEF Place, Position

\* The parts of low: carry, byte and rest.
LEMMA LowSplit ==
    ASSUME NEW low \in Nat, low < 2 * Word
    PROVE  \E c \in {0, 1}, q \in Bytes, r \in 0..(Top - 1) :
              /\ low = c * Word + (Top * q + r)
              /\ low \div Word = c /\ (low \div Top) % Base = q
              /\ (low * Base) % Word = r * Base
              /\ (low < (Base - 1) * Top \/ low >= Word) <=> (c = 1 \/ q # Base - 1)
<1>1. /\ Base \in Nat \ {0} /\ Top \in Nat \ {0} /\ Word \in Nat \ {0} /\ Word = Top * Base
  BY Widths
<1>2. PICK c \in {0, 1}, l \in 0..(Word - 1) : low = c * Word + l
  <2>1. CASE low < Word
    <3>1. low = 0 * Word + low /\ low \in 0..(Word - 1)
      BY <1>1, <2>1
    <3> QED BY <3>1
  <2>2. CASE low >= Word
    <3>1. low = 1 * Word + (low - Word) /\ low - Word \in 0..(Word - 1)
      BY <1>1, <2>2
    <3> QED BY <3>1
  <2> QED BY <1>1, <2>1, <2>2
<1> DEFINE q == l \div Top
           r == l % Top
<1>3. q \in Nat /\ r \in 0..(Top - 1) /\ l = Top * q + r /\ Top * q \in Nat
  <2>1. l \in Nat /\ Top \in Nat \ {0}
    BY <1>1, <1>2
  <2> HIDE DEF q, r
  <2>2. /\ l \div Top \in Nat /\ l % Top \in 0..(Top - 1) /\ Top * (l \div Top) \in Nat
        /\ l = Top * (l \div Top) + (l % Top)
    BY <2>1, Divided, Zenon
  <2> QED BY <2>2, Zenon DEF q, r
<1> HIDE DEF q, r
<1>4. q < Base
  <2> SUFFICES ASSUME Base <= q PROVE FALSE
    BY <1>1, <1>3
  <2>1. Top * Base <= Top * q
    BY <1>1, <1>3, ProductGrows
  <2> QED BY <1>1, <1>2, <1>3, <2>1
<1>5. q \in Bytes
  BY <1>3, <1>4, <1>1 DEF Bytes
<1>6. low \div Word = c
  <2>1. Word * c = c * Word /\ c \in Nat
    BY <1>1
  <2>2. (Word * c + l) \div Word = c
    BY <1>1, <2>1, DivideIs
  <2> QED BY <1>2, <2>1, <2>2
<1>7. (low \div Top) % Base = q
  <2>1. c * Word + (Top * q + r) = Top * (Base * c + q) + r
    <3>1. c * (Top * Base) + (Top * q + r) = Top * (Base * c + q) + r
      BY <1>1, <1>3
    <3> QED BY <1>1, <3>1
  <2>2. Base * c + q \in Nat
    BY <1>1, <1>3
  <2>3. (Top * (Base * c + q) + r) \div Top = Base * c + q
    BY <1>1, <1>3, <2>2, DivideIs
  <2>4. (Base * c + q) % Base = q
    <3>1. q \in 0..(Base - 1) /\ c \in Nat
      BY <1>5 DEF Bytes
    <3> QED BY <1>1, <3>1, DivideIs
  <2>5. low \div Top = Base * c + q
    BY <1>2, <1>3, <2>1, <2>3
  <2> QED BY <2>4, <2>5
<1>8. (low * Base) % Word = r * Base
  <2>1. low * Base = Word * (Base * c + q) + r * Base
    <3>1. (c * (Top * Base) + (Top * q + r)) * Base = (Top * Base) * (Base * c + q) + r * Base
      BY <1>1, <1>3
    <3> QED BY <1>1, <1>2, <1>3, <3>1
  <2>2. r * Base \in 0..(Word - 1)
    <3>1. r * Base + 0 \in Nat /\ r * Base + 0 < Top * Base
      <4>1. 0 \in 0..(Base - 1) /\ r \in Nat /\ r < Top
        BY <1>1, <1>3
      <4> QED BY <1>1, <4>1, DigitBehind
    <3> QED BY <1>1, <1>3, <3>1
  <2>3. Base * c + q \in Nat
    BY <1>1, <1>3
  <2>4. (Word * (Base * c + q) + r * Base) % Word = r * Base
    BY <1>1, <2>2, <2>3, DivideIs
  <2> QED BY <2>1, <2>4
<1>9. (low < (Base - 1) * Top \/ low >= Word) <=> (c = 1 \/ q # Base - 1)
  <2>1. CASE c = 1
    BY <1>1, <1>2, <2>1
  <2>2. CASE c = 0
    <3>1. low = l /\ low < Word
      BY <1>1, <1>2, <2>2
    <3>2. l < (Base - 1) * Top <=> q < Base - 1
      <4>1. l = q * Top + r
        BY <1>1, <1>3
      <4>2. q < Base - 1 <=> q * Top + r < (Base - 1) * Top
        <5>1. Base - 1 \in Nat
          BY <1>1
        <5> QED BY <1>1, <1>3, <5>1, DigitBehind
      <4> QED BY <4>1, <4>2
    <3>3. q < Base - 1 <=> q # Base - 1
      BY <1>1, <1>3, <1>4
    <3> QED BY <1>1, <2>2, <3>1, <3>2, <3>3
  <2> QED BY <2>1, <2>2
<1> QED BY <1>2, <1>3, <1>5, <1>6, <1>7, <1>8, <1>9

\* The bytes of the carry, and the bytes behind it.
LEMMA WriteLowPlace ==
    ASSUME NEW e \in EncoderState, CanCarry(e)
    PROVE  /\ write_low(e) \in EncoderState /\ write_low(e).low < Word
           /\ write_low(e).range = e.range
           /\ Place(write_low(e)) = Place(e) * Base
           /\ Position(write_low(e)) = Position(e) + 1
<1> DEFINE f == write_low(e)
           n == Len(e.out)
           k == e.cachesz
           P == Pending(e)
<1>1. /\ Base \in Nat \ {0} /\ Top \in Nat \ {0} /\ Word \in Nat \ {0} /\ Word = Top * Base
      /\ Base - 1 \in Bytes /\ 0 \in Bytes /\ Base >= 2 /\ WordBytes \in Nat
  BY Widths, WidthAssumption DEF Bytes
<1>2. /\ e.low \in Nat /\ e.low < 2 * Word /\ e.cache \in Bytes
      /\ e.out \in Seq(Bytes) /\ (e.low >= Word => e.cache # Base - 1)
  BY DEF EncoderState, CanCarry, Bytes
<1>3. PICK c \in {0, 1}, q \in Bytes, r \in 0..(Top - 1) :
              /\ e.low = c * Word + (Top * q + r)
              /\ e.low \div Word = c /\ (e.low \div Top) % Base = q
              /\ (e.low * Base) % Word = r * Base
              /\ (e.low < (Base - 1) * Top \/ e.low >= Word) <=> (c = 1 \/ q # Base - 1)
  BY <1>2, LowSplit
<1>4. Settled(e) <=> (c = 1 \/ q # Base - 1)
  BY <1>3 DEF Settled
<1>5. /\ f = [range |-> e.range, low |-> r * Base,
              cache |-> IF Settled(e) THEN q ELSE e.cache,
              cachesz |-> IF Settled(e) THEN 1 ELSE e.cachesz + 1,
              out |-> IF Settled(e) THEN e.out \o Waiting(e) ELSE e.out]
      /\ f \in EncoderState
      /\ Waiting(e) \in Seq(Bytes) /\ Len(Waiting(e)) = k
  BY <1>3, WriteLowFields DEF Bytes
<1>6. f.range = e.range /\ f.low = r * Base
  BY <1>5
<1>7. r * Base \in Nat /\ r * Base < Word
  <2>1. 0 \in 0..(Base - 1) /\ r \in Nat /\ r < Top
    BY <1>1, <1>3
  <2>2. r * Base + 0 < Top * Base /\ r * Base + 0 \in Nat
    BY <1>1, <2>1, DigitBehind
  <2> QED BY <1>1, <2>1, <2>2
<1>8. /\ P \in Seq(Bytes) /\ Len(P) = n + k /\ n \in Nat /\ k \in Nat \ {0}
      /\ \A i \in 1..n : ByteAt(P, i) = e.out[i]
      /\ ByteAt(P, n + 1) = e.cache
      /\ \A i \in 2..k : ByteAt(P, n + i) = Base - 1
  BY PendingIs
<1>9. /\ Pending(f) \in Seq(Bytes) /\ Len(Pending(f)) = Len(f.out) + f.cachesz
      /\ Len(f.out) \in Nat /\ f.cachesz \in Nat \ {0}
      /\ \A i \in 1..Len(f.out) : ByteAt(Pending(f), i) = f.out[i]
      /\ ByteAt(Pending(f), Len(f.out) + 1) = f.cache
      /\ \A i \in 2..f.cachesz : ByteAt(Pending(f), Len(f.out) + i) = Base - 1
  BY <1>5, PendingIs
<1>10. Settled(e) => /\ f.out = e.out \o Waiting(e) /\ Len(f.out) = n + k /\ f.cachesz = 1 /\ f.cache = q
                     /\ \A i \in 1..n : f.out[i] = e.out[i]
                     /\ \A i \in 1..k : f.out[n + i] = Waiting(e)[i]
  <2> SUFFICES ASSUME Settled(e)
               PROVE  /\ f.out = e.out \o Waiting(e) /\ Len(f.out) = n + k /\ f.cachesz = 1 /\ f.cache = q
                      /\ \A i \in 1..n : f.out[i] = e.out[i]
                      /\ \A i \in 1..k : f.out[n + i] = Waiting(e)[i]
    OBVIOUS
  <2>1. ASSUME NEW w \in Seq(Bytes)
        PROVE  /\ Len(e.out \o w) = n + Len(w)
               /\ \A i \in 1..n : (e.out \o w)[i] = e.out[i]
               /\ \A i \in 1..Len(w) : (e.out \o w)[n + i] = w[i]
    BY <1>2
  <2>2. f.out = e.out \o Waiting(e) /\ f.cachesz = 1 /\ f.cache = q
    BY <1>5
  <2> QED BY <1>5, <2>1, <2>2
<1>11. ~Settled(e) => f.out = e.out /\ f.cachesz = k + 1 /\ f.cache = e.cache
  BY <1>5
<1>12. \A i \in 1..k : Waiting(e)[i] = ((IF i = 1 THEN e.cache ELSE Base - 1) + c) % Base
  BY <1>3 DEF Waiting
<1> HIDE DEF f, P
<1> DEFINE m == n + k
<1>13. m \in Nat /\ Len(f.out) + f.cachesz = m + 1
  <2>1. CASE Settled(e)
    BY <1>8, <1>10, <2>1
  <2>2. CASE ~Settled(e)
    BY <1>8, <1>11, <2>2
  <2> QED BY <2>1, <2>2
\* What waits now is what waited, with the carry, and the next byte.
<1>14. Value(Pending(f), m) = Value(P, m) + c
  <2>1. CASE c = 0
    <3>1. ASSUME NEW i \in 1..m PROVE ByteAt(P, i) = ByteAt(Pending(f), i)
      <4>1. \A j \in 1..k : Waiting(e)[j] = IF j = 1 THEN e.cache ELSE Base - 1
        <5> TAKE j \in 1..k
        <5>1. ASSUME NEW b \in Bytes PROVE (b + 0) % Base = b
          <6>1. b \in 0..(Base - 1) /\ 0 \in Nat /\ Base * 0 + b = b /\ b + 0 = b
            BY <1>1 DEF Bytes
          <6>2. (Base * 0 + b) % Base = b
            BY <1>1, <6>1, DivideIs
          <6> QED BY <6>1, <6>2
        <5>2. (IF j = 1 THEN e.cache ELSE Base - 1) \in Bytes
          BY <1>1, <1>2
        <5> QED BY <1>12, <2>1, <5>1, <5>2
      <4>2. CASE i \in 1..n
        <5>1. ByteAt(P, i) = e.out[i]
          BY <1>8, <4>2
        <5>2. CASE Settled(e)
          <6>1. i \in 1..Len(f.out) /\ f.out[i] = e.out[i]
            BY <1>8, <1>10, <4>2, <5>2
          <6> QED BY <1>9, <5>1, <6>1
        <5>3. CASE ~Settled(e)
          BY <1>9, <1>11, <4>2, <5>1, <5>3
        <5> QED BY <5>2, <5>3
      <4>3. CASE ~(i \in 1..n)
        <5>1. PICK j \in 1..k : i = n + j
          <6>1. i - n \in 1..k /\ i = n + (i - n)
            BY <1>8, <4>3
          <6> QED BY <6>1
        <5>2. ByteAt(P, i) = IF j = 1 THEN e.cache ELSE Base - 1
          <6>1. j # 1 => j \in 2..k
            BY <1>8
          <6> QED BY <1>8, <5>1, <6>1
        <5>3. CASE Settled(e)
          <6>1. i \in 1..Len(f.out) /\ f.out[i] = Waiting(e)[j]
            BY <1>8, <1>10, <5>1, <5>3
          <6> QED BY <1>9, <4>1, <5>2, <6>1
        <5>4. CASE ~Settled(e)
          <6>1. j # 1 => j \in 2..(k + 1)
            BY <1>8
          <6> QED BY <1>9, <1>11, <5>1, <5>2, <5>4, <6>1
        <5> QED BY <5>3, <5>4
      <4> QED BY <4>2, <4>3
    <3>2. Value(P, m) = Value(Pending(f), m)
      BY <1>8, <1>9, <1>13, <3>1, ValueSame
    <3>3. Value(P, m) \in Nat
      BY <1>8, <1>13, ValueOfMore
    <3> QED BY <2>1, <3>2, <3>3
  <2>2. CASE c = 1
    <3>1. Settled(e) /\ e.cache # Base - 1
      <4>1. e.low >= Word
        <5>1. Top * q \in Nat /\ q \in Nat
          BY <1>1, <1>3 DEF Bytes
        <5> QED BY <1>1, <1>3, <2>2, <5>1
      <4> QED BY <1>2, <1>4, <2>2, <4>1
    <3>2. \A i \in 1..n : ByteAt(P, i) = ByteAt(Pending(f), i)
      <4> TAKE i \in 1..n
      <4>1. i \in 1..Len(f.out) /\ f.out[i] = e.out[i]
        BY <1>8, <1>10, <3>1
      <4> QED BY <1>8, <1>9, <4>1
    <3>3. ASSUME NEW j \in 1..k PROVE ByteAt(Pending(f), n + j) = Waiting(e)[j]
      <4>1. n + j \in 1..Len(f.out) /\ f.out[n + j] = Waiting(e)[j]
        BY <1>8, <1>10, <3>1
      <4> QED BY <1>9, <4>1
    <3>4. ByteAt(Pending(f), n + 1) = ByteAt(P, n + 1) + 1
      <4>1. 1 \in 1..k
        BY <1>8
      <4>2. Waiting(e)[1] = (e.cache + 1) % Base
        BY <1>12, <2>2, <4>1
      <4>3. e.cache + 1 \in 0..(Base - 1)
        BY <1>1, <1>2, <3>1 DEF Bytes
      <4>4. Base * 0 + (e.cache + 1) = e.cache + 1 /\ 0 \in Nat
        BY <1>1, <4>3
      <4>5. (Base * 0 + (e.cache + 1)) % Base = e.cache + 1
        BY <1>1, <4>3, <4>4, DivideIs
      <4> QED BY <1>8, <3>3, <4>1, <4>2, <4>4, <4>5
    <3>5. \A j \in 2..k : ByteAt(P, n + j) = Base - 1 /\ ByteAt(Pending(f), n + j) = 0
      <4> TAKE j \in 2..k
      <4>1. j \in 1..k /\ j # 1
        BY <1>8
      <4>2. Waiting(e)[j] = ((Base - 1) + 1) % Base
        BY <1>12, <2>2, <4>1
      <4>3. (Base - 1) + 1 = Base * 1 + 0 /\ 1 \in Nat /\ 0 \in 0..(Base - 1)
        BY <1>1
      <4>4. (Base * 1 + 0) % Base = 0
        BY <1>1, <4>3, DivideIs
      <4> QED BY <1>8, <3>3, <4>1, <4>2, <4>3, <4>4
    <3>6. Value(Pending(f), n + k) = Value(P, n + k) + 1
      BY <1>8, <1>9, <3>2, <3>4, <3>5, CarryRuns
    <3> QED BY <2>2, <3>6
  <2> QED BY <1>3, <2>1, <2>2
<1>15. ByteAt(Pending(f), m + 1) = q
  <2>1. CASE Settled(e)
    BY <1>9, <1>10, <2>1
  <2>2. CASE ~Settled(e)
    <3>1. q = Base - 1
      BY <1>4, <2>2
    <3>2. Len(f.out) + (k + 1) = m + 1 /\ k + 1 \in 2..f.cachesz
      BY <1>8, <1>11, <2>2
    <3> QED BY <1>9, <3>1, <3>2
  <2> QED BY <2>1, <2>2
<1>16. Value(Pending(f), m + 1) = (Value(P, m) + c) * Base + q
  <2>1. Value(Pending(f), m + 1) = Value(Pending(f), m) * Base + ByteAt(Pending(f), m + 1)
    BY <1>9, <1>13, ValueOfMore
  <2> QED BY <1>14, <1>15, <2>1
<1>17. Amount(f) = (Amount(e) + c) * Base + q /\ Amount(e) \in Nat
  <2>1. Amount(f) = Value(Pending(f), m + 1) /\ Amount(e) = Value(P, m)
    BY <1>13 DEF Amount, P
  <2>2. Amount(e) \in Nat
    BY PlaceNat
  <2> QED BY <1>16, <2>1, <2>2
<1>18. Place(f) = Place(e) * Base
  <2> DEFINE a == Amount(e)
  <2>1. Place(f) = ((a + c) * Base + q) * (Top * Base) + r * Base
    BY <1>1, <1>6, <1>17 DEF Place
  <2>2. Place(e) = a * (Top * Base) + (c * (Top * Base) + (Top * q + r))
    BY <1>1, <1>3 DEF Place
  <2>3. a \in Nat /\ q \in Nat /\ r \in Nat /\ c \in Nat
    BY <1>1, <1>3, <1>17 DEF Bytes
  <2> HIDE DEF a
  <2>4. ((a + c) * Base + q) * (Top * Base) + r * Base
          = (a * (Top * Base) + (c * (Top * Base) + (Top * q + r))) * Base
    BY <1>1, <2>3
  <2> QED BY <2>1, <2>2, <2>4
<1>19. Position(f) = Position(e) + 1
  BY <1>1, <1>8, <1>9, <1>13 DEF Position
<1> QED BY <1>5, <1>6, <1>7, <1>18, <1>19 DEF f

\* Low and range leave room for a carry, in the word or in the byte that waits.
Fits(low, range, cache) ==
    low + range <= 2 * Word /\ (cache = Base - 1 => low + range <= Word)

\* With that much room, a carry does not overflow.
LEMMA FitsCarry ==
    ASSUME NEW e \in EncoderState, e.range # 0, Fits(e.low, e.range, e.cache)
    PROVE  CanCarry(e)
<1>1. e.range \in Nat \ {0} /\ e.low \in Nat /\ Word \in Nat
  BY Widths DEF EncoderState
<1> QED BY <1>1 DEF Fits, CanCarry

\* A shift of a range that is too small keeps the room.
LEMMA WriteLowFits ==
    ASSUME NEW e \in EncoderState, NEW range \in 1..(Top - 1), Fits(e.low, range, e.cache)
    PROVE  Fits(write_low(e).low, range * Base, write_low(e).cache)
<1> DEFINE f == write_low(e)
<1>1. /\ Base \in Nat \ {0} /\ Top \in Nat \ {0} /\ Word \in Nat \ {0} /\ Word = Top * Base
      /\ e.low \in Nat /\ range \in Nat \ {0} /\ range < Top
      /\ e.low + range <= 2 * Word /\ (e.cache = Base - 1 => e.low + range <= Word)
  BY Widths DEF EncoderState, Fits
<1>2. e.low < 2 * Word
  BY <1>1
<1>3. PICK c \in {0, 1}, q \in Bytes, r \in 0..(Top - 1) :
              /\ e.low = c * Word + (Top * q + r)
              /\ e.low \div Word = c /\ (e.low \div Top) % Base = q
              /\ (e.low * Base) % Word = r * Base
              /\ (e.low < (Base - 1) * Top \/ e.low >= Word) <=> (c = 1 \/ q # Base - 1)
  BY <1>1, <1>2, LowSplit
<1>4. Settled(e) <=> (c = 1 \/ q # Base - 1)
  BY <1>3 DEF Settled
<1>5. /\ f.low = r * Base /\ (Settled(e) => f.cache = q) /\ (~Settled(e) => f.cache = e.cache)
  BY <1>3, WriteLowFields
<1> HIDE DEF f
<1>6. r \in Nat /\ r < Top
  BY <1>1, <1>3
<1>7. r * Base + range * Base = (r + range) * Base /\ r * Base \in Nat /\ range * Base \in Nat
  BY <1>1, <1>6
<1>8. (r + range) * Base <= (2 * Top) * Base /\ (2 * Top) * Base = 2 * Word
  BY <1>1, <1>6, ProductGrows
<1>9. ASSUME f.cache = Base - 1 PROVE r + range <= Top
  <2>1. q = Base - 1 /\ (c = 1 \/ e.cache = Base - 1)
    <3>1. CASE Settled(e)
      BY <1>4, <1>5, <1>9, <3>1
    <3>2. CASE ~Settled(e)
      BY <1>4, <1>5, <1>9, <3>2
    <3> QED BY <3>1, <3>2
  <2>2. e.low + range <= c * Word + Word
    BY <1>1, <1>3, <2>1
  <2>3. c * Word \in Nat /\ c * Word + (Top * q + r) + range <= c * Word + Word
    BY <1>1, <1>3, <2>2
  <2>4. Top * q + Top = Word /\ Top * q \in Nat
    <3>1. Top * (Base - 1) + Top = Top * Base /\ Top * (Base - 1) \in Nat
      BY <1>1
    <3> QED BY <1>1, <2>1, <3>1
  <2> HIDE DEF f
  <2> QED BY <1>1, <1>6, <2>3, <2>4
<1>10. f.cache = Base - 1 => (r + range) * Base <= Word
  <2> SUFFICES ASSUME f.cache = Base - 1 PROVE (r + range) * Base <= Word
    OBVIOUS
  <2>1. (r + range) * Base <= Top * Base
    BY <1>1, <1>6, <1>9, ProductGrows
  <2> QED BY <1>1, <2>1
<1>11. f.low + range * Base <= 2 * Word /\ (f.cache = Base - 1 => f.low + range * Base <= Word)
  BY <1>5, <1>7, <1>8, <1>10
<1> QED BY <1>11 DEF f, Fits

\* One shift is enough, and the loop takes no other.
LEMMA NormalizeIs ==
    ASSUME NEW e \in EncoderState, e.range * Base >= Top, e.range < Word,
           e.range < Top => e.range * Base < Word
    PROVE  /\ e.range < Top => [e EXCEPT !.range = @ * Base] \in EncoderState
           /\ normalize_encoder(e) = IF e.range < Top THEN write_low([e EXCEPT !.range = @ * Base]) ELSE e
<1> DEFINE n == WordBytes - 1
           Shift(f) == IF f.range < Top THEN write_low([f EXCEPT !.range = @ * Base]) ELSE f
           Is(g) == g = [i \in 0..n |-> IF i = 0 THEN e ELSE Shift(g[i - 1])]
           f == CHOOSE g : Is(g)
           d == [e EXCEPT !.range = @ * Base]
           y == IF e.range < Top THEN write_low(d) ELSE e
           h == [i \in 0..n |-> IF i = 0 THEN e ELSE y]
<1>1. n \in Nat \ {0} /\ Base \in Nat /\ Top \in Nat /\ Word \in Nat /\ e.range \in Nat
  BY Widths, WidthAssumption DEF EncoderState
<1>2. e.range < Top => d \in EncoderState /\ d.range = e.range * Base
  <2> SUFFICES ASSUME e.range < Top PROVE d \in EncoderState /\ d.range = e.range * Base
    OBVIOUS
  <2>1. e.range * Base \in 0..(Word - 1)
    BY <1>1
  <2> QED BY <2>1 DEF EncoderState
<1>3. Shift(e) = y
  BY DEF Shift
<1>4. ~(y.range < Top)
  <2>1. CASE e.range < Top
    <3>1. y.range = e.range * Base
      <4>1. d \in EncoderState /\ d.range = e.range * Base
        BY <1>2, <2>1
      <4> HIDE DEF d
      <4>2. write_low(d).range = d.range
        BY <4>1, WriteLowFields
      <4> QED BY <2>1, <4>1, <4>2
    <3>2. e.range * Base \in Nat
      BY <1>1
    <3> QED BY <1>1, <3>1, <3>2
  <2>2. CASE ~(e.range < Top)
    BY <2>2
  <2> QED BY <2>1, <2>2
<1> HIDE DEF y
<1>5. Shift(y) = y
  BY <1>4
<1> HIDE DEF Shift
<1>6. Is(h)
  <2>1. \A i \in 0..n : h[i] = IF i = 0 THEN e ELSE Shift(h[i - 1])
    <3> TAKE i \in 0..n
    <3>1. CASE i = 0
      BY <3>1
    <3>2. CASE i = 1
      <4>1. h[i] = y /\ h[i - 1] = e
        BY <1>1, <3>2
      <4> QED BY <1>3, <3>2, <4>1
    <3>3. CASE i \in 2..n
      <4>1. h[i] = y /\ h[i - 1] = y
        BY <1>1, <3>3
      <4> QED BY <1>5, <3>3, <4>1
    <3> QED BY <1>1, <3>1, <3>2, <3>3
  <2>2. DOMAIN h = 0..n /\ h = [i \in 0..n |-> h[i]]
    OBVIOUS
  <2> HIDE DEF h
  <2> QED BY <2>1, <2>2
<1> HIDE DEF h
<1>7. Is(f)
  BY <1>6, Zenon
<1>8. normalize_encoder(e) = f[n]
  BY Zenon DEF normalize_encoder, Repeat, Shift
<1> HIDE DEF f
<1>9. \A i \in 0..n : f[i] = h[i]
  <2>1. \A i \in 0..n : f[i] = IF i = 0 THEN e ELSE Shift(f[i - 1])
    BY <1>7
  <2>2. \A i \in 0..n : h[i] = IF i = 0 THEN e ELSE Shift(h[i - 1])
    BY <1>6
  <2>3. 0 \in 0..n /\ \A i \in 1..n : i \in 0..n /\ i # 0
    BY <1>1
  <2>4. f[0] = h[0]
    BY <2>1, <2>2, <2>3
  <2>5. \A i \in 1..n : f[i - 1] = h[i - 1] => f[i] = h[i]
    BY <2>1, <2>2, <2>3
  <2>6. n \in Nat
    BY <1>1
  <2> QED BY <2>4, <2>5, <2>6, AgreeUpTo, Zenon
<1>10. h[n] = y
  BY <1>1 DEF h
<1>11. f[n] = h[n]
  BY <1>1, <1>9
<1> QED BY <1>2, <1>8, <1>10, <1>11 DEF y

\* What a bit does to the low end of the range, and the range it leaves.
Offset(range, prob, bit) == IF bit = 1 THEN Bound(range, prob) ELSE 0
Part(range, prob, bit) == IF bit = 1 THEN range - Bound(range, prob) ELSE Bound(range, prob)

\* The part lies in the range, is not empty, and one shift makes it large enough.
LEMMA PartIs ==
    ASSUME NEW range \in Top..(Word - 1), NEW prob \in Usable, NEW bit \in {0, 1}
    PROVE  /\ Offset(range, prob, bit) \in Nat /\ Part(range, prob, bit) \in Nat \ {0}
           /\ Offset(range, prob, bit) + Part(range, prob, bit) <= range
           /\ Part(range, prob, bit) * Base >= Top /\ Part(range, prob, bit) < Word
           /\ Part(range, prob, bit) < Top => Part(range, prob, bit) * Base < Word
<1> DEFINE bound == Bound(range, prob)
           part  == Part(range, prob, bit)
<1>1. bound \in 1..(range - 1) /\ bound * Base >= Top /\ (range - bound) * Base >= Top
  BY Parts, Zenon
<1>2. /\ Base \in Nat \ {0} /\ Top \in Nat \ {0} /\ Word \in Nat \ {0} /\ Word = Top * Base
      /\ range \in Nat /\ range < Word
  BY Widths
<1>3. /\ Offset(range, prob, bit) \in Nat /\ part \in Nat \ {0}
      /\ Offset(range, prob, bit) + part <= range /\ part * Base >= Top /\ part < Word
  <2>1. CASE bit = 1
    <3>1. part = range - bound /\ Offset(range, prob, bit) = bound
      BY <2>1 DEF Part, Offset
    <3> HIDE DEF bound, part
    <3> QED BY <1>1, <1>2, <3>1
  <2>2. CASE bit = 0
    <3>1. part = bound /\ Offset(range, prob, bit) = 0
      BY <2>2 DEF Part, Offset
    <3> HIDE DEF bound, part
    <3> QED BY <1>1, <1>2, <3>1
  <2> QED BY <2>1, <2>2
<1>4. part < Top => part * Base < Word
  <2> SUFFICES ASSUME part < Top PROVE part * Base < Word
    OBVIOUS
  <2> HIDE DEF part
  <2>1. part * Base + 0 < Top * Base /\ part * Base \in Nat
    <3>1. 0 \in 0..(Base - 1) /\ part \in Nat
      BY <1>2, <1>3
    <3> QED BY <1>2, <3>1, DigitBehind
  <2> QED BY <1>2, <2>1
<1> QED BY <1>3, <1>4

\* The range and its place behind a bit.
LEMMA EncodeBitIs ==
    ASSUME NEW e \in EncoderState, e.range \in Top..(Word - 1), Fits(e.low, e.range, e.cache),
           NEW prob \in Usable, NEW bit \in {0, 1}
    PROVE  /\ encode_bit(e, prob, bit) \in EncoderState
           /\ encode_bit(e, prob, bit).range \in Top..(Word - 1)
           /\ Fits(encode_bit(e, prob, bit).low, encode_bit(e, prob, bit).range, encode_bit(e, prob, bit).cache)
           /\ Part(e.range, prob, bit) < Top =>
                 /\ encode_bit(e, prob, bit).range = Part(e.range, prob, bit) * Base
                 /\ Place(encode_bit(e, prob, bit)) = (Place(e) + Offset(e.range, prob, bit)) * Base
                 /\ Position(encode_bit(e, prob, bit)) = Position(e) + 1
           /\ Part(e.range, prob, bit) >= Top =>
                 /\ encode_bit(e, prob, bit).range = Part(e.range, prob, bit)
                 /\ Place(encode_bit(e, prob, bit)) = Place(e) + Offset(e.range, prob, bit)
                 /\ Position(encode_bit(e, prob, bit)) = Position(e)
<1> DEFINE off  == Offset(e.range, prob, bit)
           part == Part(e.range, prob, bit)
           d == [range |-> part, low |-> e.low + off, cache |-> e.cache, cachesz |-> e.cachesz, out |-> e.out]
           f == encode_bit(e, prob, bit)
<1>1. /\ Base \in Nat \ {0} /\ Top \in Nat \ {0} /\ Word \in Nat \ {0} /\ Word = Top * Base
      /\ e.range \in Nat /\ e.low \in Nat
  BY Widths DEF EncoderState
<1>2. /\ off \in Nat /\ part \in Nat \ {0} /\ off + part <= e.range /\ part * Base >= Top /\ part < Word
      /\ part < Top => part * Base < Word
  BY PartIs
<1>3. f = normalize_encoder(d)
  <2>1. e = [range |-> e.range, low |-> e.low, cache |-> e.cache, cachesz |-> e.cachesz, out |-> e.out]
    BY DEF EncoderState
  <2> DEFINE bound == Bound(e.range, prob)
             c == IF bit = 1 THEN [e EXCEPT !.low = @ + bound, !.range = @ - bound]
                             ELSE [e EXCEPT !.range = bound]
  <2>2. f = normalize_encoder(c)
    BY DEF encode_bit
  <2>3. c = d
    <3>1. CASE bit = 1
      <4>1. off = bound /\ part = e.range - bound
        BY <3>1 DEF Offset, Part
      <4>2. c = [e EXCEPT !.low = @ + bound, !.range = @ - bound]
        BY <3>1
      <4> HIDE DEF off, part, bound, c
      <4>3. c = [range |-> e.range - bound, low |-> e.low + bound, cache |-> e.cache, cachesz |-> e.cachesz, out |-> e.out]
        BY <2>1, <4>2
      <4> QED BY <4>1, <4>3
    <3>2. CASE bit = 0
      <4>1. off = 0 /\ part = bound
        BY <3>2 DEF Offset, Part
      <4>2. c = [e EXCEPT !.range = bound]
        BY <3>2
      <4>3. e.low + 0 = e.low
        BY <1>1
      <4> HIDE DEF off, part, bound, c
      <4>4. c = [range |-> bound, low |-> e.low, cache |-> e.cache, cachesz |-> e.cachesz, out |-> e.out]
        BY <2>1, <4>2
      <4> QED BY <4>1, <4>3, <4>4
    <3> QED BY <3>1, <3>2
  <2> QED BY <2>2, <2>3
<1>4. d \in EncoderState /\ d.range = part /\ d.low = e.low + off /\ d.cache = e.cache
  <2>1. part \in 0..(Word - 1) /\ e.low + off \in Nat
    BY <1>1, <1>2
  <2> HIDE DEF off, part
  <2> QED BY <2>1 DEF EncoderState
<1>5. Place(d) = Place(e) + off /\ Position(d) = Position(e)
  <2>1. d.out = e.out /\ d.cachesz = e.cachesz /\ d.cache = e.cache
    OBVIOUS
  <2>2. Held(d) = Held(e) /\ Pending(d) = Pending(e) /\ Amount(d) = Amount(e)
    <3> HIDE DEF d
    <3> QED BY <2>1 DEF Held, Pending, Amount
  <2>3. Amount(e) * Word \in Nat
    BY PlaceNat
  <2> HIDE DEF d, off
  <2> QED BY <1>1, <1>2, <1>4, <2>1, <2>2, <2>3 DEF Place, Position
<1>6. Fits(d.low, part, d.cache)
  <2> HIDE DEF d, off, part
  <2>1. e.low + off + part <= e.low + e.range /\ d.low + part = e.low + off + part
    BY <1>1, <1>2, <1>4
  <2>2. e.low + e.range <= 2 * Word /\ (e.cache = Base - 1 => e.low + e.range <= Word)
    BY DEF Fits
  <2>3. d.low + part <= 2 * Word /\ (d.cache = Base - 1 => d.low + part <= Word)
    BY <1>1, <1>2, <1>4, <2>1, <2>2
  <2> QED BY <2>3 DEF Fits
<1> HIDE DEF d, off, part, f
<1>7. /\ part < Top => [d EXCEPT !.range = @ * Base] \in EncoderState
      /\ f = IF part < Top THEN write_low([d EXCEPT !.range = @ * Base]) ELSE d
  <2>1. d.range * Base >= Top /\ d.range < Word /\ (d.range < Top => d.range * Base < Word)
    BY <1>2, <1>4
  <2> QED BY <1>3, <1>4, <2>1, NormalizeIs
<1>8. CASE part >= Top
  <2>1. f = d
    BY <1>1, <1>2, <1>7, <1>8
  <2>2. d.range \in Top..(Word - 1)
    BY <1>1, <1>2, <1>4, <1>8
  <2> QED BY <1>1, <1>2, <1>4, <1>5, <1>6, <1>8, <2>1, <2>2 DEF f, off, part
<1>9. CASE part < Top
  <2> DEFINE g == [d EXCEPT !.range = @ * Base]
  <2>1. g \in EncoderState /\ f = write_low(g)
    BY <1>7, <1>9
  <2>2. g.range = part * Base /\ g.low = d.low /\ g.cache = d.cache /\ g.cachesz = d.cachesz /\ g.out = d.out
    BY <1>4 DEF EncoderState
  <2> HIDE DEF g
  <2>3. Place(g) = Place(d) /\ Position(g) = Position(d)
    <3>1. Held(g) = Held(d) /\ Pending(g) = Pending(d)
      BY <2>2 DEF Held, Pending
    <3>2. Amount(g) = Amount(d)
      BY <2>2, <3>1 DEF Amount
    <3> QED BY <2>2, <3>2 DEF Place, Position
  <2>4. part \in 1..(Top - 1)
    BY <1>1, <1>2, <1>9
  <2>5. CanCarry(g)
    <3>1. Fits(d.low, d.range, d.cache) /\ d.range # 0
      BY <1>2, <1>4, <1>6
    <3>2. CanCarry(d)
      BY <1>4, <3>1, FitsCarry
    <3> QED BY <2>2, <3>2 DEF CanCarry
  <2>6. /\ f \in EncoderState /\ f.range = part * Base
        /\ Place(f) = Place(g) * Base /\ Position(f) = Position(g) + 1
    BY <2>1, <2>2, <2>5, WriteLowPlace
  <2>7. Fits(f.low, part * Base, f.cache)
    <3>1. Fits(g.low, part, g.cache)
      BY <1>6, <2>2
    <3> QED BY <2>1, <2>4, <3>1, WriteLowFits
  <2>8. part * Base \in Top..(Word - 1)
    BY <1>1, <1>2, <1>9
  <2>9. ~(part >= Top)
    BY <1>1, <1>2, <1>9
  <2> QED BY <1>5, <1>9, <2>3, <2>6, <2>7, <2>8, <2>9 DEF f, off, part
<1>10. part < Top \/ part >= Top
  BY <1>1, <1>2
<1> QED BY <1>8, <1>9, <1>10

\* A common factor.
LEMMA Cancel ==
    ASSUME NEW a \in Nat, NEW b \in Nat, NEW c \in Nat \ {0}, a * c = b * c
    PROVE  a = b
<1>1. ASSUME NEW x \in Nat, NEW y \in Nat, x < y PROVE x * c < y * c
  <2>1. 0 \in 0..(c - 1)
    OBVIOUS
  <2>2. x * c + 0 < y * c /\ x * c \in Nat
    <3>1. x * c + 0 < y * c
      BY <1>1, <2>1, DigitBehind
    <3> QED BY <3>1
  <2> QED BY <2>2
<1>2. ~(a < b) /\ ~(b < a)
  <2>1. a * c \in Nat /\ b * c \in Nat
    OBVIOUS
  <2>2. a < b => a * c < b * c
    BY <1>1
  <2>3. b < a => b * c < a * c
    BY <1>1
  <2> QED BY <2>1, <2>2, <2>3
<1> QED BY <1>2

\* The bytes that WordBytes + 1 shifts take from low leave nothing, and what is
\* written then is the place of the range.
LEMMA FlushedIs ==
    ASSUME NEW e \in EncoderState, CanCarry(e)
    PROVE  /\ Flushed(e) \in EncoderState /\ Flushed(e).range = e.range /\ Flushed(e).low = 0
           /\ Len(Flushed(e).out) = Position(e)
           /\ Value(Flushed(e).out, Position(e)) = Place(e)
<1> DEFINE n == WordBytes + 1
           W == WordBytes
           S == {x \in EncoderState : CanCarry(x)}
           step == [x \in S |-> write_low(x)]
           Is(g) == g = [i \in 0..n |-> IF i = 0 THEN e ELSE write_low(g[i - 1])]
           f == CHOOSE g : Is(g)
           B(i) == Pow2(ByteBits * i)
<1>1. /\ n \in Nat \ {0} /\ W \in Nat \ {0} /\ n = W + 1 /\ ByteBits \in Nat
      /\ Base \in Nat \ {0} /\ Base >= 2 /\ Top \in Nat \ {0} /\ Word \in Nat \ {0} /\ Word = Top * Base
  BY Widths, WidthAssumption
<1>2. step \in [S -> S] /\ e \in S /\ \A x \in S : step[x] = write_low(x)
  <2>1. ASSUME NEW x \in S PROVE write_low(x) \in S
    <3>1. write_low(x) \in EncoderState /\ write_low(x).low < Word
      BY WriteLowPlace
    <3>2. write_low(x).low \in Nat
      BY <3>1 DEF EncoderState
    <3>3. CanCarry(write_low(x))
      BY <1>1, <3>1, <3>2 DEF CanCarry
    <3> QED BY <3>1, <3>3
  <2> QED BY <2>1
<1>3. PICK g \in [0..n -> S] : g[0] = e /\ \A i \in 1..n : g[i] = step[g[i - 1]]
  <2>1. n \in Nat /\ e \in S /\ step \in [S -> S]
    BY <1>1, <1>2
  <2> HIDE DEF S, step, n
  <2>2. Iterations(S, e, step, n) # {}
    BY <2>1, Iterates
  <2> QED BY <2>2 DEF Iterations
<1>4. /\ 0 \in 0..n /\ \A i \in 0..n : i # 0 => i \in 1..n
      /\ \A i \in 1..n : i \in 0..n /\ i # 0 /\ i - 1 \in 0..n
  BY <1>1
<1>5. \A i \in 1..n : g[i] = write_low(g[i - 1])
  <2> HIDE DEF S, step
  <2> QED BY <1>2, <1>3, <1>4
<1>6. \A i \in 0..n : g[i] \in EncoderState /\ CanCarry(g[i])
  BY <1>3
<1>7. g = [i \in 0..n |-> IF i = 0 THEN e ELSE write_low(g[i - 1])]
  <2>1. g = [i \in 0..n |-> g[i]]
    BY <1>3
  <2>2. \A i \in 0..n : g[i] = IF i = 0 THEN e ELSE write_low(g[i - 1])
    BY <1>3, <1>4, <1>5
  <2> QED BY <2>1, <2>2
<1>8. Is(f)
  BY <1>7, Zenon
<1>9. Flushed(e) = f[n]
  BY Zenon DEF Flushed, Repeat
<1> HIDE DEF f, S, step
<1>10. Flushed(e) = g[n]
  <2>1. \A i \in 0..n : f[i] = IF i = 0 THEN e ELSE write_low(f[i - 1])
    BY <1>8
  <2>2. f[0] = g[0]
    BY <1>3, <1>4, <2>1
  <2>3. \A i \in 1..n : f[i - 1] = g[i - 1] => f[i] = g[i]
    BY <1>4, <1>5, <2>1
  <2>4. \A i \in 0..n : f[i] = g[i]
    <3>1. n \in Nat
      BY <1>1
    <3> QED BY <2>2, <2>3, <3>1, AgreeUpTo, Zenon
  <2> QED BY <1>1, <1>9, <2>4
<1>11. ASSUME NEW i \in 0..W PROVE B(i) \in Nat \ {0} /\ ByteBits * i \in Nat
  <2>1. ByteBits * i \in Nat
    BY <1>1
  <2> QED BY <2>1, PowerOfMore
<1>12. ASSUME NEW i \in 1..W PROVE B(i) = B(i - 1) * Base /\ Word = B(i) * B(W - i)
  <2>1. ByteBits * i = ByteBits * (i - 1) + ByteBits /\ ByteBits * W = ByteBits * i + ByteBits * (W - i)
    <3>1. PICK j \in Nat, k \in Nat : i = j + 1 /\ W = i + k /\ i - 1 = j /\ W - i = k
      <4>1. i - 1 \in Nat /\ W - i \in Nat /\ i = (i - 1) + 1 /\ W = i + (W - i)
        BY <1>1
      <4> QED BY <4>1
    <3>2. ByteBits * (j + 1) = ByteBits * j + ByteBits
      BY <1>1
    <3>3. ByteBits * (i + k) = ByteBits * i + ByteBits * k
      BY <1>1
    <3> QED BY <3>1, <3>2, <3>3
  <2>2. ByteBits * (i - 1) \in Nat /\ ByteBits * i \in Nat /\ ByteBits * (W - i) \in Nat
    <3>1. i - 1 \in Nat /\ i \in Nat /\ W - i \in Nat
      BY <1>1
    <3> QED BY <1>1, <3>1
  <2>3. Pow2(ByteBits * (i - 1) + ByteBits) = B(i - 1) * Base
    BY <1>1, <2>2, PowerOfSum DEF Base
  <2>4. Pow2(ByteBits * i + ByteBits * (W - i)) = B(i) * B(W - i)
    BY <2>2, PowerOfSum
  <2> QED BY <2>1, <2>3, <2>4 DEF Word
<1>13. B(0) = 1 /\ B(W) = Word
  <2>1. ByteBits * 0 = 0
    BY <1>1
  <2> QED BY <2>1, PowerOfMore DEF Word
<1> HIDE DEF B
<1> DEFINE Good(i) == /\ Place(g[i]) = Place(e) * B(i) /\ Position(g[i]) = Position(e) + i
                      /\ g[i].range = e.range
                      /\ (i > 0 => g[i].low < Word)
                      /\ \E k \in Nat : g[i].low = k * B(i)
           P == {i \in 0..W : Good(i)}
<1>14. Place(e) \in Nat /\ Position(e) \in Nat
  BY PlaceNat
<1>15. 0 \in P
  <2>1. Place(e) * 1 = Place(e) /\ Position(e) + 0 = Position(e)
    BY <1>14
  <2>2. e.low \in Nat /\ e.low = e.low * 1
    BY DEF EncoderState
  <2> QED BY <1>1, <1>3, <1>13, <2>1, <2>2
<1>16. ASSUME NEW i \in 1..W, i - 1 \in P PROVE i \in P
  <2>1. Good(i - 1)
    BY <1>16
  <2>2. i \in 1..n /\ i - 1 \in 0..n /\ i - 1 \in 0..W /\ i \in 0..W /\ W - i \in 0..W
    BY <1>1
  <2>3. g[i] = write_low(g[i - 1]) /\ g[i - 1] \in EncoderState /\ CanCarry(g[i - 1])
    BY <1>5, <1>6, <2>2
  <2>4. /\ g[i].low < Word /\ g[i].range = g[i - 1].range
        /\ Place(g[i]) = Place(g[i - 1]) * Base /\ Position(g[i]) = Position(g[i - 1]) + 1
    BY <2>3, WriteLowPlace
  <2>5. /\ B(i) = B(i - 1) * Base /\ Word = B(i) * B(W - i) /\ B(i - 1) \in Nat \ {0} /\ B(i) \in Nat \ {0}
        /\ B(W - i) \in Nat \ {0}
    BY <1>11, <1>12, <2>2
  <2>6. Place(g[i]) = Place(e) * B(i)
    <3> DEFINE p == Place(e)
               b == B(i - 1)
    <3>1. Place(g[i]) = (p * b) * Base /\ B(i) = b * Base
      BY <2>1, <2>4, <2>5
    <3>2. p \in Nat /\ b \in Nat
      BY <1>14, <2>5
    <3> HIDE DEF p, b
    <3>3. (p * b) * Base = p * (b * Base)
      BY <1>1, <3>2
    <3> QED BY <3>1, <3>3 DEF p
  <2>7. Position(g[i]) = Position(e) + i
    BY <1>14, <2>1, <2>4
  <2>8. g[i].low = (g[i - 1].low * Base) % Word
    BY <2>3, WriteLowFields
  <2>9. \E k \in Nat : g[i].low = k * B(i)
    <3>1. PICK k \in Nat : g[i - 1].low = k * B(i - 1)
      BY <2>1
    <3> DEFINE m == B(W - i)
               q == k \div m
               r == k % m
               b == B(i)
               c == B(i - 1)
    <3>2. q \in Nat /\ r \in 0..(m - 1) /\ k = m * q + r
      BY <2>5, Divided
    <3>3. g[i - 1].low * Base = k * b
      <4>1. (k * c) * Base = k * (c * Base)
        <5>1. c \in Nat /\ k \in Nat
          BY <2>5
        <5> HIDE DEF c
        <5> QED BY <1>1, <5>1
      <4> QED BY <2>5, <3>1, <4>1
    <3>4. m \in Nat \ {0} /\ b \in Nat \ {0} /\ Word = b * m
      BY <2>5
    <3> HIDE DEF m, q, r, b, c
    <3>5. k * b = Word * q + r * b
      <4>1. (m * q + r) * b = (b * m) * q + r * b
        BY <3>2, <3>4
      <4> QED BY <3>2, <3>4, <4>1
    <3>6. r * b \in 0..(Word - 1)
      <4>1. 0 \in 0..(b - 1) /\ r \in Nat /\ r < m
        BY <3>2, <3>4
      <4>2. r * b + 0 < m * b /\ r * b + 0 \in Nat
        BY <3>4, <4>1, DigitBehind
      <4>3. m * b = b * m /\ r * b + 0 = r * b
        BY <3>4, <4>1
      <4> QED BY <1>1, <3>4, <4>2, <4>3
    <3>7. (Word * q + r * b) % Word = r * b
      BY <1>1, <3>2, <3>6, DivideIs
    <3>8. g[i].low = r * b /\ r \in Nat
      BY <2>8, <3>2, <3>3, <3>5, <3>7, <3>4
    <3> QED BY <3>8 DEF b
  <2>10. Good(i)
    BY <2>1, <2>4, <2>6, <2>7, <2>9
  <2> QED BY <2>2, <2>10
<1>17. \A i \in P : Good(i)
  OBVIOUS
<1> HIDE DEF P, Good
<1>18. 0..W \subseteq P
  BY <1>1, <1>15, <1>16, InductionUpTo
<1>19. Good(W)
  BY <1>1, <1>17, <1>18
<1> DEFINE x == g[W]
           h == g[n]
<1>20. x \in EncoderState /\ CanCarry(x) /\ h = write_low(x)
  <2>1. W \in 0..n /\ n \in 1..n /\ n - 1 = W
    BY <1>1
  <2> QED BY <1>5, <1>6, <2>1
<1>21. /\ Place(x) = Place(e) * Word /\ Position(x) = Position(e) + W /\ x.range = e.range
       /\ x.low < Word /\ \E k \in Nat : x.low = k * Word
  BY <1>1, <1>13, <1>19 DEF Good
<1> HIDE DEF x, h
<1>22. x.low = 0
  <2>1. PICK k \in Nat : x.low = k * Word
    BY <1>21
  <2>2. CASE k = 0
    BY <1>1, <2>1, <2>2
  <2>3. CASE k >= 1
    <3>1. 1 * Word <= k * Word
      BY <1>1, <2>3, ProductGrows
    <3>2. 1 * Word = Word /\ k * Word \in Nat
      BY <1>1
    <3> QED BY <1>1, <1>21, <2>1, <3>1, <3>2
  <2> QED BY <2>1, <2>2, <2>3
<1>23. /\ h \in EncoderState /\ h.range = e.range
       /\ Place(h) = Place(x) * Base /\ Position(h) = Position(x) + 1
  BY <1>20, <1>21, WriteLowPlace
<1>24. h.low = 0 /\ h.cache = 0 /\ h.cachesz = 1
  <2>1. (Base - 1) * Top \in Nat /\ (Base - 1) * Top > 0
    <3>1. 1 * Top <= (Base - 1) * Top /\ (Base - 1) * Top \in Nat
      BY <1>1, ProductGrows
    <3> QED BY <1>1, <3>1
  <2>2. Settled(x)
    BY <1>22, <2>1 DEF Settled
  <2>3. h.low = (x.low * Base) % Word /\ h.cache = (x.low \div Top) % Base /\ h.cachesz = 1
    BY <1>20, <2>2, WriteLowFields
  <2>4. 0 * Base = 0
    BY <1>1
  <2>5. 0 % Word = 0 /\ 0 \div Top = 0 /\ 0 % Base = 0
    <3>1. ASSUME NEW m \in Nat \ {0} PROVE 0 % m = 0 /\ 0 \div m = 0
      <4>1. m * 0 + 0 = 0 /\ 0 \in 0..(m - 1) /\ 0 \in Nat
        OBVIOUS
      <4>2. (m * 0 + 0) % m = 0 /\ (m * 0 + 0) \div m = 0
        BY <4>1, DivideIs
      <4> QED BY <4>1, <4>2
    <3> QED BY <1>1, <3>1
  <2> QED BY <1>22, <2>3, <2>4, <2>5
<1> DEFINE o == h.out
           l == Len(h.out)
<1>25. l \in Nat /\ o \in Seq(Bytes) /\ l = Position(e)
  <2>1. Position(h) = l + 1 + W /\ l \in Nat
    BY <1>23, <1>24 DEF Position, EncoderState
  <2>2. o \in Seq(Bytes)
    BY <1>23 DEF EncoderState, Bytes
  <2> HIDE DEF l, o
  <2> QED BY <1>1, <1>14, <1>21, <1>23, <2>1, <2>2
<1>26. Amount(h) = Value(o, l) * Base /\ Value(o, l) \in Nat
  <2>1. /\ Pending(h) \in Seq(Bytes) /\ \A i \in 1..l : ByteAt(Pending(h), i) = o[i]
        /\ ByteAt(Pending(h), l + 1) = 0
    BY <1>23, <1>24, PendingIs
  <2>2. \A i \in 1..l : ByteAt(o, i) = ByteAt(Pending(h), i)
    BY <1>25, <2>1 DEF ByteAt
  <2>3. Value(o, l) = Value(Pending(h), l)
    <3> HIDE DEF o, l
    <3> QED BY <1>25, <2>1, <2>2, ValueSame
  <2>4. Value(Pending(h), l + 1) = Value(Pending(h), l) * Base + 0 /\ Value(Pending(h), l) \in Nat
    <3> HIDE DEF o, l
    <3> QED BY <1>25, <2>1, ValueOfMore
  <2>5. Amount(h) = Value(Pending(h), l + 1)
    BY <1>24 DEF Amount
  <2> DEFINE v == Value(Pending(h), l)
  <2>6. v \in Nat /\ Amount(h) = v * Base + 0
    BY <2>4, <2>5
  <2> HIDE DEF v
  <2>7. Amount(h) = v * Base
    BY <1>1, <2>6
  <2> QED BY <2>3, <2>6, <2>7 DEF v
<1> HIDE DEF o, l
<1> DEFINE v == Value(o, l)
           p == Place(e)
<1>27. v * (Base * Word) = p * (Base * Word)
  <2>1. Place(h) = (v * Base) * Word + 0
    BY <1>24, <1>26 DEF Place
  <2>2. Place(h) = (p * Word) * Base
    BY <1>21, <1>23
  <2>3. v \in Nat /\ p \in Nat
    BY <1>14, <1>26
  <2> HIDE DEF v, p
  <2>4. (v * Base) * Word + 0 = v * (Base * Word) /\ (p * Word) * Base = p * (Base * Word)
    BY <1>1, <2>3
  <2> QED BY <2>1, <2>2, <2>4
<1>28. v = p
  <2>1. v \in Nat /\ p \in Nat /\ Base * Word \in Nat \ {0}
    <3>1. 1 * 1 <= Base * Word /\ Base * Word \in Nat
      BY <1>1, ProductGrows
    <3> QED BY <1>14, <1>26, <3>1
  <2> HIDE DEF v, p
  <2> QED BY <1>27, <2>1, Cancel
<1>29. Flushed(e) = h
  BY <1>10 DEF h
<1> QED BY <1>23, <1>24, <1>25, <1>28, <1>29 DEF o, l

-----------------------------------------------------------------------------
(* The decoder *)

\* The decoder that has read what belongs to an encoder's range: its code is
\* how far the bytes lie behind the low end.
Code(e, s) == Value(s, Position(e)) - Place(e)
AsDecoder(e, s) == [range |-> e.range, code |-> Code(e, s), pos |-> Position(e)]

\* The bytes lie in the range.
Inside(e, s) == Code(e, s) \in 0..(e.range - 1)

\* The code is a number.
LEMMA CodeInt ==
    ASSUME NEW e \in EncoderState, NEW s \in Seq(Bytes)
    PROVE  Code(e, s) \in Int
<1>1. Position(e) \in Nat /\ Place(e) \in Nat
  BY PlaceNat
<1>2. Value(s, Position(e)) \in Nat
  BY <1>1, ValueOfMore
<1> QED BY <1>1, <1>2 DEF Code

\* What a bit does to the code, and where the code has to be for it.
LEMMA CodeStep ==
    ASSUME NEW e \in EncoderState, e.range \in Top..(Word - 1), Fits(e.low, e.range, e.cache),
           NEW prob \in Usable, NEW bit \in {0, 1}, NEW s \in Seq(Bytes),
           Inside(encode_bit(e, prob, bit), s)
    PROVE  /\ Code(e, s) \in Nat /\ Inside(e, s)
           /\ Offset(e.range, prob, bit) <= Code(e, s)
           /\ Code(e, s) < Offset(e.range, prob, bit) + Part(e.range, prob, bit)
           /\ Part(e.range, prob, bit) < Top =>
                 Code(encode_bit(e, prob, bit), s) =
                     (Code(e, s) - Offset(e.range, prob, bit)) * Base + ByteAt(s, Position(e) + 1)
           /\ Part(e.range, prob, bit) >= Top =>
                 Code(encode_bit(e, prob, bit), s) = Code(e, s) - Offset(e.range, prob, bit)
<1> DEFINE off  == Offset(e.range, prob, bit)
           part == Part(e.range, prob, bit)
           f    == encode_bit(e, prob, bit)
           p    == Place(e)
           v    == Value(s, Position(e))
           b    == ByteAt(s, Position(e) + 1)
           c    == Code(e, s)
<1>1. /\ Base \in Nat \ {0} /\ Top \in Nat \ {0} /\ Word \in Nat \ {0} /\ e.range \in Nat
  BY Widths DEF EncoderState
<1>2. /\ off \in Nat /\ part \in Nat \ {0} /\ off + part <= e.range
  BY PartIs
<1>3. /\ f \in EncoderState
      /\ part < Top => /\ f.range = part * Base /\ Place(f) = (p + off) * Base
                       /\ Position(f) = Position(e) + 1
      /\ part >= Top => f.range = part /\ Place(f) = p + off /\ Position(f) = Position(e)
  BY EncodeBitIs
<1>4. p \in Nat /\ Position(e) \in Nat /\ v \in Nat /\ b \in Bytes /\ b \in Nat
      /\ Value(s, Position(e) + 1) = v * Base + b /\ c = v - p /\ c \in Int
  <2>1. p \in Nat /\ Position(e) \in Nat
    BY PlaceNat
  <2>2. v \in Nat /\ Value(s, Position(e) + 1) = v * Base + b
    BY <2>1, ValueOfMore
  <2>3. b \in Bytes /\ b \in Nat
    <3>1. Position(e) + 1 \in Nat \ {0}
      BY <2>1
    <3> QED BY <3>1, ByteAtIs
  <2> QED BY <2>1, <2>2, <2>3, CodeInt DEF Code
<1>5. CASE part >= Top
  <2>1. Code(f, s) = v - (p + off) /\ f.range = part
    BY <1>3, <1>5 DEF Code
  <2>2. Code(f, s) \in 0..(part - 1)
    BY <2>1 DEF Inside
  <2> HIDE DEF off, part, f, p, v, b, c
  <2>3. c \in Nat /\ off <= c /\ c < off + part /\ Code(f, s) = c - off
    BY <1>2, <1>4, <2>1, <2>2
  <2>4. c \in 0..(e.range - 1) /\ ~(part < Top)
    BY <1>1, <1>2, <1>5, <2>3
  <2> QED BY <2>3, <2>4 DEF Inside, off, part, f, c
<1>6. CASE part < Top
  <2>1. Code(f, s) = (v * Base + b) - (p + off) * Base /\ f.range = part * Base
    BY <1>3, <1>4, <1>6 DEF Code
  <2>2. Code(f, s) \in 0..(part * Base - 1)
    BY <2>1 DEF Inside
  <2>3. b \in 0..(Base - 1)
    BY <1>4 DEF Bytes
  <2> HIDE DEF off, part, f, p, v, b, c
  <2>4. part * Base \in Nat /\ v * Base \in Nat /\ (p + off) * Base \in Nat
    BY <1>1, <1>2, <1>4
  <2>5. p + off <= v
    <3> SUFFICES ASSUME v < p + off PROVE FALSE
      BY <1>2, <1>4
    <3>1. v * Base + b < (p + off) * Base
      <4>1. p + off \in Nat
        BY <1>2, <1>4
      <4> QED BY <1>1, <1>4, <2>3, <4>1, DigitBehind
    <3> QED BY <1>4, <2>1, <2>2, <2>4, <3>1
  <2> DEFINE x == v - (p + off)
  <2>6. x \in Nat /\ v = (p + off) + x
    BY <1>2, <1>4, <2>5
  <2> HIDE DEF x
  <2>7. Code(f, s) = x * Base + b
    <3>1. v * Base = (p + off) * Base + x * Base
      BY <1>1, <1>2, <1>4, <2>6
    <3>2. x * Base \in Nat
      BY <1>1, <2>6
    <3> QED BY <1>4, <2>1, <2>4, <3>1, <3>2
  <2>8. x < part
    <3>1. x * Base + b < part * Base
      BY <2>2, <2>4, <2>7
    <3> QED BY <1>1, <1>2, <2>3, <2>6, <3>1, DigitBehind
  <2>9. c = off + x /\ x = c - off
    BY <1>2, <1>4, <2>6
  <2>10. c \in 0..(e.range - 1) /\ ~(part >= Top) /\ c \in Nat /\ off <= c /\ c < off + part
    BY <1>1, <1>2, <1>6, <2>6, <2>8, <2>9
  <2> QED BY <2>7, <2>9, <2>10 DEF Inside, off, part, f, c, b
<1>7. part < Top \/ part >= Top
  BY <1>1, <1>2
<1> QED BY <1>5, <1>6, <1>7

\* The decoder behind a bit, once it knows it.
LEMMA NormalizedIs ==
    ASSUME NEW e \in EncoderState, e.range \in Top..(Word - 1), Fits(e.low, e.range, e.cache),
           NEW prob \in Usable, NEW bit \in {0, 1}, NEW s \in Seq(Bytes),
           Inside(encode_bit(e, prob, bit), s)
    PROVE  normalize_decoder([range |-> Part(e.range, prob, bit),
                              code  |-> Code(e, s) - Offset(e.range, prob, bit),
                              pos   |-> Position(e)], s)
              = AsDecoder(encode_bit(e, prob, bit), s)
<1> DEFINE off  == Offset(e.range, prob, bit)
           part == Part(e.range, prob, bit)
           f    == encode_bit(e, prob, bit)
           c    == Code(e, s)
           d    == [range |-> part, code |-> c - off, pos |-> Position(e)]
<1>1. /\ Base \in Nat \ {0} /\ Top \in Nat \ {0} /\ Word \in Nat \ {0} /\ Word = Top * Base
  BY Widths
<1>2. /\ off \in Nat /\ part \in Nat \ {0}
  BY PartIs
<1>3. /\ part < Top => f.range = part * Base /\ Position(f) = Position(e) + 1
      /\ part >= Top => f.range = part /\ Position(f) = Position(e)
  BY EncodeBitIs
<1>4. /\ c \in Nat /\ off <= c /\ c < off + part
      /\ part < Top => Code(f, s) = (c - off) * Base + ByteAt(s, Position(e) + 1)
      /\ part >= Top => Code(f, s) = c - off
  BY CodeStep
<1>5. d.range = part /\ d.code = c - off /\ d.pos = Position(e)
  OBVIOUS
<1> HIDE DEF off, part, f, c, d
<1>6. CASE part >= Top
  <2>1. normalize_decoder(d, s) = d
    BY <1>1, <1>2, <1>5, <1>6 DEF normalize_decoder
  <2>2. AsDecoder(f, s) = [range |-> part, code |-> c - off, pos |-> Position(e)]
    BY <1>3, <1>4, <1>6 DEF AsDecoder
  <2> QED BY <2>1, <2>2 DEF d, off, part, f, c
<1>7. CASE part < Top
  <2>1. (c - off) * Base \in 0..(Word - 1)
    <3>1. 0 \in 0..(Base - 1) /\ c - off \in Nat /\ c - off < Top
      BY <1>1, <1>2, <1>4, <1>7
    <3>2. (c - off) * Base + 0 < Top * Base /\ (c - off) * Base + 0 \in Nat
      BY <1>1, <3>1, DigitBehind
    <3>3. (c - off) * Base \in Nat
      BY <1>1, <3>1
    <3> QED BY <1>1, <3>2, <3>3
  <2>2. ((c - off) * Base) % Word = (c - off) * Base
    <3> DEFINE x == (c - off) * Base
    <3>1. x \in 0..(Word - 1)
      BY <2>1
    <3> HIDE DEF x
    <3>2. Word * 0 + x = x /\ 0 \in Nat
      BY <1>1, <3>1
    <3>3. (Word * 0 + x) % Word = x
      BY <1>1, <3>1, <3>2, DivideIs
    <3>4. x % Word = x
      BY <3>2, <3>3
    <3> QED BY <3>4 DEF x
  <2>3. normalize_decoder(d, s) = [range |-> part * Base,
                                   code  |-> (((c - off) * Base) % Word) + ByteAt(s, Position(e) + 1),
                                   pos   |-> Position(e) + 1]
    BY <1>5, <1>7 DEF normalize_decoder
  <2>4. AsDecoder(f, s) = [range |-> part * Base,
                           code |-> (c - off) * Base + ByteAt(s, Position(e) + 1),
                           pos |-> Position(e) + 1]
    BY <1>3, <1>4, <1>7 DEF AsDecoder
  <2> QED BY <2>2, <2>3, <2>4 DEF d, off, part, f, c
<1>8. part < Top \/ part >= Top
  BY <1>1, <1>2
<1> QED BY <1>6, <1>7, <1>8 DEF d, off, part, f, c

\* The fields of a decoder that are set.
LEMMA DecoderSet ==
    ASSUME NEW d, NEW r, NEW c, NEW p, d = [range |-> r, code |-> c, pos |-> p], NEW x, NEW y
    PROVE  /\ [d EXCEPT !.range = x] = [range |-> x, code |-> c, pos |-> p]
           /\ [d EXCEPT !.range = x, !.code = y] = [range |-> x, code |-> y, pos |-> p]
<1>1. [d EXCEPT !.range = x] = [range |-> x, code |-> c, pos |-> p]
  OBVIOUS
<1>2. [[range |-> x, code |-> c, pos |-> p] EXCEPT !.code = y] = [range |-> x, code |-> y, pos |-> p]
  OBVIOUS
<1> DEFINE f == [d EXCEPT !.range = x]
<1>3. [d EXCEPT !.range = x, !.code = y] = [f EXCEPT !.code = y]
  OBVIOUS
<1> QED BY <1>1, <1>2, <1>3

\* The decoder reads the bit the encoder has coded, and follows it.
LEMMA DecodeStep ==
    ASSUME NEW e \in EncoderState, e.range \in Top..(Word - 1), Fits(e.low, e.range, e.cache),
           NEW prob \in Usable, NEW bit \in {0, 1}, NEW s \in Seq(Bytes),
           Inside(encode_bit(e, prob, bit), s)
    PROVE  decode_bit(AsDecoder(e, s), prob, s)
              = [bit |-> bit, dec |-> AsDecoder(encode_bit(e, prob, bit), s)]
<1> DEFINE d == AsDecoder(e, s)
           bound == Bound(e.range, prob)
           c == Code(e, s)
           n == [range |-> Part(e.range, prob, bit), code |-> c - Offset(e.range, prob, bit), pos |-> Position(e)]
           b == IF d.code < Bound(d.range, prob) THEN 0 ELSE 1
           m == IF b = 0 THEN [d EXCEPT !.range = Bound(d.range, prob)]
                ELSE [d EXCEPT !.range = @ - Bound(d.range, prob), !.code = @ - Bound(d.range, prob)]
<1>1. bound \in 1..(e.range - 1) /\ e.range \in Nat
  <2>1. bound \in 1..(e.range - 1)
    BY Parts, Zenon
  <2> QED BY <2>1 DEF EncoderState
<1>2. /\ c \in Nat /\ Offset(e.range, prob, bit) <= c
      /\ c < Offset(e.range, prob, bit) + Part(e.range, prob, bit)
  BY CodeStep
<1>3. d = [range |-> e.range, code |-> c, pos |-> Position(e)] /\ d.range = e.range /\ d.code = c
  BY DEF AsDecoder
<1> HIDE DEF d, c, bound
<1>4. b = bit /\ m = n
  <2>1. CASE bit = 0
    <3>1. c < bound /\ c - 0 = c
      BY <1>1, <1>2, <2>1 DEF Offset, Part, bound
    <3>2. b = 0
      BY <1>3, <3>1 DEF bound
    <3>3. m = [range |-> bound, code |-> c, pos |-> Position(e)]
      <4>1. m = [d EXCEPT !.range = bound]
        BY <1>3, <3>2 DEF bound
      <4> QED BY <1>3, <4>1, DecoderSet, Zenon
    <3>4. n = [range |-> bound, code |-> c, pos |-> Position(e)]
      BY <2>1, <3>1 DEF Offset, Part, bound
    <3> QED BY <2>1, <3>2, <3>3, <3>4
  <2>2. CASE bit = 1
    <3>1. bound <= c
      BY <1>1, <1>2, <2>2 DEF Offset, Part, bound
    <3>2. b = 1
      BY <1>1, <1>2, <1>3, <3>1 DEF bound
    <3>3. m = [range |-> e.range - bound, code |-> c - bound, pos |-> Position(e)]
      <4>1. m = [d EXCEPT !.range = e.range - bound, !.code = c - bound]
        BY <1>3, <3>2 DEF bound
      <4> QED BY <1>3, <4>1, DecoderSet, Zenon
    <3>4. n = [range |-> e.range - bound, code |-> c - bound, pos |-> Position(e)]
      BY <2>2 DEF Offset, Part, bound
    <3> QED BY <2>2, <3>2, <3>3, <3>4
  <2> QED BY <2>1, <2>2
<1>5. decode_bit(d, prob, s) = [bit |-> b, dec |-> normalize_decoder(m, s)]
  BY DEF decode_bit
<1>6. normalize_decoder(n, s) = AsDecoder(encode_bit(e, prob, bit), s)
  BY NormalizedIs DEF c
<1> HIDE DEF b, m, n
<1> QED BY <1>4, <1>5, <1>6 DEF d

\* So it does without a probability, if half of the range is the part of one half.
LEMMA DirectStep ==
    ASSUME NEW e \in EncoderState, e.range \in Top..(Word - 1), Fits(e.low, e.range, e.cache),
           NEW bit \in {0, 1}, NEW s \in Seq(Bytes),
           Inside(encode_bit(e, Half, bit), s), e.range = 2 * Bound(e.range, Half)
    PROVE  get_bit(AsDecoder(e, s), s)
              = [bit |-> bit, dec |-> AsDecoder(encode_bit(e, Half, bit), s)]
<1> DEFINE d == AsDecoder(e, s)
           bound == Bound(e.range, Half)
           c == Code(e, s)
           n == [range |-> Part(e.range, Half, bit), code |-> c - Offset(e.range, Half, bit), pos |-> Position(e)]
           half == d.range \div 2
           b == IF d.code >= half THEN 1 ELSE 0
           m == [d EXCEPT !.range = half, !.code = @ - b * half]
<1>0. Half \in Usable
  BY Probabilities
<1>1. bound \in 1..(e.range - 1) /\ e.range \in Nat
  <2>1. bound \in 1..(e.range - 1)
    BY <1>0, Parts, Zenon
  <2> QED BY <2>1 DEF EncoderState
<1>2. /\ c \in Nat /\ Offset(e.range, Half, bit) <= c
      /\ c < Offset(e.range, Half, bit) + Part(e.range, Half, bit)
  BY <1>0, CodeStep
<1>3. d = [range |-> e.range, code |-> c, pos |-> Position(e)] /\ d.range = e.range /\ d.code = c
  BY DEF AsDecoder
<1>4. e.range = 2 * bound
  OBVIOUS
<1> HIDE DEF d, c, bound
<1>5. half = bound /\ e.range - bound = bound
  BY <1>1, <1>3, <1>4
<1> HIDE DEF half
<1>6. b = bit /\ m = n
  <2>1. CASE bit = 0
    <3>1. c < bound /\ c - 0 = c /\ c - 0 * half = c
      BY <1>1, <1>2, <1>5, <2>1 DEF Offset, Part, bound
    <3>2. b = 0
      BY <1>1, <1>2, <1>3, <1>5, <3>1
    <3>3. m = [range |-> bound, code |-> c, pos |-> Position(e)]
      <4>1. m = [range |-> half, code |-> c - b * half, pos |-> Position(e)]
        <5> DEFINE y == c - b * half
        <5>1. m = [d EXCEPT !.range = half, !.code = y]
          BY <1>3
        <5> HIDE DEF y, m
        <5>2. m = [range |-> half, code |-> y, pos |-> Position(e)]
          BY <1>3, <5>1, DecoderSet, Zenon
        <5> QED BY <5>2 DEF y
      <4> HIDE DEF m, b
      <4> QED BY <1>5, <3>1, <3>2, <4>1
    <3>4. n = [range |-> bound, code |-> c, pos |-> Position(e)]
      BY <2>1, <3>1 DEF Offset, Part, bound
    <3> QED BY <2>1, <3>2, <3>3, <3>4
  <2>2. CASE bit = 1
    <3>1. bound <= c /\ 1 * half = bound
      BY <1>1, <1>2, <1>5, <2>2 DEF Offset, Part, bound
    <3>2. b = 1
      BY <1>1, <1>2, <1>3, <1>5, <3>1
    <3>3. m = [range |-> bound, code |-> c - bound, pos |-> Position(e)]
      <4>1. m = [range |-> half, code |-> c - b * half, pos |-> Position(e)]
        <5> DEFINE y == c - b * half
        <5>1. m = [d EXCEPT !.range = half, !.code = y]
          BY <1>3
        <5> HIDE DEF y, m
        <5>2. m = [range |-> half, code |-> y, pos |-> Position(e)]
          BY <1>3, <5>1, DecoderSet, Zenon
        <5> QED BY <5>2 DEF y
      <4> HIDE DEF m, b
      <4> QED BY <1>5, <3>1, <3>2, <4>1
    <3>4. n = [range |-> bound, code |-> c - bound, pos |-> Position(e)]
      BY <1>5, <2>2 DEF Offset, Part, bound
    <3> QED BY <2>2, <3>2, <3>3, <3>4
  <2> QED BY <2>1, <2>2
<1>7. get_bit(d, s) = [bit |-> b, dec |-> normalize_decoder(m, s)]
  BY DEF get_bit, half
<1>8. normalize_decoder(n, s) = AsDecoder(encode_bit(e, Half, bit), s)
  BY <1>0, NormalizedIs DEF c
<1> HIDE DEF b, m, n
<1> QED BY <1>6, <1>7, <1>8 DEF d

\* A first byte that is not 0 is worth a word once a word follows.
LEMMA FirstByte ==
    ASSUME NEW s \in Seq(Bytes), NEW n \in Nat
    PROVE  /\ Value(s, n + 1) \in Nat /\ ByteAt(s, 1) * Pow2(ByteBits * n) \in Nat
           /\ Value(s, n + 1) >= ByteAt(s, 1) * Pow2(ByteBits * n)
<1> DEFINE B(i) == Pow2(ByteBits * i)
           b == ByteAt(s, 1)
           P == {i \in 0..n : Value(s, i + 1) >= b * B(i)}
<1>1. ByteBits \in Nat /\ Base \in Nat \ {0} /\ b \in Nat
  <2>1. 1 \in Nat \ {0}
    OBVIOUS
  <2>2. b \in Nat
    BY <2>1, ByteAtIs
  <2> QED BY <2>2, Widths, WidthAssumption
<1>2. ASSUME NEW i \in 0..n PROVE B(i) \in Nat /\ Value(s, i + 1) \in Nat /\ b * B(i) \in Nat
  <2>1. ByteBits * i \in Nat /\ i + 1 \in Nat
    BY <1>1
  <2>2. B(i) \in Nat /\ Value(s, i + 1) \in Nat
    BY <2>1, PowerOfMore, ValueOfMore
  <2> HIDE DEF B, b
  <2> QED BY <1>1, <2>2
<1>3. 0 \in P
  <2>1. ByteBits * 0 = 0 /\ Pow2(0) = 1
    BY <1>1, PowerOfMore
  <2>2. Value(s, 0) = 0 /\ Value(s, 0 + 1) = Value(s, 0) * Base + ByteAt(s, 0 + 1)
    BY ValueOfMore
  <2>3. 0 * Base = 0 /\ b * 1 = b
    BY <1>1
  <2>4. Value(s, 0 + 1) = b /\ b * B(0) = b
    BY <1>1, <2>1, <2>2, <2>3
  <2> QED BY <1>1, <2>4
<1>4. ASSUME NEW i \in 1..n, i - 1 \in P PROVE i \in P
  <2> DEFINE v == Value(s, i)
             m == B(i - 1)
  <2>1. i - 1 \in 0..n /\ (i - 1) + 1 = i /\ i \in Nat /\ i \in 0..n /\ i + 1 \in Nat \ {0}
    OBVIOUS
  <2>2. v >= b * m /\ v \in Nat /\ m \in Nat /\ b * m \in Nat
    BY <1>2, <1>4, <2>1
  <2>3. B(i) = m * Base
    <3>1. ByteBits * i = ByteBits * (i - 1) + ByteBits /\ ByteBits * (i - 1) \in Nat
      <4>1. PICK j \in Nat : i = j + 1
        BY <2>1
      <4>2. ByteBits * (j + 1) = ByteBits * j + ByteBits /\ ByteBits * j \in Nat /\ (j + 1) - 1 = j
        BY <1>1
      <4> QED BY <4>1, <4>2
    <3>2. Pow2(ByteBits * (i - 1) + ByteBits) = m * Base
      BY <1>1, <3>1, PowerOfSum DEF Base
    <3> QED BY <3>1, <3>2
  <2>4. Value(s, i + 1) = v * Base + ByteAt(s, i + 1) /\ ByteAt(s, i + 1) \in Nat
    BY <2>1, ValueOfMore, ByteAtIs
  <2>5. b * (m * Base) = (b * m) * Base
    <3> HIDE DEF b, m
    <3> QED BY <1>1, <2>2
  <2>6. (b * m) * Base <= v * Base /\ (b * m) * Base \in Nat /\ v * Base \in Nat
    <3> HIDE DEF b, m, v
    <3> QED BY <1>1, <2>2, ProductGrows
  <2>7. Value(s, i + 1) >= b * B(i)
    <3> HIDE DEF b, m, v, B
    <3> QED BY <2>3, <2>4, <2>5, <2>6
  <2> QED BY <2>1, <2>7
<1>5. \A i \in P : Value(s, i + 1) >= b * B(i)
  OBVIOUS
<1> HIDE DEF P
<1>6. 0..n \subseteq P
  BY <1>3, <1>4, InductionUpTo
<1>7. n \in 0..n
  OBVIOUS
<1>8. n \in P
  BY <1>6, <1>7
<1> QED BY <1>2, <1>5, <1>7, <1>8

\* A new encoder is at 0.
LEMMA NewEncoderIs ==
    /\ NewEncoder \in EncoderState /\ NewEncoder.range \in Top..(Word - 1)
    /\ Fits(NewEncoder.low, NewEncoder.range, NewEncoder.cache)
    /\ NewEncoder.range = Word - 1
    /\ Place(NewEncoder) = 0 /\ Position(NewEncoder) = WordBytes + 1
<1> DEFINE e == NewEncoder
<1>1. /\ Base \in Nat /\ Base >= 2 /\ Top \in Nat /\ Word \in Nat /\ Top <= Word - 1 /\ Top >= Base
      /\ WordBytes \in Nat /\ 0 \in Bytes
  BY Widths, WidthAssumption DEF Bytes
<1>2. e.range = Word - 1 /\ e.low = 0 /\ e.cache = 0 /\ e.cachesz = 1 /\ e.out = <<>> /\ Len(e.out) = 0
  BY DEF NewEncoder
<1>3. e \in EncoderState
  <2>1. Word - 1 \in 0..(Word - 1) /\ 0 \in 0..(Base - 1) /\ <<>> \in Seq(0..(Base - 1))
    BY <1>1
  <2> QED BY <2>1 DEF NewEncoder, EncoderState
<1> HIDE DEF e
<1>4. Fits(e.low, e.range, e.cache)
  BY <1>1, <1>2 DEF Fits
<1>5. Place(e) = 0
  <2>1. Pending(e) \in Seq(Bytes) /\ ByteAt(Pending(e), 0 + 1) = 0
    BY <1>2, <1>3, PendingIs
  <2>2. Value(Pending(e), 0) = 0 /\ Value(Pending(e), 0 + 1) = Value(Pending(e), 0) * Base + 0
    BY <2>1, ValueOfMore
  <2>3. 0 * Base + 0 = 0 /\ 0 * Word + 0 = 0
    BY <1>1
  <2>4. Value(Pending(e), 0 + 1) = 0 /\ Amount(e) = Value(Pending(e), 0 + 1)
    BY <1>2, <2>2, <2>3 DEF Amount
  <2> QED BY <1>2, <2>3, <2>4 DEF Place
<1>6. Position(e) = WordBytes + 1
  BY <1>1, <1>2 DEF Position
<1> QED BY <1>1, <1>2, <1>3, <1>4, <1>5, <1>6 DEF e

\* The decoder starts where the encoder has.
LEMMA NewDecoderIs ==
    ASSUME NEW s \in Seq(Bytes), Inside(NewEncoder, s)
    PROVE  NewDecoder(s) = AsDecoder(NewEncoder, s)
<1> DEFINE W == WordBytes
           first == [range |-> Word - 1, code |-> 0, pos |-> 1]
           Read(d) == [d EXCEPT !.pos = @ + 1, !.code = @ * Base + ByteAt(s, d.pos + 1)]
           Is(g) == g = [i \in 0..W |-> IF i = 0 THEN first ELSE Read(g[i - 1])]
           f == CHOOSE g : Is(g)
           At0(i) == [range |-> Word - 1, code |-> Value(s, i + 1), pos |-> i + 1]
           h == [i \in 0..W |-> At0(i)]
<1>1. /\ W \in Nat \ {0} /\ Base \in Nat \ {0} /\ Word \in Nat \ {0}
  BY Widths, WidthAssumption
<1>2. Value(s, W + 1) \in 0..(Word - 2) /\ Position(NewEncoder) = W + 1 /\ NewEncoder.range = Word - 1
      /\ Code(NewEncoder, s) = Value(s, W + 1)
  <2>1. /\ NewEncoder.range = Word - 1 /\ Place(NewEncoder) = 0 /\ Position(NewEncoder) = W + 1
    BY NewEncoderIs
  <2>2. W + 1 \in Nat
    BY <1>1
  <2>3. Value(s, W + 1) \in Nat
    BY <2>2, ValueOfMore
  <2>4. Code(NewEncoder, s) = Value(s, W + 1)
    BY <2>1, <2>3 DEF Code
  <2> QED BY <1>1, <2>1, <2>4 DEF Inside
<1>3. ByteAt(s, 1) = 0
  <2> DEFINE b == ByteAt(s, 1)
             v == Value(s, W + 1)
  <2>1. v >= b * Word /\ b * Word \in Nat /\ v \in Nat
    BY <1>1, FirstByte DEF Word
  <2>2. b \in Nat
    <3>1. 1 \in Nat \ {0}
      OBVIOUS
    <3> QED BY <3>1, ByteAtIs
  <2>3. v < Word
    BY <1>1, <1>2
  <2> HIDE DEF b, v
  <2>4. ~(b >= 1)
    <3> SUFFICES ASSUME b >= 1 PROVE FALSE
      OBVIOUS
    <3>1. 1 * Word <= b * Word
      BY <1>1, <2>2, ProductGrows
    <3> QED BY <1>1, <2>1, <2>3, <3>1
  <2>5. b = 0
    BY <2>2, <2>4
  <2> QED BY <2>5 DEF b
<1>4. Value(s, 0 + 1) = 0
  <2>1. Value(s, 0) = 0 /\ Value(s, 0 + 1) = Value(s, 0) * Base + ByteAt(s, 0 + 1)
    BY ValueOfMore
  <2>2. 0 * Base + 0 = 0
    BY <1>1
  <2> QED BY <1>3, <2>1, <2>2
<1>5. \A i \in 1..W : At0(i) = Read(At0(i - 1))
  <2> TAKE i \in 1..W
  <2>1. i \in Nat /\ (i - 1) + 1 = i
    BY <1>1
  <2> DEFINE d == At0(i - 1)
  <2>2. d = [range |-> Word - 1, code |-> Value(s, i), pos |-> i]
    BY <2>1
  <2>3. Value(s, i + 1) = Value(s, i) * Base + ByteAt(s, i + 1)
    BY <2>1, ValueOfMore
  <2>4. Read(d) = [range |-> Word - 1, code |-> d.code * Base + ByteAt(s, d.pos + 1), pos |-> d.pos + 1]
    <3> DEFINE x == d.pos + 1
               y == d.code * Base + ByteAt(s, d.pos + 1)
    <3>1. Read(d) = [d EXCEPT !.pos = x, !.code = y]
      OBVIOUS
    <3> HIDE DEF x, y, d
    <3> DEFINE g == [d EXCEPT !.pos = x]
    <3>2. [d EXCEPT !.pos = x, !.code = y] = [g EXCEPT !.code = y]
      OBVIOUS
    <3>3. g = [range |-> Word - 1, code |-> Value(s, i), pos |-> x]
      BY <2>2
    <3>4. [[range |-> Word - 1, code |-> Value(s, i), pos |-> x] EXCEPT !.code = y]
            = [range |-> Word - 1, code |-> y, pos |-> x]
      OBVIOUS
    <3>5. Read(d) = [range |-> Word - 1, code |-> y, pos |-> x]
      BY <3>1, <3>2, <3>3, <3>4
    <3> QED BY <3>5 DEF x, y
  <2>5. d.code = Value(s, i) /\ d.pos = i
    BY <2>2
  <2> HIDE DEF d
  <2>6. Read(d) = [range |-> Word - 1, code |-> Value(s, i + 1), pos |-> i + 1]
    BY <2>3, <2>4, <2>5
  <2> QED BY <2>6 DEF d
<1>6. At0(0) = first
  BY <1>4
<1> HIDE DEF Read, first, At0
<1>7. /\ 0 \in 0..W /\ \A i \in 0..W : i # 0 => i \in 1..W
      /\ \A i \in 1..W : i \in 0..W /\ i # 0 /\ i - 1 \in 0..W
  BY <1>1
<1>8. Is(h)
  <2>1. \A i \in 0..W : h[i] = At0(i)
    OBVIOUS
  <2>2. \A i \in 0..W : At0(i) = IF i = 0 THEN first ELSE Read(At0(i - 1))
    BY <1>5, <1>6, <1>7
  <2>3. \A i \in 0..W : At0(i) = IF i = 0 THEN first ELSE Read(h[i - 1])
    BY <1>7, <2>1, <2>2
  <2>4. h = [i \in 0..W |-> IF i = 0 THEN first ELSE Read(h[i - 1])]
    BY <2>3
  <2> QED BY <2>4
<1>9. Is(f)
  BY <1>8, Zenon
<1>10. NewDecoder(s) = f[W]
  BY Zenon DEF NewDecoder, Repeat, Read, first
<1> HIDE DEF f
<1>11. f[W] = h[W]
  <2>1. \A i \in 0..W : f[i] = IF i = 0 THEN first ELSE Read(f[i - 1])
    BY <1>9
  <2>2. \A i \in 0..W : h[i] = IF i = 0 THEN first ELSE Read(h[i - 1])
    BY <1>8
  <2> HIDE DEF h
  <2>3. f[0] = h[0]
    BY <1>7, <2>1, <2>2
  <2>4. \A i \in 1..W : f[i - 1] = h[i - 1] => f[i] = h[i]
    BY <1>7, <2>1, <2>2
  <2>5. \A i \in 0..W : f[i] = h[i]
    <3>1. W \in Nat
      BY <1>1
    <3> QED BY <2>3, <2>4, <3>1, AgreeUpTo, Zenon
  <2> QED BY <1>1, <2>5
<1>12. h[W] = AsDecoder(NewEncoder, s)
  <2>1. h[W] = At0(W)
    BY <1>1
  <2>2. AsDecoder(NewEncoder, s) = [range |-> Word - 1, code |-> Value(s, W + 1), pos |-> W + 1]
    BY <1>2 DEF AsDecoder
  <2> QED BY <2>1, <2>2 DEF At0
<1> QED BY <1>10, <1>11, <1>12

\* Behind the end of the bytes a code of 0 stays, and every bit is 0.
LEMMA ZeroStep ==
    ASSUME NEW s \in Seq(Bytes), NEW r \in Top..(Word - 1), NEW p \in Nat, p >= Len(s),
           NEW prob \in Usable
    PROVE  \E r2 \in Top..(Word - 1), p2 \in {p, p + 1} :
              decode_bit([range |-> r, code |-> 0, pos |-> p], prob, s)
                 = [bit |-> 0, dec |-> [range |-> r2, code |-> 0, pos |-> p2]]
<1> DEFINE bound == Bound(r, prob)
           d == [range |-> r, code |-> 0, pos |-> p]
           m == [range |-> bound, code |-> 0, pos |-> p]
<1>1. /\ Base \in Nat \ {0} /\ Top \in Nat \ {0} /\ Word \in Nat \ {0} /\ Word = Top * Base
  BY Widths
<1>2. bound \in 1..(r - 1) /\ bound * Base >= Top
  BY Parts, Zenon
<1>3. bound \in Nat \ {0} /\ bound < Word
  <2> HIDE DEF bound
  <2> QED BY <1>1, <1>2
<1>4. decode_bit(d, prob, s) = [bit |-> 0, dec |-> normalize_decoder(m, s)]
  <2> DEFINE b == IF d.code < Bound(d.range, prob) THEN 0 ELSE 1
             x == IF b = 0 THEN [d EXCEPT !.range = Bound(d.range, prob)]
                  ELSE [d EXCEPT !.range = @ - Bound(d.range, prob), !.code = @ - Bound(d.range, prob)]
  <2>1. decode_bit(d, prob, s) = [bit |-> b, dec |-> normalize_decoder(x, s)]
    BY DEF decode_bit
  <2>2. d.code = 0 /\ d.range = r
    OBVIOUS
  <2>3. b = 0
    BY <1>3, <2>2
  <2>4. x = m
    <3>1. x = [d EXCEPT !.range = bound]
      BY <2>2, <2>3
    <3> HIDE DEF x, b, bound
    <3> QED BY <3>1, DecoderSet, Zenon
  <2> QED BY <2>1, <2>3, <2>4
<1>5. m.range = bound /\ m.code = 0 /\ m.pos = p
  OBVIOUS
<1> HIDE DEF d, m, bound
<1>6. CASE bound < Top
  <2>1. normalize_decoder(m, s) = [range |-> bound * Base, code |-> ((0 * Base) % Word) + ByteAt(s, p + 1),
                                   pos |-> p + 1]
    BY <1>5, <1>6 DEF normalize_decoder
  <2>2. ByteAt(s, p + 1) = 0
    <3>1. ~(p + 1 <= Len(s))
      OBVIOUS
    <3> QED BY <3>1 DEF ByteAt
  <2>3. (0 * Base) % Word = 0
    <3>1. 0 * Base = 0 /\ Word * 0 + 0 = 0 /\ 0 \in 0..(Word - 1) /\ 0 \in Nat
      BY <1>1
    <3>2. (Word * 0 + 0) % Word = 0
      BY <1>1, <3>1, DivideIs
    <3> QED BY <3>1, <3>2
  <2>4. bound * Base \in Top..(Word - 1)
    <3>1. 0 \in 0..(Base - 1) /\ bound \in Nat
      BY <1>1, <1>3
    <3>2. bound * Base + 0 < Top * Base /\ bound * Base \in Nat
      BY <1>1, <1>6, <3>1, DigitBehind
    <3> QED BY <1>1, <1>2, <3>2
  <2>5. normalize_decoder(m, s) = [range |-> bound * Base, code |-> 0, pos |-> p + 1]
    BY <2>1, <2>2, <2>3
  <2> QED BY <1>4, <2>4, <2>5 DEF d
<1>7. CASE ~(bound < Top)
  <2>1. normalize_decoder(m, s) = m
    BY <1>5, <1>7 DEF normalize_decoder
  <2>2. bound \in Top..(Word - 1)
    BY <1>1, <1>3, <1>7
  <2> QED BY <1>4, <2>1, <2>2 DEF d, m
<1> QED BY <1>6, <1>7

-----------------------------------------------------------------------------
(* The bits of a literal *)

\* The values of a symbol.
Literals == 0..(Pow2(LitBits) - 1)

\* How many bits come behind the next one, by the bits so far.
Rest(b) == CHOOSE n \in 0..(LitBits - 1) : Pow2(LitBits - 1 - n) <= b /\ b < Pow2(LitBits - n)

\* The first bits of a literal, behind a 1.
FirstBits(t, k) == Pow2(k) + (t \div Pow2(LitBits - k))

\* A larger power has a larger exponent.
LEMMA PowerOrder ==
    ASSUME NEW m \in Nat, NEW n \in Nat
    PROVE  m <= n <=> Pow2(m) <= Pow2(n)
<1>1. Pow2(m) \in Nat \ {0} /\ Pow2(n) \in Nat \ {0}
  BY PowerOfMore
<1>2. m < n => 2 * Pow2(m) <= Pow2(n)
  BY PowerGrows
<1>3. n < m => 2 * Pow2(n) <= Pow2(m)
  BY PowerGrows
<1>4. m = n => Pow2(m) = Pow2(n)
  OBVIOUS
<1> HIDE DEF Pow2
<1> QED BY <1>1, <1>2, <1>3, <1>4

\* It is found from the highest bit.
LEMMA RestIs ==
    ASSUME NEW k \in 0..(LitBits - 1), NEW b \in Nat, Pow2(k) <= b, b < Pow2(k + 1)
    PROVE  Rest(b) = LitBits - 1 - k
<1> DEFINE Is(n) == Pow2(LitBits - 1 - n) <= b /\ b < Pow2(LitBits - n)
           r == CHOOSE n \in 0..(LitBits - 1) : Is(n)
           x == LitBits - 1 - k
<1>1. LitBits \in Nat \ {0}
  BY SymbolAssumption
<1>2. x \in 0..(LitBits - 1) /\ LitBits - 1 - x = k /\ LitBits - x = k + 1
  BY <1>1
<1>3. Is(x)
  BY <1>2
<1> HIDE DEF Is, x
<1>4. r \in 0..(LitBits - 1) /\ Is(r)
  BY <1>2, <1>3, Zenon
<1>5. Rest(b) = r
  BY Zenon DEF Rest, Is
<1> HIDE DEF r
<1> DEFINE j == LitBits - 1 - r
<1>6. j \in 0..(LitBits - 1) /\ LitBits - r = j + 1 /\ r = LitBits - 1 - j
  BY <1>1, <1>4
<1>7. Pow2(j) <= b /\ b < Pow2(j + 1)
  BY <1>4, <1>6 DEF Is
<1> HIDE DEF j
<1>8. /\ j \in Nat /\ k \in Nat /\ Pow2(j) \in Nat /\ Pow2(k) \in Nat /\ Pow2(j + 1) = 2 * Pow2(j)
      /\ Pow2(k + 1) = 2 * Pow2(k)
  <2>1. j \in Nat /\ k \in Nat
    BY <1>1, <1>6
  <2> QED BY <2>1, PowerOfMore
<1>9. ~(j < k)
  <2>1. j < k => 2 * Pow2(j) <= Pow2(k)
    BY <1>8, PowerGrows
  <2> QED BY <1>7, <1>8, <2>1
<1>10. ~(k < j)
  <2>1. k < j => 2 * Pow2(k) <= Pow2(j)
    BY <1>8, PowerGrows
  <2> QED BY <1>7, <1>8, <2>1
<1>11. j = k
  BY <1>8, <1>9, <1>10
<1> QED BY <1>5, <1>6, <1>11

\* One bit more.
LEMMA NextBit ==
    ASSUME NEW t \in Literals, NEW k \in 0..(LitBits - 1)
    PROVE  /\ FirstBits(t, k) \in 1..(Pow2(LitBits) - 1)
           /\ (t \div Pow2(Rest(FirstBits(t, k)))) % 2 \in {0, 1}
           /\ k < LitBits - 1 =>
                 /\ 2 * FirstBits(t, k) + ((t \div Pow2(Rest(FirstBits(t, k)))) % 2) < Pow2(LitBits)
                 /\ 2 * FirstBits(t, k) + ((t \div Pow2(Rest(FirstBits(t, k)))) % 2) = FirstBits(t, k + 1)
           /\ k = LitBits - 1 =>
                 2 * FirstBits(t, k) + ((t \div Pow2(Rest(FirstBits(t, k)))) % 2) = Pow2(LitBits) + t
<1> DEFINE n == LitBits - 1 - k
           m == Pow2(n)
           x == t \div m
           q == x \div 2
           r == x % 2
           b == FirstBits(t, k)
           p == Pow2(k)
           L == Pow2(LitBits)
<1>1. /\ LitBits \in Nat \ {0} /\ k \in Nat /\ n \in Nat /\ LitBits - k = n + 1 /\ n + 1 \in Nat
      /\ LitBits = k + (n + 1) /\ LitBits - (k + 1) = n /\ k + 1 \in Nat
  BY SymbolAssumption
<1>2. /\ m \in Nat \ {0} /\ Pow2(n + 1) = 2 * m /\ p \in Nat \ {0} /\ Pow2(k + 1) = 2 * p
      /\ L = p * Pow2(n + 1)
  BY <1>1, PowerOfMore, PowerOfSum
<1>3. t \in Nat /\ t < L
  <2>1. L \in Nat
    BY <1>1, PowerOfMore
  <2> QED BY <2>1 DEF Literals
<1> HIDE DEF L, p
<1>4. L = (2 * p) * m
  BY <1>2
<1>5. x \in Nat /\ t % m \in 0..(m - 1) /\ t = m * x + (t % m)
  <2> HIDE DEF m, x
  <2>1. t \div m \in Nat /\ t % m \in 0..(m - 1) /\ t = m * (t \div m) + (t % m)
    BY <1>2, <1>3, Divided
  <2> QED BY <2>1 DEF x
<1> HIDE DEF x, m, n
<1>6. q \in Nat /\ r \in {0, 1} /\ x = 2 * q + r
  BY <1>5
<1>7. t \div Pow2(LitBits - k) = q
  <2> DEFINE s == t % m
             y == m * r + s
  <2>1. s \in 0..(m - 1) /\ t = m * x + s
    BY <1>5
  <2> HIDE DEF s, q, r
  <2>2. y \in 0..(2 * m - 1)
    <3>1. CASE r = 0
      <4>1. m * 0 = 0
        BY <1>2
      <4> QED BY <1>2, <2>1, <3>1, <4>1
    <3>2. CASE r = 1
      <4>1. m * 1 = m
        BY <1>2
      <4> QED BY <1>2, <2>1, <3>2, <4>1
    <3> QED BY <1>6, <3>1, <3>2
  <2>3. t = (2 * m) * q + y
    <3>1. m * (2 * q + r) = (2 * m) * q + m * r
      BY <1>2, <1>6
    <3>2. m * r \in Nat /\ (2 * m) * q \in Nat
      BY <1>2, <1>6
    <3> QED BY <1>6, <2>1, <3>1, <3>2
  <2> HIDE DEF y
  <2>4. ((2 * m) * q + y) \div (2 * m) = q
    <3>1. 2 * m \in Nat \ {0}
      BY <1>2
    <3> QED BY <1>6, <2>2, <3>1, DivideIs
  <2>5. Pow2(LitBits - k) = 2 * m
    BY <1>1, <1>2
  <2> QED BY <2>3, <2>4, <2>5
<1>8. b = p + q
  BY <1>7 DEF FirstBits, p
<1>9. x < 2 * p
  <2> SUFFICES ASSUME 2 * p <= x PROVE FALSE
    BY <1>2, <1>5
  <2>1. (2 * p) * m <= x * m /\ x * m = m * x /\ m * x \in Nat
    BY <1>2, <1>5, ProductGrows
  <2> QED BY <1>2, <1>3, <1>4, <1>5, <2>1
<1>10. q < p
  BY <1>2, <1>6, <1>9
<1>11. b \in 1..(L - 1)
  <2>1. 2 * p <= L /\ L \in Nat
    <3>1. (2 * p) * 1 <= (2 * p) * m /\ (2 * p) * m \in Nat
      BY <1>2, ProductGrows
    <3> QED BY <1>2, <1>4, <3>1
  <2> QED BY <1>2, <1>6, <1>8, <1>10, <2>1
<1>12. Rest(b) = n
  <2>1. Pow2(k) <= b /\ b < Pow2(k + 1) /\ b \in Nat
    BY <1>2, <1>6, <1>8, <1>10 DEF p
  <2> QED BY <2>1, RestIs DEF n
<1>13. (t \div Pow2(Rest(b))) % 2 = r
  BY <1>12 DEF x, m
<1>14. 2 * b + r = Pow2(k + 1) + x
  BY <1>2, <1>6, <1>8
<1>15. CASE k < LitBits - 1
  <2>1. FirstBits(t, k + 1) = Pow2(k + 1) + x
    BY <1>1 DEF FirstBits, x, m
  <2>2. 2 * b + r < L
    <3>1. n >= 1
      BY <1>15, <1>1 DEF n
    <3>2. m >= 2
      <4>1. 0 \in Nat /\ 0 < n /\ Pow2(0) = 1
        <5>1. n \in Nat
          BY <1>1 DEF n
        <5> HIDE DEF n
        <5> QED BY <3>1, <5>1, PowerOfMore
      <4>2. 2 * Pow2(0) <= Pow2(n)
        <5>1. n \in Nat
          BY <1>1 DEF n
        <5> HIDE DEF n
        <5> QED BY <4>1, <5>1, PowerGrows
      <4> QED BY <1>2, <4>1, <4>2 DEF m
    <3>3. (2 * p) * 2 <= (2 * p) * m /\ (2 * p) * m \in Nat
      BY <1>2, <3>2, ProductGrows
    <3> DEFINE w == 2 * b + r
    <3>4. w = 2 * p + x
      BY <1>2, <1>14
    <3> HIDE DEF w
    <3>5. w < (2 * p) * 2 /\ L = (2 * p) * m
      BY <1>2, <1>4, <1>5, <1>9, <3>4
    <3>6. w < L
      BY <1>2, <1>5, <3>3, <3>4, <3>5
    <3> QED BY <3>6 DEF w
  <2>3. k # LitBits - 1
    BY <1>15, <1>1
  <2> HIDE DEF b, r
  <2> QED BY <1>6, <1>11, <1>13, <1>14, <2>1, <2>2, <2>3 DEF b, L
<1>16. CASE k = LitBits - 1
  <2>1. n = 0 /\ m = 1
    <3>1. n = 0
      BY <1>16, <1>1 DEF n
    <3> QED BY <3>1, PowerOfMore DEF m
  <2>2. x = t
    BY <1>3, <1>5, <2>1
  <2>3. Pow2(k + 1) = L
    BY <1>16, <1>1 DEF L
  <2>4. ~(k < LitBits - 1)
    BY <1>16, <1>1
  <2> HIDE DEF b, r
  <2> QED BY <1>6, <1>11, <1>13, <1>14, <2>2, <2>3, <2>4 DEF b, L
<1> QED BY <1>1, <1>15, <1>16

\* A literal begins with no bit.
LEMMA NoBits ==
    ASSUME NEW t \in Literals
    PROVE  FirstBits(t, 0) = 1 /\ 0 \in 0..(LitBits - 1)
<1>1. LitBits \in Nat \ {0} /\ LitBits - 0 = LitBits
  BY SymbolAssumption
<1> DEFINE m == Pow2(LitBits)
<1>2. m \in Nat \ {0} /\ Pow2(0) = 1 /\ t \in 0..(m - 1)
  BY <1>1, PowerOfMore DEF Literals
<1> HIDE DEF m
<1>3. m * 0 + t = t /\ 0 \in Nat
  BY <1>2
<1>4. (m * 0 + t) \div m = 0
  BY <1>2, <1>3, DivideIs
<1>5. t \div m = 0
  BY <1>3, <1>4
<1> QED BY <1>1, <1>2, <1>5 DEF FirstBits, m

\* The first bits of 0.
LEMMA ZeroBits ==
    ASSUME NEW k \in 0..(LitBits - 1)
    PROVE  /\ FirstBits(0, k) = Pow2(k) /\ Pow2(k) \in 1..(Pow2(LitBits) - 1)
           /\ k < LitBits - 1 => 2 * Pow2(k) = Pow2(k + 1) /\ 2 * Pow2(k) < Pow2(LitBits)
           /\ k = LitBits - 1 => 2 * Pow2(k) = Pow2(LitBits)
<1>1. /\ LitBits \in Nat \ {0} /\ k \in Nat /\ LitBits - k \in Nat /\ k < LitBits
  BY SymbolAssumption
<1>2. /\ Pow2(LitBits - k) \in Nat \ {0} /\ Pow2(k) \in Nat \ {0} /\ Pow2(LitBits) \in Nat
      /\ Pow2(k + 1) = 2 * Pow2(k) /\ 2 * Pow2(k) <= Pow2(LitBits)
  BY <1>1, PowerOfMore, PowerGrows
<1>3. FirstBits(0, k) = Pow2(k)
  <2> DEFINE m == Pow2(LitBits - k)
  <2>1. m \in Nat \ {0}
    BY <1>2
  <2> HIDE DEF m
  <2>2. 0 \in 0..(m - 1) /\ m * 0 + 0 = 0 /\ 0 \in Nat
    BY <2>1
  <2>3. (m * 0 + 0) \div m = 0
    BY <2>1, <2>2, DivideIs
  <2> QED BY <1>2, <2>2, <2>3 DEF FirstBits, m
<1>4. k < LitBits - 1 => 2 * Pow2(k + 1) <= Pow2(LitBits)
  <2>1. k + 1 \in Nat /\ (k < LitBits - 1 => k + 1 < LitBits)
    BY <1>1
  <2> QED BY <1>1, <2>1, PowerGrows
<1>5. k = LitBits - 1 => k + 1 = LitBits
  BY <1>1
<1> QED BY <1>2, <1>3, <1>4, <1>5

-----------------------------------------------------------------------------
(* Halves: the bits of the end marker *)

\* Fewer than ByteBits bits since the last shift, each a true half.
Even(range) ==
    \E j \in 0..(ByteBits - 1), m \in Nat :
        range = m * (Half * Pow2(ByteBits - j)) /\ range * Pow2(j) < Word

\* No shift yet in k bits, each half of the range or half of Half more.
Early(range, k) == \E m \in Nat : range = m * Half /\ range * Pow2(k) <= Word

\* The range before bit i of the marker.
MarkerRange(range, i) == i = 1 \/ Even(range) \/ Early(range, i - 1)

\* The range behind a bit.
Shifted(part) == IF part < Top THEN part * Base ELSE part

\* Shifting makes a multiple of Half even.
LEMMA ShiftEven ==
    ASSUME NEW m \in Nat, NEW part \in Nat, part = m * Half, part * Base < Word
    PROVE  Even(part * Base)
<1>1. ByteBits \in Nat \ {0} /\ Base \in Nat \ {0} /\ Half \in Nat \ {0} /\ Word \in Nat
  BY Widths, WidthAssumption
<1>2. 0 \in 0..(ByteBits - 1) /\ Pow2(ByteBits - 0) = Base /\ Pow2(0) = 1
  <2>1. ByteBits - 0 = ByteBits /\ 0 \in 0..(ByteBits - 1)
    BY <1>1
  <2> QED BY <2>1, PowerOfMore DEF Base
<1>3. part * Base = m * (Half * Base)
  BY <1>1
<1>4. part * Base \in Nat /\ (part * Base) * 1 = part * Base
  BY <1>1
<1>5. (part * Base) * Pow2(0) < Word /\ part * Base = m * (Half * Pow2(ByteBits - 0))
  BY <1>2, <1>3, <1>4
<1> QED BY <1>2, <1>5 DEF Even

\* An even range is halved.
LEMMA EvenHalf ==
    ASSUME NEW range \in Top..(Word - 1), Even(range)
    PROVE  /\ Bound(range, Half) \in Nat /\ range = 2 * Bound(range, Half)
           /\ Even(Shifted(Bound(range, Half)))
<1>1. /\ ByteBits \in Nat \ {0} /\ Base \in Nat \ {0} /\ Half \in Nat \ {0} /\ ProbTotal = 2 * Half
      /\ ProbTotal \in Nat \ {0} /\ Top \in Nat \ {0} /\ Word \in Nat \ {0} /\ Word = Top * Base
      /\ range \in Nat /\ range < Word
  BY Widths, WidthAssumption
<1>2. PICK j \in 0..(ByteBits - 1), m \in Nat :
        range = m * (Half * Pow2(ByteBits - j)) /\ range * Pow2(j) < Word
  BY DEF Even
<1> DEFINE i == ByteBits - (j + 1)
           p == Pow2(i)
           bound == Bound(range, Half)
           a == Pow2(j)
<1>3. i \in Nat /\ ByteBits - j = i + 1 /\ j \in Nat /\ j + 1 \in Nat
  BY <1>1
<1>4. p \in Nat \ {0} /\ Pow2(ByteBits - j) = 2 * p /\ a \in Nat \ {0} /\ Pow2(j + 1) = 2 * a
  BY <1>3, PowerOfMore
<1> HIDE DEF p, a
<1>5. range = ProbTotal * (m * p) /\ m * p \in Nat
  <2>1. m * (Half * (2 * p)) = (2 * Half) * (m * p) /\ m * p \in Nat
    BY <1>1, <1>4
  <2> QED BY <1>1, <1>2, <1>4, <2>1
<1>6. bound = (m * p) * Half
  <2> DEFINE q == m * p
  <2>1. q \in Nat /\ range = ProbTotal * q
    BY <1>5
  <2> HIDE DEF q
  <2>2. ProbTotal * q + 0 = ProbTotal * q /\ 0 \in 0..(ProbTotal - 1)
    BY <1>1, <2>1
  <2>3. (ProbTotal * q + 0) \div ProbTotal = q
    BY <1>1, <2>1, <2>2, DivideIs
  <2>4. range \div ProbTotal = q
    BY <2>1, <2>2, <2>3
  <2> QED BY <2>4 DEF Bound, q
<1>7. bound \in Nat /\ range = 2 * bound
  <2>1. (m * p) * Half \in Nat /\ ProbTotal * (m * p) = 2 * ((m * p) * Half)
    <3> DEFINE q == m * p
    <3>1. q \in Nat
      BY <1>5
    <3> HIDE DEF q
    <3>2. q * Half \in Nat /\ (2 * Half) * q = 2 * (q * Half)
      BY <1>1, <3>1
    <3> QED BY <1>1, <3>2 DEF q
  <2> HIDE DEF bound
  <2> QED BY <1>5, <1>6, <2>1
<1> HIDE DEF bound
<1>8. CASE bound < Top
  <2>1. bound * Base < Word
    <3>1. bound * Base + 0 < Top * Base /\ bound * Base \in Nat
      <4>1. 0 \in 0..(Base - 1)
        BY <1>1
      <4> QED BY <1>1, <1>7, <1>8, <4>1, DigitBehind
    <3> QED BY <1>1, <3>1
  <2>2. Even(bound * Base)
    BY <1>5, <1>6, <1>7, <2>1, ShiftEven
  <2> QED BY <1>7, <1>8, <2>2 DEF Shifted, bound
<1>9. CASE ~(bound < Top)
  <2>1. bound * (2 * a) = range * a /\ bound * (2 * a) \in Nat
    BY <1>4, <1>7
  <2>2. bound * Pow2(j + 1) < Word
    BY <1>2, <1>4, <2>1 DEF a
  <2>3. j + 1 # ByteBits
    <3> SUFFICES ASSUME j + 1 = ByteBits PROVE FALSE
      OBVIOUS
    <3>1. Pow2(j + 1) = Base
      BY Zenon DEF Base
    <3>2. Top * Base <= bound * Base /\ bound * Base \in Nat
      BY <1>1, <1>7, <1>9, ProductGrows
    <3> QED BY <1>1, <2>2, <3>1, <3>2
  <2>4. j + 1 \in 0..(ByteBits - 1)
    BY <1>1, <1>3, <2>3
  <2>5. bound = m * (Half * Pow2(ByteBits - (j + 1)))
    <3>1. (m * p) * Half = m * (Half * p)
      BY <1>1, <1>4
    <3> QED BY <1>6, <3>1 DEF p
  <2>6. Even(bound)
    BY <2>2, <2>4, <2>5 DEF Even
  <2> QED BY <1>7, <1>9, <2>6 DEF Shifted, bound
<1> QED BY <1>8, <1>9

\* There is room for the half of Half more, as long as it comes to that.
LEMMA OddRoom ==
    ASSUME NEW m \in Nat, NEW q \in Nat, m = 2 * q + 1, NEW k \in 0..ByteBits,
           (m * Half) * Pow2(k) <= Word
    PROVE  ((q + 1) * Half) * Pow2(k + 1) <= Word
<1> DEFINE w == ByteBits * WordBytes
           n == TotalBits - 1 + k
           d == w - n - 1
<1>1. /\ ByteBits \in Nat \ {0} /\ WordBytes \in Nat /\ WordBytes - 1 \in Nat /\ TotalBits \in Nat \ {0}
      /\ TotalBits - 1 \in Nat /\ k \in Nat
  BY WidthAssumption
<1>2. ByteBits * (WordBytes - 1) \in Nat /\ w = ByteBits * (WordBytes - 1) + ByteBits
  <2>1. PICK v \in Nat : WordBytes - 1 = v /\ WordBytes = v + 1
    BY <1>1
  <2>2. ByteBits * (v + 1) = ByteBits * v + ByteBits /\ ByteBits * v \in Nat
    BY <1>1
  <2> QED BY <2>1, <2>2
<1>3. TotalBits <= ByteBits * (WordBytes - 1)
  <2>1. Pow2(TotalBits) <= Pow2(ByteBits * (WordBytes - 1))
    BY Probabilities DEF ProbTotal, Top
  <2> QED BY <1>1, <1>2, <2>1, PowerOrder
<1> HIDE DEF w
<1>4. n \in Nat /\ d \in Nat /\ w = n + (d + 1) /\ d + 1 \in Nat
  BY <1>1, <1>2, <1>3
<1> DEFINE h == Half * Pow2(k)
           e == Pow2(d)
<1>5. Word = h * (2 * e) /\ h \in Nat \ {0} /\ e \in Nat \ {0}
  <2>1. Pow2(n) = Half * Pow2(k)
    BY <1>1, PowerOfSum DEF Half
  <2>2. Pow2(n) \in Nat \ {0} /\ e \in Nat \ {0} /\ Pow2(d + 1) = 2 * e
    <3> HIDE DEF n, d
    <3> QED BY <1>4, PowerOfMore
  <2>3. Pow2(n + (d + 1)) = Pow2(n) * Pow2(d + 1)
    <3> HIDE DEF n, d
    <3> QED BY <1>4, PowerOfSum
  <2> QED BY <1>4, <2>1, <2>2, <2>3 DEF Word, w
<1>6. Half \in Nat \ {0} /\ Pow2(k) \in Nat \ {0} /\ Pow2(k + 1) = 2 * Pow2(k)
  BY <1>1, Widths, PowerOfMore
<1>7. m * h <= (2 * e) * h
  <2>1. (m * Half) * Pow2(k) = m * h /\ h * (2 * e) = (2 * e) * h
    <3> DEFINE y == Pow2(k)
    <3>1. y \in Nat
      BY <1>6
    <3> HIDE DEF y, e
    <3>2. (m * Half) * y = m * (Half * y)
      BY <1>6, <3>1
    <3>3. h \in Nat
      BY <1>5
    <3>4. h * (2 * e) = (2 * e) * h
      <4> HIDE DEF h
      <4> QED BY <1>5, <3>3
    <3> QED BY <3>2, <3>4 DEF y
  <2> HIDE DEF h, e
  <2> QED BY <1>5, <2>1
<1> HIDE DEF h, e
<1>8. m <= 2 * e
  <2> SUFFICES ASSUME 2 * e < m PROVE FALSE
    BY <1>5
  <2>1. 0 \in 0..(h - 1) /\ 2 * e \in Nat
    BY <1>5
  <2>2. (2 * e) * h + 0 < m * h /\ (2 * e) * h + 0 \in Nat /\ m * h \in Nat
    BY <1>5, <2>1, DigitBehind
  <2> DEFINE u == (2 * e) * h
             v == m * h
  <2>3. u + 0 < v /\ v <= u /\ u + 0 \in Nat /\ v \in Nat
    BY <1>7, <2>2
  <2>4. u \in Nat
    <3>1. e \in Nat /\ h \in Nat
      BY <1>5
    <3> QED BY <3>1
  <2> HIDE DEF u, v
  <2> QED BY <2>3, <2>4
<1>9. q + 1 <= e
  BY <1>5, <1>8
<1>10. (q + 1) * (2 * h) <= e * (2 * h)
  BY <1>5, <1>9, ProductGrows
<1>11. e * (2 * h) = h * (2 * e)
  BY <1>5
<1>12. ((q + 1) * Half) * Pow2(k + 1) = (q + 1) * (2 * h)
  <2> DEFINE y == Pow2(k)
  <2>1. y \in Nat /\ Pow2(k + 1) = 2 * y /\ h = Half * y
    BY <1>6 DEF h
  <2> HIDE DEF y
  <2>2. ((q + 1) * Half) * (2 * y) = (q + 1) * (2 * (Half * y))
    BY <1>6, <2>1
  <2> QED BY <2>1, <2>2
<1> QED BY <1>5, <1>10, <1>11, <1>12

\* The range stays even, or becomes it by the first shift.
LEMMA MarkerRangeStep ==
    ASSUME NEW range \in Top..(Word - 1), NEW i \in Nat \ {0}, MarkerRange(range, i),
           NEW bit \in {0, 1}, i = 1 => bit = 0
    PROVE  MarkerRange(Shifted(Part(range, Half, bit)), i + 1)
<1> DEFINE part == Part(range, Half, bit)
           bound == Bound(range, Half)
           q == range \div ProbTotal
<1>1. /\ ByteBits \in Nat \ {0} /\ Base \in Nat \ {0} /\ Half \in Nat \ {0} /\ ProbTotal = 2 * Half
      /\ ProbTotal \in Nat \ {0} /\ Top \in Nat \ {0} /\ Word \in Nat \ {0} /\ Word = Top * Base
      /\ range \in Nat /\ range < Word /\ Top <= range
  BY Widths, WidthAssumption
<1>2. /\ part \in Nat \ {0} /\ (part < Top => part * Base < Word)
  <2>1. Half \in Usable
    BY Probabilities
  <2> QED BY <2>1, PartIs
<1>3. q \in Nat /\ bound = q * Half /\ range = ProbTotal * q + (range % ProbTotal) /\ ProbTotal * q \in Nat
      /\ range % ProbTotal \in 0..(ProbTotal - 1)
  BY <1>1, Divided DEF Bound
<1>4. ASSUME NEW m \in Nat, part = m * Half, part < Top
      PROVE  Even(Shifted(part))
  <2> HIDE DEF part
  <2> QED BY <1>2, <1>4, ShiftEven DEF Shifted
<1> HIDE DEF q, bound
<1>5. CASE i = 1
  <2>1. part = bound
    BY <1>5 DEF Part, bound
  <2>2. CASE part < Top
    BY <1>3, <1>4, <2>1, <2>2 DEF MarkerRange
  <2>3. CASE ~(part < Top)
    <3>1. Pow2(1) = 2
      <4>1. Pow2(0 + 1) = 2 * Pow2(0) /\ Pow2(0) = 1
        BY PowerOfMore
      <4> QED BY <4>1
    <3>2. (q * Half) * 2 <= Word
      <4>1. (q * Half) * 2 = (2 * Half) * q
        BY <1>1, <1>3
      <4> HIDE DEF part
      <4> QED BY <1>1, <1>3, <4>1
    <3>3. Early(part, 1)
      BY <1>3, <2>1, <3>1, <3>2 DEF Early
    <3>4. Shifted(part) = part /\ (i + 1) - 1 = 1
      BY <1>5, <2>3 DEF Shifted
    <3> HIDE DEF part
    <3> QED BY <3>3, <3>4 DEF MarkerRange, part
  <2> QED BY <2>2, <2>3
<1>6. CASE Even(range)
  <2>1. range = 2 * bound /\ bound \in Nat /\ Even(Shifted(bound))
    BY <1>6, EvenHalf DEF bound
  <2>2. range - bound = bound
    BY <2>1
  <2>3. part = bound
    BY <2>2 DEF Part, bound
  <2> QED BY <2>1, <2>3 DEF MarkerRange
<1>7. CASE i # 1 /\ Early(range, i - 1)
  <2> DEFINE k == i - 1
  <2>1. PICK m \in Nat : range = m * Half /\ range * Pow2(k) <= Word
    BY <1>7 DEF Early
  <2>2. k \in Nat /\ k + 1 = i /\ Pow2(k) \in Nat \ {0} /\ Pow2(k + 1) = 2 * Pow2(k)
    <3>1. k \in Nat /\ k + 1 = i
      OBVIOUS
    <3> HIDE DEF k
    <3> QED BY <3>1, PowerOfMore
  <2> HIDE DEF k
  <2>3. k <= ByteBits
    <3>1. Pow2(k) <= Pow2(ByteBits)
      <4> SUFFICES ASSUME Base < Pow2(k) PROVE FALSE
        BY <1>1, <2>2 DEF Base
      <4>1. 0 \in 0..(Top - 1) /\ Pow2(k) \in Nat /\ Base \in Nat
        BY <1>1, <2>2
      <4>2. Base * Top + 0 < Pow2(k) * Top /\ Base * Top + 0 \in Nat /\ Pow2(k) * Top \in Nat
        BY <1>1, <4>1, DigitBehind
      <4>3. Top * Pow2(k) <= range * Pow2(k) /\ range * Pow2(k) \in Nat
        BY <1>1, <4>1, ProductGrows
      <4>4. Base * Top + 0 = Word /\ Pow2(k) * Top = Top * Pow2(k)
        BY <1>1, <4>1
      <4> QED BY <1>1, <2>1, <4>2, <4>3, <4>4
    <3> QED BY <1>1, <2>2, <3>1, PowerOrder
  <2> DEFINE x == m \div 2
             r == m % 2
  <2>4. x \in Nat /\ r \in {0, 1} /\ m = 2 * x + r
    OBVIOUS
  <2> HIDE DEF x, r
  <2>5. q = x
    <3>1. range = ProbTotal * x + r * Half
      <4>1. (2 * x + r) * Half = (2 * Half) * x + r * Half
        BY <1>1, <2>4
      <4> QED BY <1>1, <2>1, <2>4, <4>1
    <3>2. r * Half \in 0..(ProbTotal - 1)
      <4>1. 0 * Half = 0 /\ 1 * Half = Half
        BY <1>1
      <4> QED BY <1>1, <2>4, <4>1
    <3>3. (ProbTotal * x + r * Half) \div ProbTotal = x
      BY <1>1, <2>4, <3>2, DivideIs
    <3> QED BY <3>1, <3>3 DEF q
  <2> DEFINE y == IF bit = 1 THEN x + r ELSE x
  <2>6. y \in Nat /\ part = y * Half
    <3>1. CASE bit = 1
      <4>1. part = range - bound
        BY <3>1 DEF Part, bound
      <4>2. m * Half - x * Half = (x + r) * Half
        <5>1. (2 * x + r) * Half - x * Half = (x + r) * Half
          BY <1>1, <2>4
        <5> QED BY <2>4, <5>1
      <4> QED BY <1>3, <2>1, <2>4, <2>5, <3>1, <4>1, <4>2
    <3>2. CASE bit = 0
      <4>1. part = bound
        BY <3>2 DEF Part, bound
      <4> QED BY <1>3, <2>4, <2>5, <3>2, <4>1
    <3> QED BY <3>1, <3>2
  <2>7. CASE part < Top
    BY <1>4, <2>6, <2>7 DEF MarkerRange
  <2>8. CASE ~(part < Top)
    <3>1. (y * Half) * Pow2(k + 1) <= Word
      <4> DEFINE a == Pow2(k)
      <4>0. a \in Nat
        BY <2>2
      <4>1. CASE bit = 1 /\ r = 1
        <5>1. k \in 0..ByteBits /\ (m * Half) * Pow2(k) <= Word /\ m = 2 * x + 1
          BY <1>1, <2>1, <2>2, <2>3, <2>4, <4>1
        <5>2. ((x + 1) * Half) * Pow2(k + 1) <= Word
          BY <2>4, <5>1, OddRoom
        <5> QED BY <4>1, <5>2
      <4>2. CASE ~(bit = 1 /\ r = 1)
        <5>1. y = x
          BY <2>4, <4>2
        <5>2. (x * Half) * (2 * a) = (2 * x) * (Half * a) /\ (m * Half) * a = m * (Half * a)
              /\ Half * a \in Nat /\ (2 * x) * (Half * a) \in Nat
          <6> HIDE DEF a
          <6> QED BY <1>1, <2>4, <4>0
        <5>3. (2 * x) * (Half * a) <= m * (Half * a)
          <6> HIDE DEF a
          <6>1. 2 * x <= m /\ 2 * x \in Nat
            BY <2>4
          <6> QED BY <5>2, <6>1, ProductGrows
        <5>4. (m * Half) * a <= Word
          BY <2>1
        <5>5. (x * Half) * (2 * a) <= Word
          <6>1. m * (Half * a) \in Nat
            <7> HIDE DEF a
            <7> QED BY <1>1, <5>2
          <6> DEFINE u == m * (Half * a)
                     w == (2 * x) * (Half * a)
          <6>2. u \in Nat /\ w \in Nat /\ w <= u /\ u <= Word /\ (x * Half) * (2 * a) = w
            BY <5>2, <5>3, <5>4, <6>1
          <6> HIDE DEF u, w
          <6> QED BY <1>1, <6>2
        <5> QED BY <2>2, <5>1, <5>5
      <4> QED BY <4>1, <4>2
    <3>2. Early(part, k + 1)
      BY <2>6, <3>1 DEF Early
    <3>3. Shifted(part) = part /\ (i + 1) - 1 = k + 1
      BY <2>2, <2>8 DEF Shifted
    <3> HIDE DEF part
    <3> QED BY <3>2, <3>3 DEF MarkerRange, part
  <2> QED BY <2>7, <2>8
<1> QED BY <1>5, <1>6, <1>7 DEF MarkerRange

\* The bits without a context come behind the first shift.
LEMMA DirectExact ==
    ASSUME NEW range \in Top..(Word - 1), NEW i \in Nat, i > Zeros + SlotBits, MarkerRange(range, i)
    PROVE  range = 2 * Bound(range, Half)
<1>1. /\ ByteBits \in Nat \ {0} /\ LenBits \in Nat /\ SlotBits \in Nat /\ Zeros = 2 + LenBits
      /\ ByteBits < 2 + LenBits + SlotBits
      /\ Base \in Nat \ {0} /\ Top \in Nat \ {0} /\ Word \in Nat \ {0} /\ Word = Top * Base
      /\ range \in Nat /\ Top <= range
  BY Widths, WidthAssumption, SymbolAssumption, DirectAssumption DEF Zeros
<1>2. i - 1 \in Nat /\ i # 1 /\ ByteBits < i - 1
  BY <1>1
<1>3. ~Early(range, i - 1)
  <2> SUFFICES ASSUME Early(range, i - 1) PROVE FALSE
    OBVIOUS
  <2>1. range * Pow2(i - 1) <= Word
    BY DEF Early
  <2> DEFINE a == Pow2(i - 1)
  <2>2. 2 * Base <= a /\ a \in Nat
    <3>1. 2 * Pow2(ByteBits) <= Pow2(i - 1)
      BY <1>1, <1>2, PowerGrows
    <3> QED BY <1>2, <3>1, PowerOfMore DEF Base
  <2> HIDE DEF a
  <2>3. Top * (2 * Base) <= range * a /\ Top * (2 * Base) \in Nat /\ range * a \in Nat
    BY <1>1, <2>2, ProductGrows
  <2>4. Top * (2 * Base) = 2 * (Top * Base)
    BY <1>1
  <2> QED BY <1>1, <2>1, <2>3, <2>4 DEF a
<1>4. Even(range)
  BY <1>2, <1>3 DEF MarkerRange
<1> QED BY <1>4, EvenHalf

-----------------------------------------------------------------------------
(* The encoder between two bits *)

\* A text is a sequence of symbols.
LEMMA TextIs ==
    ASSUME NEW x \in Texts
    PROVE  x \in Seq(Literals) /\ Len(x) \in 0..MaxText /\ MaxText \in Nat
<1>1. PICK n \in 0..MaxText : x \in [1..n -> Literals]
  BY DEF Texts, Literals
<1>2. MaxText \in Nat /\ n \in Nat
  BY SymbolAssumption
<1>3. x \in Seq(Literals) /\ Len(x) = n
  BY <1>1, <1>2
<1> QED BY <1>2, <1>3

\* The byte before.
PrevOf(g) == IF g = <<>> THEN 0 ELSE g[Len(g)]

\* What the history notes of the encoder.
Turns == [pc : {"encode", "encode_literal", "encode_marker", "flush"}, at : 0..MarkerLen,
          got : Seq(Literals), byte : 1..(Pow2(LitBits) - 1), enc : EncoderState,
          probs : [Cells -> Usable]]

\* Where it can be, with a text and with or without a marker.
Stand(x, mk, t) ==
    /\ t \in Turns
    /\ t.enc.range \in Top..(Word - 1) /\ Fits(t.enc.low, t.enc.range, t.enc.cache)
    /\ Len(t.got) <= Len(x) /\ \A i \in 1..Len(t.got) : t.got[i] = x[i]
    /\ t.pc = "encode" => t.at = 0 /\ t.byte = 1 /\ (t.got = <<>> => t.probs = Fresh)
    /\ t.pc = "encode_literal" =>
          t.at = 0 /\ Len(t.got) < Len(x) /\ \E k \in 0..(LitBits - 1) : t.byte = FirstBits(x[Len(t.got) + 1], k)
    /\ t.pc = "encode_marker" =>
          mk /\ t.got = x /\ t.byte = 1 /\ t.at # 0 /\ MarkerRange(t.enc.range, t.at)
    /\ t.pc = "flush" => mk /\ t.got = x /\ t.byte = 1 /\ t.at = 0

\* From one bit to the next.
Codes(a, b, cell, bit) ==
    /\ b.enc = encode_bit(a.enc, a.probs[cell], bit)
    /\ b.probs = [a.probs EXCEPT ![cell] = Adapted(a.probs[cell], bit)]

\* The bit of a literal that is next.
LitBit(x, a) == (x[Len(a.got) + 1] \div Pow2(Rest(a.byte))) % 2

\* A literal has a bit more, or is complete.
GoesTo(a, b, bit) ==
    LET whole == 2 * a.byte + bit
    IN  IF whole >= Pow2(LitBits)
        THEN b.pc = "encode" /\ b.got = Append(a.got, whole - Pow2(LitBits)) /\ b.byte = 1
        ELSE b.pc = "encode_literal" /\ b.got = a.got /\ b.byte = whole

\* A literal is announced.
LinkIsMatch(x, a, b) ==
    /\ a.pc = "encode" /\ Len(a.got) < Len(x) /\ Codes(a, b, IsMatchCell(Len(a.got)), 0)
    /\ b.pc = "encode_literal" /\ b.byte = 1 /\ b.at = a.at /\ b.got = a.got

\* A bit of it is coded.
LinkLiteral(x, a, b) ==
    /\ a.pc = "encode_literal" /\ Codes(a, b, LiteralCell(PrevOf(a.got), a.byte), LitBit(x, a))
    /\ GoesTo(a, b, LitBit(x, a)) /\ b.at = a.at

\* The context a marker is announced in.
StartCell(x) == IsMatchCell(IF x = <<>> THEN 1 ELSE Len(x))

\* The marker is announced.
LinkStart(x, mk, a, b) ==
    /\ a.pc = "encode" /\ a.got = x /\ mk /\ Codes(a, b, StartCell(x), 1)
    /\ b.pc = "encode_marker" /\ b.at = 1 /\ b.got = a.got /\ b.byte = a.byte

\* A bit of it is coded.
LinkMarker(a, b) ==
    /\ a.pc = "encode_marker"
    /\ b.enc = encode_bit(a.enc, Half, MarkerBit(a.at)) /\ b.probs = a.probs
    /\ b.got = a.got /\ b.byte = a.byte
    /\ IF a.at = MarkerLen THEN b.pc = "flush" /\ b.at = 0
                           ELSE b.pc = "encode_marker" /\ b.at = a.at + 1

\* One of these.
Linked(x, mk, a, b) ==
    LinkIsMatch(x, a, b) \/ LinkLiteral(x, a, b) \/ LinkStart(x, mk, a, b) \/ LinkMarker(a, b)

\* There are bits in a marker.
LEMMA MarkerLenIs ==
    /\ MarkerLen \in Nat /\ MarkerLen >= 2
    /\ Zeros + SlotBits \in Nat /\ Zeros \in Nat /\ Zeros >= 2
  BY SymbolAssumption DEF MarkerLen, Zeros

\* There are at least two literals.
LEMMA LiteralsIs == Pow2(LitBits) \in Nat /\ Pow2(LitBits) >= 2 /\ 0 \in Literals
                    /\ Literals \subseteq Nat /\ 1 \in 1..(Pow2(LitBits) - 1)
<1>1. LitBits \in Nat /\ 0 < LitBits /\ 0 \in Nat
  BY SymbolAssumption
<1>2. 2 * Pow2(0) <= Pow2(LitBits) /\ Pow2(0) = 1 /\ Pow2(LitBits) \in Nat
  BY <1>1, PowerOfMore, PowerGrows
<1> QED BY <1>2 DEF Literals

\* The contexts of the encoder are cells.
LEMMA CellsIn ==
    /\ \A n \in Nat : IsMatchCell(n) \in Cells
    /\ \A p \in Literals, b \in 1..(Pow2(LitBits) - 1) : LiteralCell(p, b) \in Cells
<1>1. ASSUME NEW n \in Nat PROVE IsMatchCell(n) \in Cells
  <2>1. Pow2(Pb) \in Nat \ {0}
    BY SymbolAssumption, PowerOfMore
  <2>2. n % Pow2(Pb) \in 0..(Pow2(Pb) - 1)
    BY <2>1, Divided
  <2> QED BY <2>2 DEF IsMatchCell, Cells
<1>2. ASSUME NEW p \in Literals, NEW b \in 1..(Pow2(LitBits) - 1) PROVE LiteralCell(p, b) \in Cells
  <2>1. Lc \in Nat /\ LitBits - Lc \in Nat /\ (LitBits - Lc) + Lc = LitBits
    BY SymbolAssumption
  <2> DEFINE m == Pow2(LitBits - Lc)
             n == Pow2(Lc)
             q == p \div m
  <2>2. m \in Nat \ {0} /\ n \in Nat \ {0} /\ Pow2(LitBits) = m * n
    <3>1. Pow2((LitBits - Lc) + Lc) = Pow2(LitBits - Lc) * Pow2(Lc)
      BY <2>1, PowerOfSum
    <3> QED BY <2>1, <3>1, PowerOfMore
  <2>3. p \in Nat /\ p < m * n
    BY <2>2, LiteralsIs DEF Literals
  <2> HIDE DEF m, n
  <2>4. q \in Nat /\ p % m \in 0..(m - 1) /\ m * q \in Nat /\ p = m * q + (p % m)
    BY <2>2, <2>3, Divided
  <2> HIDE DEF q
  <2>5. q < n
    <3> SUFFICES ASSUME n <= q PROVE FALSE
      BY <2>2, <2>4
    <3>1. m * n <= m * q /\ m * n \in Nat
      BY <2>2, <2>4, ProductGrows
    <3> QED BY <2>2, <2>3, <2>4, <3>1
  <2>6. q \in 0..(n - 1)
    BY <2>2, <2>4, <2>5
  <2> QED BY <2>6 DEF LiteralCell, Cells, q, m, n
<1> QED BY <1>1, <1>2

\* Every link codes a bit, with a probability that is usable.
LEMMA LinkCodes ==
    ASSUME NEW x \in Texts, NEW mk \in BOOLEAN, NEW a, NEW b, Stand(x, mk, a), Linked(x, mk, a, b)
    PROVE  /\ \E prob \in Usable, bit \in {0, 1} : b.enc = encode_bit(a.enc, prob, bit)
           /\ LinkIsMatch(x, a, b) => a.probs[IsMatchCell(Len(a.got))] \in Usable /\ IsMatchCell(Len(a.got)) \in Cells
           /\ LinkLiteral(x, a, b) =>
                 /\ a.probs[LiteralCell(PrevOf(a.got), a.byte)] \in Usable
                 /\ LiteralCell(PrevOf(a.got), a.byte) \in Cells
                 /\ PrevOf(a.got) \in Literals
                 /\ LitBit(x, a) \in {0, 1}
           /\ LinkStart(x, mk, a, b) => a.probs[StartCell(x)] \in Usable /\ StartCell(x) \in Cells
           /\ LinkMarker(a, b) => MarkerBit(a.at) \in {0, 1}
<1>1. x \in Seq(Literals) /\ Len(x) \in Nat
  BY TextIs
<1>2. /\ a \in Turns /\ a.probs \in [Cells -> Usable] /\ a.got \in Seq(Literals) /\ Len(a.got) \in Nat
      /\ a.byte \in 1..(Pow2(LitBits) - 1)
  <2>1. a \in Turns
    BY DEF Stand
  <2> QED BY <2>1 DEF Turns
<1>3. PrevOf(a.got) \in Literals
  BY <1>2, LiteralsIs DEF PrevOf
<1>4. IsMatchCell(Len(a.got)) \in Cells /\ LiteralCell(PrevOf(a.got), a.byte) \in Cells
  BY <1>2, <1>3, CellsIn
<1>5. StartCell(x) \in Cells
  <2>1. (IF x = <<>> THEN 1 ELSE Len(x)) \in Nat
    BY <1>1
  <2> QED BY <2>1, CellsIn DEF StartCell
<1>6. \A c \in Cells : a.probs[c] \in Usable
  BY <1>2
<1>7. LinkLiteral(x, a, b) => LitBit(x, a) \in {0, 1}
  <2> SUFFICES ASSUME LinkLiteral(x, a, b) PROVE LitBit(x, a) \in {0, 1}
    OBVIOUS
  <2>1. Len(a.got) < Len(x) /\ \E k \in 0..(LitBits - 1) : a.byte = FirstBits(x[Len(a.got) + 1], k)
    BY DEF LinkLiteral, Stand
  <2>2. PICK k \in 0..(LitBits - 1) : a.byte = FirstBits(x[Len(a.got) + 1], k)
    BY <2>1
  <2>3. x[Len(a.got) + 1] \in Literals
    BY <1>1, <1>2, <2>1
  <2> QED BY <2>2, <2>3, NextBit DEF LitBit
<1>8. MarkerBit(a.at) \in {0, 1}
  BY DEF MarkerBit
<1>9. Half \in Usable
  BY Probabilities
<1>10. \E prob \in Usable, bit \in {0, 1} : b.enc = encode_bit(a.enc, prob, bit)
  <2>1. CASE LinkIsMatch(x, a, b)
    <3>1. b.enc = encode_bit(a.enc, a.probs[IsMatchCell(Len(a.got))], 0)
      BY <2>1 DEF LinkIsMatch, Codes
    <3> QED BY <1>4, <1>6, <3>1
  <2>2. CASE LinkLiteral(x, a, b)
    <3>1. b.enc = encode_bit(a.enc, a.probs[LiteralCell(PrevOf(a.got), a.byte)], LitBit(x, a))
      BY <2>2 DEF LinkLiteral, Codes
    <3> QED BY <1>4, <1>6, <1>7, <2>2, <3>1
  <2>3. CASE LinkStart(x, mk, a, b)
    <3>1. b.enc = encode_bit(a.enc, a.probs[StartCell(x)], 1)
      BY <2>3 DEF LinkStart, Codes
    <3> QED BY <1>5, <1>6, <3>1
  <2>4. CASE LinkMarker(a, b)
    <3>1. b.enc = encode_bit(a.enc, Half, MarkerBit(a.at))
      BY <2>4 DEF LinkMarker
    <3> QED BY <1>8, <1>9, <3>1
  <2> QED BY <2>1, <2>2, <2>3, <2>4 DEF Linked
<1> QED BY <1>3, <1>4, <1>5, <1>6, <1>7, <1>8, <1>10

\* The encoder stays where it can be.
LEMMA StandLinked ==
    ASSUME NEW x \in Texts, NEW mk \in BOOLEAN, NEW a, NEW b, Stand(x, mk, a), Linked(x, mk, a, b),
           b = [pc |-> b.pc, at |-> b.at, got |-> b.got, byte |-> b.byte, enc |-> b.enc, probs |-> b.probs]
    PROVE  Stand(x, mk, b)
<1>1. x \in Seq(Literals) /\ Len(x) \in Nat
  BY TextIs
<1>2. a \in Turns /\ a.enc.range \in Top..(Word - 1) /\ Fits(a.enc.low, a.enc.range, a.enc.cache)
      /\ Len(a.got) <= Len(x) /\ \A i \in 1..Len(a.got) : a.got[i] = x[i]
  BY DEF Stand
<1>3. /\ a.probs \in [Cells -> Usable] /\ a.got \in Seq(Literals) /\ Len(a.got) \in Nat
      /\ a.byte \in 1..(Pow2(LitBits) - 1) /\ a.enc \in EncoderState /\ a.at \in 0..MarkerLen
  BY <1>2 DEF Turns
<1>4. PICK prob \in Usable, bit \in {0, 1} : b.enc = encode_bit(a.enc, prob, bit)
  BY LinkCodes
<1>5. b.enc \in EncoderState /\ b.enc.range \in Top..(Word - 1) /\ Fits(b.enc.low, b.enc.range, b.enc.cache)
  BY <1>2, <1>3, <1>4, EncodeBitIs
<1>6. ASSUME NEW cell \in Cells, NEW c \in {0, 1}, Codes(a, b, cell, c)
      PROVE  b.probs \in [Cells -> Usable]
  <2>1. a.probs[cell] \in Usable
    BY <1>3
  <2>2. Adapted(a.probs[cell], c) \in Usable
    BY <2>1, AdaptedUsable
  <2> QED BY <1>3, <1>6, <2>2 DEF Codes
<1>7. MarkerLen \in Nat /\ MarkerLen >= 2 /\ 0 \in 0..MarkerLen /\ 1 \in 0..MarkerLen
  BY MarkerLenIs
<1>8. 1 \in 1..(Pow2(LitBits) - 1)
  BY LiteralsIs
<1>9. ASSUME b.probs \in [Cells -> Usable], b.pc \in {"encode", "encode_literal", "encode_marker", "flush"},
             b.at \in 0..MarkerLen, b.got \in Seq(Literals), b.byte \in 1..(Pow2(LitBits) - 1)
      PROVE  b \in Turns
  BY <1>5, <1>9 DEF Turns
<1>10. CASE LinkIsMatch(x, a, b)
  <2>1. /\ a.pc = "encode" /\ Len(a.got) < Len(x) /\ Codes(a, b, IsMatchCell(Len(a.got)), 0)
        /\ b.pc = "encode_literal" /\ b.byte = 1 /\ b.at = a.at /\ b.got = a.got
    BY <1>10 DEF LinkIsMatch
  <2>2. a.at = 0
    BY <2>1 DEF Stand
  <2>3. b.probs \in [Cells -> Usable]
    BY <1>6, <1>10, <2>1, LinkCodes
  <2>4. b \in Turns
    BY <1>3, <1>7, <1>8, <1>9, <2>1, <2>2, <2>3
  <2>5. x[Len(b.got) + 1] \in Literals
    BY <1>1, <1>3, <2>1
  <2>6. 0 \in 0..(LitBits - 1) /\ b.byte = FirstBits(x[Len(b.got) + 1], 0)
    BY <2>1, <2>5, NoBits
  <2> QED BY <1>2, <1>5, <2>1, <2>2, <2>4, <2>6 DEF Stand
<1>11. CASE LinkLiteral(x, a, b)
  <2> DEFINE t == x[Len(a.got) + 1]
             whole == 2 * a.byte + LitBit(x, a)
  <2>1. /\ a.pc = "encode_literal" /\ Codes(a, b, LiteralCell(PrevOf(a.got), a.byte), LitBit(x, a))
        /\ GoesTo(a, b, LitBit(x, a)) /\ b.at = a.at
    BY <1>11 DEF LinkLiteral
  <2>2. a.at = 0 /\ Len(a.got) < Len(x) /\ \E k \in 0..(LitBits - 1) : a.byte = FirstBits(t, k)
    BY <2>1 DEF Stand
  <2>3. PICK k \in 0..(LitBits - 1) : a.byte = FirstBits(t, k)
    BY <2>2
  <2>4. t \in Literals
    BY <1>1, <1>3, <2>2
  <2>5. b.probs \in [Cells -> Usable]
    BY <1>6, <1>11, <2>1, LinkCodes
  <2>6. /\ k < LitBits - 1 => whole < Pow2(LitBits) /\ whole = FirstBits(t, k + 1)
        /\ k = LitBits - 1 => whole = Pow2(LitBits) + t
    BY <2>3, <2>4, NextBit DEF LitBit
  <2> HIDE DEF whole, t
  <2>7. LitBits \in Nat \ {0} /\ k \in Nat /\ Pow2(LitBits) \in Nat /\ t \in Nat
    <3>1. LitBits \in Nat \ {0}
      BY SymbolAssumption
    <3> QED BY <2>4, <3>1, LiteralsIs
  <2>8. CASE k < LitBits - 1
    <3>1. k + 1 \in 0..(LitBits - 1)
      BY <2>7, <2>8
    <3>2. FirstBits(t, k + 1) \in 1..(Pow2(LitBits) - 1)
      BY <2>4, <3>1, NextBit
    <3>3. ~(whole >= Pow2(LitBits))
      BY <2>6, <2>7, <2>8, <3>2
    <3>4. b.pc = "encode_literal" /\ b.got = a.got /\ b.byte = whole
      BY <2>1, <3>3 DEF GoesTo, whole
    <3>5. b \in Turns
      BY <1>3, <1>7, <1>9, <2>1, <2>2, <2>5, <2>6, <2>8, <3>2, <3>4
    <3>6. b.byte = FirstBits(x[Len(b.got) + 1], k + 1)
      BY <2>6, <2>8, <3>4 DEF t
    <3> QED BY <1>2, <1>5, <2>1, <2>2, <3>1, <3>4, <3>5, <3>6 DEF Stand
  <2>9. CASE k = LitBits - 1
    <3>1. whole >= Pow2(LitBits) /\ whole - Pow2(LitBits) = t
      BY <2>6, <2>7, <2>9
    <3>2. b.pc = "encode" /\ b.got = Append(a.got, t) /\ b.byte = 1
      BY <2>1, <3>1 DEF GoesTo, whole
    <3>3. /\ b.got \in Seq(Literals) /\ Len(b.got) = Len(a.got) + 1 /\ b.got[Len(a.got) + 1] = t
          /\ \A i \in 1..Len(a.got) : b.got[i] = a.got[i]
      BY <1>3, <2>4, <3>2
    <3>4. b \in Turns
      BY <1>7, <1>8, <1>9, <2>1, <2>2, <2>5, <3>2, <3>3
    <3>5. \A i \in 1..Len(b.got) : b.got[i] = x[i]
      <4> TAKE i \in 1..Len(b.got)
      <4>1. i \in 1..Len(a.got) \/ i = Len(a.got) + 1
        BY <1>3, <3>3
      <4> QED BY <1>2, <3>3, <4>1 DEF t
    <3>6. Len(b.got) <= Len(x) /\ b.got # <<>>
      <4>1. Len(b.got) # 0
        BY <1>3, <3>3
      <4> QED BY <1>1, <1>3, <2>2, <3>3, <4>1
    <3> QED BY <1>5, <2>1, <2>2, <3>2, <3>4, <3>5, <3>6 DEF Stand
  <2> QED BY <2>7, <2>8, <2>9
<1>12. CASE LinkStart(x, mk, a, b)
  <2>1. /\ a.pc = "encode" /\ a.got = x /\ mk /\ Codes(a, b, StartCell(x), 1)
        /\ b.pc = "encode_marker" /\ b.at = 1 /\ b.got = a.got /\ b.byte = a.byte
    BY <1>12 DEF LinkStart
  <2>2. a.byte = 1
    BY <2>1 DEF Stand
  <2>3. b.probs \in [Cells -> Usable]
    BY <1>6, <1>12, <2>1, LinkCodes
  <2>4. b \in Turns
    BY <1>3, <1>7, <1>9, <2>1, <2>3
  <2>5. MarkerRange(b.enc.range, b.at)
    BY <2>1 DEF MarkerRange
  <2> QED BY <1>2, <1>5, <2>1, <2>2, <2>4, <2>5 DEF Stand
<1>13. CASE LinkMarker(a, b)
  <2>1. /\ a.pc = "encode_marker"
        /\ b.enc = encode_bit(a.enc, Half, MarkerBit(a.at)) /\ b.probs = a.probs
        /\ b.got = a.got /\ b.byte = a.byte
        /\ IF a.at = MarkerLen THEN b.pc = "flush" /\ b.at = 0
                               ELSE b.pc = "encode_marker" /\ b.at = a.at + 1
    BY <1>13 DEF LinkMarker
  <2>2. mk /\ a.got = x /\ a.byte = 1 /\ a.at # 0 /\ MarkerRange(a.enc.range, a.at)
    BY <2>1 DEF Stand
  <2>3. b \in Turns
    <3>1. b.pc \in {"encode_marker", "flush"} /\ b.at \in 0..MarkerLen
      BY <1>3, <1>7, <2>1
    <3> QED BY <1>3, <1>9, <2>1, <3>1
  <2>4. MarkerRange(b.enc.range, a.at + 1)
    <3>1. MarkerBit(a.at) \in {0, 1} /\ (a.at = 1 => MarkerBit(a.at) = 0)
      BY <1>7, MarkerLenIs DEF MarkerBit
    <3>2. a.at \in Nat \ {0}
      BY <1>3, <1>7, <2>2
    <3>3. MarkerRange(Shifted(Part(a.enc.range, Half, MarkerBit(a.at))), a.at + 1)
      BY <1>2, <2>2, <3>1, <3>2, MarkerRangeStep
    <3>4. b.enc.range = Shifted(Part(a.enc.range, Half, MarkerBit(a.at)))
      <4> DEFINE part == Part(a.enc.range, Half, MarkerBit(a.at))
      <4>1. Half \in Usable
        BY Probabilities
      <4>2. /\ part < Top => b.enc.range = part * Base
            /\ part >= Top => b.enc.range = part
        <5>1. /\ part < Top => encode_bit(a.enc, Half, MarkerBit(a.at)).range = part * Base
              /\ part >= Top => encode_bit(a.enc, Half, MarkerBit(a.at)).range = part
          BY <1>2, <1>3, <3>1, <4>1, EncodeBitIs
        <5> HIDE DEF part
        <5> QED BY <2>1, <5>1
      <4>3. part \in Nat /\ Top \in Nat
        BY <1>2, <3>1, <4>1, PartIs, Widths
      <4> HIDE DEF part
      <4> QED BY <4>2, <4>3 DEF Shifted, part
    <3> QED BY <3>3, <3>4
  <2>5. CASE a.at = MarkerLen
    <3>1. b.pc = "flush" /\ b.at = 0
      BY <2>1, <2>5
    <3> QED BY <1>2, <1>5, <2>1, <2>2, <2>3, <3>1 DEF Stand
  <2>6. CASE a.at # MarkerLen
    <3>1. b.pc = "encode_marker" /\ b.at = a.at + 1
      BY <2>1, <2>6
    <3>2. b.at # 0
      BY <1>3, <1>7, <3>1
    <3> QED BY <1>2, <1>5, <2>1, <2>2, <2>3, <2>4, <3>1, <3>2 DEF Stand
  <2> QED BY <2>5, <2>6
<1> QED BY <1>10, <1>11, <1>12, <1>13 DEF Linked

-----------------------------------------------------------------------------
(* What the encoder has gone through *)

\* Before the first bit.
First == [pc |-> "encode", at |-> 0, got |-> <<>>, byte |-> 1, enc |-> NewEncoder, probs |-> Fresh]

\* One turn after the other.
Trail(x, mk, t) ==
    /\ t \in Seq(Turns) /\ t # <<>> /\ t[1] = First
    /\ \A i \in 1..Len(t) : Stand(x, mk, t[i])
    /\ \A i \in 1..(Len(t) - 1) : Linked(x, mk, t[i], t[i + 1])

\* The last bit has been coded.
AtEnd(x, mk, a) == a.pc = "flush" \/ (a.pc = "encode" /\ a.got = x /\ ~mk)

\* And the bytes are s.
Written(x, mk, t, s) ==
    /\ Trail(x, mk, t) /\ AtEnd(x, mk, t[Len(t)])
    /\ s = Flushed(t[Len(t)].enc).out

\* The first turn is one.
LEMMA FirstStands ==
    ASSUME NEW x \in Texts, NEW mk \in BOOLEAN
    PROVE  First \in Turns /\ Stand(x, mk, First) /\ Trail(x, mk, <<First>>)
<1>1. Fresh \in [Cells -> Usable]
  BY Probabilities DEF Fresh
<1>2. First \in Turns
  BY <1>1, NewEncoderIs, MarkerLenIs, LiteralsIs DEF First, Turns
<1>3. x \in Seq(Literals) /\ Len(x) \in Nat
  BY TextIs
<1>4. Stand(x, mk, First)
  BY <1>2, <1>3, NewEncoderIs DEF Stand, First
<1>5. <<First>> \in Seq(Turns) /\ Len(<<First>>) = 1 /\ <<First>>[1] = First /\ <<First>> # <<>>
  BY <1>2
<1> HIDE DEF First
<1> QED BY <1>2, <1>4, <1>5 DEF Trail

\* One more.
LEMMA TrailGrows ==
    ASSUME NEW x \in Texts, NEW mk \in BOOLEAN, NEW t, Trail(x, mk, t), NEW b,
           b = [pc |-> b.pc, at |-> b.at, got |-> b.got, byte |-> b.byte, enc |-> b.enc, probs |-> b.probs],
           Linked(x, mk, t[Len(t)], b)
    PROVE  Trail(x, mk, Append(t, b))
<1>1. t \in Seq(Turns) /\ Len(t) \in Nat \ {0} /\ t[1] = First
  BY DEF Trail
<1>2. \A i \in 1..Len(t) : Stand(x, mk, t[i])
  BY DEF Trail
<1>3. \A i \in 1..(Len(t) - 1) : Linked(x, mk, t[i], t[i + 1])
  BY DEF Trail
<1>4. Stand(x, mk, t[Len(t)])
  BY <1>1, <1>2
<1>5. Stand(x, mk, b)
  BY <1>4, StandLinked
<1>6. b \in Turns
  BY <1>5 DEF Stand
<1> DEFINE u == Append(t, b)
<1>7. /\ u \in Seq(Turns) /\ Len(u) = Len(t) + 1 /\ u # <<>> /\ u[Len(t) + 1] = b
      /\ \A i \in 1..Len(t) : u[i] = t[i]
  BY <1>1, <1>6
<1> HIDE DEF u
<1>8. \A i \in 1..Len(u) : Stand(x, mk, u[i])
  <2> TAKE i \in 1..Len(u)
  <2>1. i \in 1..Len(t) \/ i = Len(t) + 1
    BY <1>1, <1>7
  <2> QED BY <1>2, <1>5, <1>7, <2>1
<1>9. \A i \in 1..(Len(u) - 1) : Linked(x, mk, u[i], u[i + 1])
  <2> TAKE i \in 1..(Len(u) - 1)
  <2>1. CASE i \in 1..(Len(t) - 1)
    <3>1. u[i] = t[i] /\ u[i + 1] = t[i + 1]
      BY <1>1, <1>7, <2>1
    <3> QED BY <1>3, <2>1, <3>1
  <2>2. CASE i = Len(t)
    <3>1. u[i] = t[i] /\ u[i + 1] = b
      BY <1>1, <1>7, <2>2
    <3> QED BY <2>2, <3>1
  <2> QED BY <1>1, <1>7, <2>1, <2>2
<1>10. u[1] = First
  BY <1>1, <1>7
<1> QED BY <1>7, <1>8, <1>9, <1>10 DEF Trail, u

\* A turn on the way.
LEMMA TurnIs ==
    ASSUME NEW x \in Texts, NEW mk \in BOOLEAN, NEW a, Stand(x, mk, a)
    PROVE  /\ a.enc \in EncoderState /\ a.enc.range \in Top..(Word - 1)
           /\ Fits(a.enc.low, a.enc.range, a.enc.cache) /\ CanCarry(a.enc)
           /\ Position(a.enc) \in Nat
           /\ a.got \in Seq(Literals) /\ Len(a.got) \in Nat
           /\ a.probs \in [Cells -> Usable] /\ a.byte \in 1..(Pow2(LitBits) - 1) /\ a.at \in 0..MarkerLen
           /\ a.pc \in {"encode", "encode_literal", "encode_marker", "flush"}
<1>1. a \in Turns /\ a.enc.range \in Top..(Word - 1) /\ Fits(a.enc.low, a.enc.range, a.enc.cache)
  BY DEF Stand
<1>2. /\ a.enc \in EncoderState /\ a.got \in Seq(Literals) /\ Len(a.got) \in Nat
      /\ a.probs \in [Cells -> Usable] /\ a.byte \in 1..(Pow2(LitBits) - 1) /\ a.at \in 0..MarkerLen
      /\ a.pc \in {"encode", "encode_literal", "encode_marker", "flush"}
  BY <1>1 DEF Turns
<1>3. a.enc.range # 0
  BY <1>1, Widths
<1>4. CanCarry(a.enc)
  BY <1>1, <1>2, <1>3, FitsCarry
<1>5. Position(a.enc) \in Nat
  BY <1>2, PlaceNat
<1> QED BY <1>1, <1>2, <1>4, <1>5

\* The value of the bytes lies, at every turn, where the encoder said it would.
LEMMA WrittenCodes ==
    ASSUME NEW x \in Texts, NEW mk \in BOOLEAN, NEW t, NEW s, Written(x, mk, t, s)
    PROVE  /\ s \in Seq(Bytes) /\ Len(t) \in Nat \ {0}
           /\ Position(t[Len(t)].enc) = Len(s) /\ Code(t[Len(t)].enc, s) = 0
           /\ \A i \in 1..Len(t) : Inside(t[i].enc, s) /\ Position(t[i].enc) <= Len(s)
<1>1. t \in Seq(Turns) /\ Len(t) \in Nat \ {0}
  BY DEF Written, Trail
<1>2. \A i \in 1..Len(t) : Stand(x, mk, t[i])
  BY DEF Written, Trail
<1>3. \A i \in 1..(Len(t) - 1) : Linked(x, mk, t[i], t[i + 1])
  BY DEF Written, Trail
<1> DEFINE e == t[Len(t)].enc
<1>4. Stand(x, mk, t[Len(t)])
  BY <1>1, <1>2
<1>5. e \in EncoderState /\ CanCarry(e) /\ e.range \in Top..(Word - 1) /\ Position(e) \in Nat
  BY <1>4, TurnIs
<1>6. /\ Flushed(e) \in EncoderState /\ Len(Flushed(e).out) = Position(e)
      /\ Value(Flushed(e).out, Position(e)) = Place(e)
  BY <1>5, FlushedIs
<1>7. s = Flushed(e).out
  BY DEF Written
<1>8. s \in Seq(Bytes)
  BY <1>6, <1>7 DEF EncoderState, Bytes
<1>9. Position(e) = Len(s) /\ Code(e, s) = 0
  <2>1. Place(e) \in Nat
    BY <1>5, PlaceNat
  <2>2. Value(s, Position(e)) = Place(e)
    BY <1>6, <1>7
  <2> HIDE DEF e
  <2> QED BY <1>6, <1>7, <2>1, <2>2 DEF Code
<1>10. Inside(e, s) /\ Position(e) <= Len(s)
  <2>1. e.range \in Nat /\ 0 <= e.range - 1
    BY <1>5, Widths
  <2> HIDE DEF e
  <2> QED BY <1>5, <1>9, <2>1 DEF Inside
<1> DEFINE m == Len(t) - 1
           P == {j \in 0..m : Inside(t[Len(t) - j].enc, s) /\ Position(t[Len(t) - j].enc) <= Len(s)}
<1>11. m \in Nat
  BY <1>1
<1>12. 0 \in P
  BY <1>1, <1>10, <1>11
<1>13. ASSUME NEW j \in 1..m, j - 1 \in P PROVE j \in P
  <2> DEFINE i == Len(t) - j
  <2>1. i \in 1..(Len(t) - 1) /\ i \in 1..Len(t) /\ Len(t) - (j - 1) = i + 1 /\ j \in 0..m
    BY <1>1
  <2>2. Inside(t[i + 1].enc, s) /\ Position(t[i + 1].enc) <= Len(s)
    BY <1>13, <2>1
  <2> HIDE DEF i
  <2>3. Stand(x, mk, t[i]) /\ Linked(x, mk, t[i], t[i + 1])
    BY <1>2, <1>3, <2>1
  <2>4. PICK prob \in Usable, bit \in {0, 1} : t[i + 1].enc = encode_bit(t[i].enc, prob, bit)
    BY <2>3, LinkCodes
  <2>5. t[i].enc \in EncoderState /\ t[i].enc.range \in Top..(Word - 1)
        /\ Fits(t[i].enc.low, t[i].enc.range, t[i].enc.cache) /\ Position(t[i].enc) \in Nat
    BY <2>3, TurnIs
  <2>6. Inside(t[i].enc, s)
    BY <1>8, <2>2, <2>4, <2>5, CodeStep
  <2>7. Position(t[i + 1].enc) \in {Position(t[i].enc), Position(t[i].enc) + 1}
    <3>1. /\ Part(t[i].enc.range, prob, bit) < Top =>
               Position(encode_bit(t[i].enc, prob, bit)) = Position(t[i].enc) + 1
          /\ Part(t[i].enc.range, prob, bit) >= Top =>
               Position(encode_bit(t[i].enc, prob, bit)) = Position(t[i].enc)
      BY <2>5, EncodeBitIs
    <3>2. Part(t[i].enc.range, prob, bit) \in Nat /\ Top \in Nat
      BY <2>5, PartIs, Widths
    <3>3. Part(t[i].enc.range, prob, bit) < Top \/ Part(t[i].enc.range, prob, bit) >= Top
      BY <3>2
    <3> QED BY <2>4, <3>1, <3>3
  <2>8. Position(t[i].enc) <= Len(s)
    <3>1. Len(s) \in Nat
      BY <1>8
    <3> QED BY <2>2, <2>5, <2>7, <3>1
  <2> QED BY <2>1, <2>6, <2>8 DEF i
<1> HIDE DEF P
<1>14. 0..m \subseteq P
  BY <1>11, <1>12, <1>13, InductionUpTo
<1>15. ASSUME NEW i \in 1..Len(t) PROVE Inside(t[i].enc, s) /\ Position(t[i].enc) <= Len(s)
  <2>1. Len(t) - i \in 0..m /\ Len(t) - (Len(t) - i) = i
    BY <1>1
  <2>2. Len(t) - i \in P
    BY <1>14, <2>1
  <2> QED BY <2>1, <2>2 DEF P
<1> QED BY <1>1, <1>8, <1>9, <1>15

-----------------------------------------------------------------------------
(* The end of the input before the end of the text *)

\* Where the code is 0 and the input at its end, no bit but 0 can follow.
LEMMA ZeroCode ==
    ASSUME NEW e \in EncoderState, e.range \in Top..(Word - 1), Fits(e.low, e.range, e.cache),
           NEW prob \in Usable, NEW bit \in {0, 1}, NEW s \in Seq(Bytes),
           Inside(encode_bit(e, prob, bit), s), Position(encode_bit(e, prob, bit)) <= Len(s),
           Code(e, s) = 0, Position(e) = Len(s)
    PROVE  /\ bit = 0 /\ Code(encode_bit(e, prob, bit), s) = 0
           /\ Position(encode_bit(e, prob, bit)) = Len(s)
<1> DEFINE f == encode_bit(e, prob, bit)
           part == Part(e.range, prob, bit)
           offset == Offset(e.range, prob, bit)
<1>1. offset <= 0 /\ (part >= Top => Code(f, s) = 0 - offset)
  BY CodeStep
<1>2. /\ part < Top => Position(f) = Position(e) + 1
      /\ part >= Top => Position(f) = Position(e)
  <2>1. /\ Part(e.range, prob, bit) < Top =>
             Position(encode_bit(e, prob, bit)) = Position(e) + 1
        /\ Part(e.range, prob, bit) >= Top =>
             Position(encode_bit(e, prob, bit)) = Position(e)
    BY EncodeBitIs
  <2> QED BY <2>1
<1>3. offset \in Nat /\ part \in Nat /\ Top \in Nat /\ Len(s) \in Nat
  <2>1. Offset(e.range, prob, bit) \in Nat /\ Part(e.range, prob, bit) \in Nat \ {0}
    BY PartIs
  <2>2. Len(s) \in Nat
    OBVIOUS
  <2> QED BY <2>1, <2>2, Widths
<1>4. bit = 0
  <2> SUFFICES ASSUME bit = 1 PROVE FALSE
    OBVIOUS
  <2>1. Bound(e.range, prob) \in 1..(e.range - 1)
    BY Parts
  <2>2. offset = Bound(e.range, prob)
    BY DEF Offset
  <2>3. offset <= 0
    BY <1>1
  <2>4. Bound(e.range, prob) >= 1 /\ Bound(e.range, prob) \in Nat
    BY <2>1
  <2> HIDE DEF offset
  <2>5. ~(offset <= 0)
    BY <2>2, <2>4
  <2> QED BY <2>3, <2>5
<1>5. Position(f) <= Len(s)
  OBVIOUS
<1> HIDE DEF f, part, offset
<1>6. part >= Top
  BY <1>2, <1>3, <1>5
<1>7. Code(f, s) = 0 /\ Position(f) = Len(s)
  BY <1>1, <1>2, <1>3, <1>6
<1> QED BY <1>4, <1>7 DEF f

\* The encoder is where nothing but zeros has come since k bytes.
Quiet(x, k, a, s) ==
    /\ Code(a.enc, s) = 0 /\ Position(a.enc) = Len(s) /\ a.pc \in {"encode", "encode_literal"}
    /\ k <= Len(a.got) /\ \A i \in (k + 1)..Len(a.got) : x[i] = 0
    /\ a.pc = "encode_literal" => \E h \in 0..(LitBits - 1) : a.byte = Pow2(h)

\* Then the next turn codes a zero and the code stays 0.
LEMMA QuietStep ==
    ASSUME NEW x \in Texts, NEW mk \in BOOLEAN, NEW a, NEW b, NEW s \in Seq(Bytes), NEW k \in Nat,
           Stand(x, mk, a), Stand(x, mk, b), Linked(x, mk, a, b),
           Inside(b.enc, s), Position(b.enc) <= Len(s), Quiet(x, k, a, s)
    PROVE  Quiet(x, k, b, s)
<1>1. /\ a.enc \in EncoderState /\ a.enc.range \in Top..(Word - 1) /\ Fits(a.enc.low, a.enc.range, a.enc.cache)
      /\ a.got \in Seq(Literals) /\ Len(a.got) \in Nat
  BY TurnIs
<1>2. Code(a.enc, s) = 0 /\ Position(a.enc) = Len(s)
  BY DEF Quiet
<1>3. ASSUME NEW prob \in Usable, NEW bit \in {0, 1}, b.enc = encode_bit(a.enc, prob, bit)
      PROVE  bit = 0 /\ Code(b.enc, s) = 0 /\ Position(b.enc) = Len(s)
  BY <1>1, <1>2, <1>3, ZeroCode
<1>4. CASE LinkIsMatch(x, a, b)
  <2>1. a.probs[IsMatchCell(Len(a.got))] \in Usable
    BY <1>4, LinkCodes
  <2>2. /\ b.enc = encode_bit(a.enc, a.probs[IsMatchCell(Len(a.got))], 0)
        /\ b.pc = "encode_literal" /\ b.byte = 1 /\ b.got = a.got
    BY <1>4 DEF LinkIsMatch, Codes
  <2>3. Code(b.enc, s) = 0 /\ Position(b.enc) = Len(s)
    BY <1>3, <2>1, <2>2
  <2>4. 0 \in 0..(LitBits - 1) /\ b.byte = Pow2(0)
    BY <2>2, LiteralsIs, NoBits, PowerOfMore
  <2> QED BY <2>2, <2>3, <2>4 DEF Quiet
<1>5. CASE LinkLiteral(x, a, b)
  <2> DEFINE p == a.probs[LiteralCell(PrevOf(a.got), a.byte)]
             bit == LitBit(x, a)
  <2>1. p \in Usable /\ bit \in {0, 1}
    BY <1>5, LinkCodes
  <2>2. a.pc = "encode_literal" /\ b.enc = encode_bit(a.enc, p, bit) /\ GoesTo(a, b, bit)
    BY <1>5 DEF LinkLiteral, Codes
  <2> HIDE DEF p, bit
  <2>3. bit = 0 /\ Code(b.enc, s) = 0 /\ Position(b.enc) = Len(s)
    BY <1>3, <2>1, <2>2
  <2>4. PICK h \in 0..(LitBits - 1) : a.byte = Pow2(h)
    BY <2>2 DEF Quiet
  <2>5. LitBits \in Nat \ {0} /\ h \in Nat /\ Pow2(LitBits) \in Nat /\ Pow2(h) \in Nat
    <3>1. LitBits \in Nat \ {0} /\ h \in Nat
      BY SymbolAssumption
    <3> QED BY <3>1, PowerOfMore
  <2>6. k <= Len(a.got) /\ \A i \in (k + 1)..Len(a.got) : x[i] = 0
    BY DEF Quiet
  <2>7. CASE h < LitBits - 1
    <3>1. 2 * Pow2(h) = Pow2(h + 1) /\ 2 * Pow2(h) < Pow2(LitBits) /\ h + 1 \in 0..(LitBits - 1)
      BY <2>5, <2>7, ZeroBits
    <3>2. b.pc = "encode_literal" /\ b.got = a.got /\ b.byte = Pow2(h + 1)
      <4>1. ~(2 * a.byte + bit >= Pow2(LitBits)) /\ 2 * a.byte + bit = Pow2(h + 1)
        BY <2>3, <2>4, <2>5, <3>1
      <4> QED BY <2>2, <4>1 DEF GoesTo
    <3> QED BY <2>3, <2>6, <3>1, <3>2 DEF Quiet
  <2>8. CASE h = LitBits - 1
    <3>1. 2 * Pow2(h) = Pow2(LitBits)
      BY <2>8, ZeroBits
    <3>2. 2 * a.byte + bit >= Pow2(LitBits) /\ (2 * a.byte + bit) - Pow2(LitBits) = 0
      BY <2>3, <2>4, <2>5, <3>1
    <3>3. b.pc = "encode" /\ b.got = Append(a.got, 0)
      BY <2>2, <3>2 DEF GoesTo
    <3>4. Len(b.got) = Len(a.got) + 1 /\ b.got[Len(a.got) + 1] = 0
      BY <1>1, <3>3
    <3>5. \A i \in 1..Len(b.got) : b.got[i] = x[i]
      BY DEF Stand
    <3>6. x[Len(a.got) + 1] = 0
      BY <1>1, <3>4, <3>5
    <3>7. \A i \in (k + 1)..Len(b.got) : x[i] = 0
      <4> TAKE i \in (k + 1)..Len(b.got)
      <4>1. i \in (k + 1)..Len(a.got) \/ i = Len(a.got) + 1
        BY <1>1, <3>4
      <4> QED BY <2>6, <3>6, <4>1
    <3>8. k <= Len(b.got)
      BY <1>1, <2>6, <3>4
    <3> QED BY <2>3, <3>3, <3>7, <3>8 DEF Quiet
  <2> QED BY <2>5, <2>7, <2>8
<1>6. CASE LinkStart(x, mk, a, b)
  <2>1. a.probs[StartCell(x)] \in Usable /\ b.enc = encode_bit(a.enc, a.probs[StartCell(x)], 1)
    <3>1. a.probs[StartCell(x)] \in Usable
      BY <1>6, LinkCodes
    <3> QED BY <1>6, <3>1 DEF LinkStart, Codes
  <2>2. 1 = 0
    BY <1>3, <2>1
  <2> QED BY <2>2
<1>7. CASE LinkMarker(a, b)
  BY <1>7 DEF LinkMarker, Quiet
<1> QED BY <1>4, <1>5, <1>6, <1>7 DEF Linked

\* An encoder that has ended its bytes with zeros may find them in what is
\* written before it is at its end.
LEMMA NothingBehind ==
    ASSUME NEW x \in Texts, NEW mk \in BOOLEAN, NEW t, NEW s, Written(x, mk, t, s),
           NEW m \in 1..Len(t), t[m].pc = "encode",
           Code(t[m].enc, s) = 0, Position(t[m].enc) = Len(s)
    PROVE  ~mk /\ \A i \in (Len(t[m].got) + 1)..Len(x) : x[i] = 0
<1>1. t \in Seq(Turns) /\ Len(t) \in Nat \ {0}
  BY DEF Written, Trail
<1>2. \A i \in 1..Len(t) : Stand(x, mk, t[i])
  BY DEF Written, Trail
<1>3. \A i \in 1..(Len(t) - 1) : Linked(x, mk, t[i], t[i + 1])
  BY DEF Written, Trail
<1>4. s \in Seq(Bytes) /\ \A i \in 1..Len(t) : Inside(t[i].enc, s) /\ Position(t[i].enc) <= Len(s)
  BY WrittenCodes
<1> DEFINE k == Len(t[m].got)
           n == Len(t) - m
           P == {j \in 0..n : Quiet(x, k, t[m + j], s)}
<1>5. k \in Nat /\ n \in Nat
  <2>1. Stand(x, mk, t[m])
    BY <1>2
  <2>2. k \in Nat
    BY <2>1, TurnIs
  <2> QED BY <1>1, <2>2
<1>6. 0 \in P
  <2>1. (k + 1)..k = {}
    BY <1>5
  <2>2. Quiet(x, k, t[m], s)
    BY <1>5, <2>1 DEF Quiet
  <2> QED BY <1>5, <2>2
<1> HIDE DEF k
<1>7. ASSUME NEW j \in 1..n, j - 1 \in P PROVE j \in P
  <2> DEFINE i == m + (j - 1)
  <2>1. i \in 1..(Len(t) - 1) /\ i \in 1..Len(t) /\ i + 1 \in 1..Len(t) /\ i + 1 = m + j /\ j \in 0..n
    BY <1>1
  <2>2. Quiet(x, k, t[i], s)
    BY <1>7
  <2> HIDE DEF i
  <2>3. /\ Stand(x, mk, t[i]) /\ Stand(x, mk, t[i + 1]) /\ Linked(x, mk, t[i], t[i + 1])
        /\ Inside(t[i + 1].enc, s) /\ Position(t[i + 1].enc) <= Len(s)
    BY <1>2, <1>3, <1>4, <2>1
  <2>4. Quiet(x, k, t[i + 1], s)
    BY <1>4, <1>5, <2>2, <2>3, QuietStep
  <2> QED BY <2>1, <2>4
<1> HIDE DEF P
<1>8. 0..n \subseteq P
  BY <1>5, <1>6, <1>7, InductionUpTo
<1>9. Quiet(x, k, t[Len(t)], s)
  <2>1. n \in 0..n /\ m + n = Len(t)
    BY <1>1, <1>5
  <2>2. n \in P
    BY <1>8, <2>1
  <2> QED BY <2>1, <2>2 DEF P
<1>10. t[Len(t)].got = x /\ ~mk
  BY <1>9 DEF Written, AtEnd, Quiet
<1> QED BY <1>9, <1>10 DEF Quiet, k

-----------------------------------------------------------------------------
(* The probabilities of the two sides *)

\* The width of the decoder's grid, and its places.
LiteralCols == 3 * Pow2(LitBits)
LiteralPlaces == 0..(Pow2(Lc) * LiteralCols - 1)

\* The decoder's, for the encoder's properties.
Grids(m, l) ==
    /\ m \in [0..(Pow2(Pb) - 1) -> Usable]
    /\ \E data \in [LiteralPlaces -> Usable] : l = [data |-> data, cols |-> LiteralCols]

\* The decoder's probability of a cell of the encoder.
CellOf(m, l, c) == IF c[1] = "is_match" THEN m[c[2]] ELSE Get(l, c[2], c[3])

\* They are those of the encoder, p.
Agree(m, l, p) == \A c \in Cells : CellOf(m, l, c) = p[c]

\* The properties the encoder writes.
Props == [lc |-> Lc, lp |-> 0, pb |-> Pb]

\* A cell is one of two kinds.
LEMMA CellIs ==
    ASSUME NEW c \in Cells
    PROVE  \/ \E i \in 0..(Pow2(Pb) - 1) : c = <<"is_match", i, 0>>
           \/ \E r \in 0..(Pow2(Lc) - 1), b \in 1..(Pow2(LitBits) - 1) : c = <<"literal", r, b>>
BY DEF Cells

\* The sizes of the arrays.
LEMMA SizesAre ==
    /\ Pow2(Pb) \in Nat \ {0} /\ Pow2(Lc) \in Nat \ {0} /\ LiteralCols \in Nat \ {0}
    /\ 1..(Pow2(LitBits) - 1) \subseteq 0..(LiteralCols - 1)
<1>1. Pb \in Nat /\ Lc \in Nat
  BY SymbolAssumption
<1>2. Pow2(Pb) \in Nat \ {0} /\ Pow2(Lc) \in Nat \ {0}
  BY <1>1, PowerOfMore
<1>3. LiteralCols \in Nat \ {0} /\ 1..(Pow2(LitBits) - 1) \subseteq 0..(LiteralCols - 1)
  BY LiteralsIs DEF LiteralCols
<1> QED BY <1>2, <1>3

\* The grid of the literals.
LEMMA PlaceIs ==
    ASSUME NEW rows, NEW cols, rows \in Nat /\ cols \in Nat,
           NEW r, NEW c, r \in 0..(rows - 1) /\ c \in 0..(cols - 1)
    PROVE  /\ At(r, c, cols) \in 0..(rows * cols - 1)
           /\ Get(Grid(Half, rows, cols), r, c) = Half
<1>1. At(r, c, cols) \in 0..(rows * cols - 1)
  BY OwnPlace
<1> QED BY <1>1 DEF Grid, Get

\* Elements at the same place are the same.
LEMMA OtherPlace ==
    ASSUME NEW rows, NEW cols, rows \in Nat /\ cols \in Nat,
           NEW r, NEW c, r \in 0..(rows - 1) /\ c \in 0..(cols - 1),
           NEW j, NEW d, j \in 0..(rows - 1) /\ d \in 0..(cols - 1)
    PROVE  At(r, c, cols) = At(j, d, cols) => j = r /\ d = c
BY OwnPlace

\* So in the grid of the literals.
LEMMA PlacesApart ==
    ASSUME NEW r \in 0..(Pow2(Lc) - 1), NEW b \in 0..(LiteralCols - 1),
           NEW j \in 0..(Pow2(Lc) - 1), NEW d \in 0..(LiteralCols - 1),
           Pow2(Lc) \in Nat, LiteralCols \in Nat
    PROVE  At(r, b, LiteralCols) = At(j, d, LiteralCols) => j = r /\ d = b
BY OtherPlace, Zenon

\* The decoder's probability of a match is set.
LEMMA IsMatchAdapts ==
    ASSUME NEW m, NEW l, Grids(m, l), NEW n \in Nat, NEW bit \in {0, 1}
    PROVE  /\ m[n % Pow2(Pb)] \in Usable
           /\ Grids([m EXCEPT ![n % Pow2(Pb)] = Adapted(m[n % Pow2(Pb)], bit)], l)
           /\ \A p \in [Cells -> Usable] :
                 Agree(m, l, p) =>
                    /\ m[n % Pow2(Pb)] = p[IsMatchCell(n)]
                    /\ Agree([m EXCEPT ![n % Pow2(Pb)] = Adapted(m[n % Pow2(Pb)], bit)], l,
                             [p EXCEPT ![IsMatchCell(n)] = Adapted(p[IsMatchCell(n)], bit)])
<1> DEFINE i == n % Pow2(Pb)
           m2 == [m EXCEPT ![i] = Adapted(m[i], bit)]
<1>1. i \in 0..(Pow2(Pb) - 1)
  BY SizesAre, Divided
<1>2. IsMatchCell(n) = <<"is_match", i, 0>> /\ IsMatchCell(n) \in Cells
  BY CellsIn DEF IsMatchCell
<1> HIDE DEF i
<1>3. m \in [0..(Pow2(Pb) - 1) -> Usable]
  BY DEF Grids
<1>4. m[i] \in Usable
  BY <1>1, <1>3
<1>5. Adapted(m[i], bit) \in Usable
  BY <1>4, AdaptedUsable
<1>6. Grids(m2, l)
  BY <1>1, <1>3, <1>5 DEF Grids
<1>7. ASSUME NEW p \in [Cells -> Usable], Agree(m, l, p)
      PROVE  /\ m[i] = p[IsMatchCell(n)]
             /\ Agree(m2, l, [p EXCEPT ![IsMatchCell(n)] = Adapted(p[IsMatchCell(n)], bit)])
  <2> DEFINE k == IsMatchCell(n)
             p2 == [p EXCEPT ![k] = Adapted(p[k], bit)]
  <2>1. \A c \in Cells : CellOf(m, l, c) = p[c]
    BY <1>7 DEF Agree
  <2>2. m[i] = p[k]
    <3>1. CellOf(m, l, k) = m[i]
      BY <1>2 DEF CellOf
    <3> QED BY <1>2, <2>1, <3>1
  <2>3. ASSUME NEW c \in Cells PROVE CellOf(m2, l, c) = p2[c]
    <3>1. CASE c = k
      <4>1. CellOf(m2, l, c) = m2[i]
        BY <1>2, <3>1 DEF CellOf
      <4>2. m2[i] = Adapted(m[i], bit) /\ p2[k] = Adapted(p[k], bit)
        BY <1>1, <1>2, <1>3
      <4> QED BY <2>2, <3>1, <4>1, <4>2
    <3>2. CASE c # k
      <4>1. p2[c] = p[c]
        BY <3>2
      <4>2. CellOf(m2, l, c) = CellOf(m, l, c)
        <5>1. CASE \E j \in 0..(Pow2(Pb) - 1) : c = <<"is_match", j, 0>>
          <6>1. PICK j \in 0..(Pow2(Pb) - 1) : c = <<"is_match", j, 0>>
            BY <5>1
          <6>2. j # i
            BY <1>2, <3>2, <6>1
          <6>3. m2[j] = m[j]
            BY <1>3, <6>2
          <6> HIDE DEF m2
          <6> QED BY <6>1, <6>3 DEF CellOf
        <5>2. CASE \E r \in 0..(Pow2(Lc) - 1), b \in 1..(Pow2(LitBits) - 1) : c = <<"literal", r, b>>
          <6>1. c[1] # "is_match"
            BY <5>2
          <6> QED BY <6>1 DEF CellOf
        <5> QED BY <5>1, <5>2, CellIs
      <4> QED BY <2>1, <4>1, <4>2
    <3> QED BY <3>1, <3>2
  <2> QED BY <2>2, <2>3 DEF Agree
<1> QED BY <1>4, <1>6, <1>7 DEF i

\* Its probability of a bit of a literal is set.
LEMMA LiteralAdapts ==
    ASSUME NEW m, NEW l, Grids(m, l), NEW q \in Literals, NEW b \in 1..(Pow2(LitBits) - 1),
           NEW bit \in {0, 1}, NEW r, r = q \div Pow2(LitBits - Lc)
    PROVE  /\ Get(l, r, b) \in Usable
           /\ Grids(m, Set(l, r, b, Adapted(Get(l, r, b), bit)))
           /\ \A p \in [Cells -> Usable] :
                 Agree(m, l, p) =>
                    /\ Get(l, r, b) = p[LiteralCell(q, b)]
                    /\ Agree(m, Set(l, r, b, Adapted(Get(l, r, b), bit)),
                             [p EXCEPT ![LiteralCell(q, b)] = Adapted(p[LiteralCell(q, b)], bit)])
<1> DEFINE v == Adapted(Get(l, r, b), bit)
           l2 == Set(l, r, b, v)
           k == LiteralCell(q, b)
<1>1. k = <<"literal", r, b>> /\ k \in Cells
  BY CellsIn DEF LiteralCell
<1>2. r \in 0..(Pow2(Lc) - 1)
  <2>1. CASE \E i \in 0..(Pow2(Pb) - 1) : k = <<"is_match", i, 0>>
    <3>1. k[1] = "literal" /\ k[1] = "is_match"
      BY <1>1, <2>1
    <3> QED BY <3>1
  <2>2. CASE \E j \in 0..(Pow2(Lc) - 1), d \in 1..(Pow2(LitBits) - 1) : k = <<"literal", j, d>>
    <3>1. PICK j \in 0..(Pow2(Lc) - 1), d \in 1..(Pow2(LitBits) - 1) : k = <<"literal", j, d>>
      BY <2>2
    <3>2. r = j
      BY <1>1, <3>1
    <3> QED BY <3>2
  <2> QED BY <1>1, <2>1, <2>2, CellIs
<1> HIDE DEF k
<1>3. PICK data \in [LiteralPlaces -> Usable] : l = [data |-> data, cols |-> LiteralCols]
  BY DEF Grids
<1>4. Pow2(Lc) \in Nat /\ LiteralCols \in Nat /\ b \in 0..(LiteralCols - 1)
  BY SizesAre
<1>5. At(r, b, LiteralCols) \in LiteralPlaces
  <2>1. At(r, b, LiteralCols) \in 0..(Pow2(Lc) * LiteralCols - 1)
    <3> DEFINE rows == Pow2(Lc)
               cols == LiteralCols
    <3>1. rows \in Nat /\ cols \in Nat /\ r \in 0..(rows - 1) /\ b \in 0..(cols - 1)
      BY <1>2, <1>4
    <3> HIDE DEF rows, cols
    <3>2. At(r, b, cols) \in 0..(rows * cols - 1)
      BY <3>1, PlaceIs, Zenon
    <3> QED BY <3>2 DEF rows, cols
  <2> QED BY <2>1 DEF LiteralPlaces
<1>6. Get(l, r, b) \in Usable
  <2>1. l.data = data /\ l.cols = LiteralCols
    BY <1>3
  <2> QED BY <1>5, <2>1 DEF Get
<1>7. v \in Usable
  BY <1>6, AdaptedUsable
<1> HIDE DEF v
<1>8. l2 = [data |-> [data EXCEPT ![At(r, b, LiteralCols)] = v], cols |-> LiteralCols]
  <2> DEFINE next == [data EXCEPT ![At(r, b, LiteralCols)] = v]
  <2>1. l.data = data /\ l.cols = LiteralCols
    BY <1>3
  <2>2. l2 = [l EXCEPT !.data = next]
    BY <2>1 DEF Set
  <2> HIDE DEF next, l2
  <2>3. l2 = [data |-> next, cols |-> LiteralCols]
    BY <1>3, <2>2, DataSet
  <2> QED BY <2>3 DEF next
<1>9. Grids(m, l2)
  <2>1. [data EXCEPT ![At(r, b, LiteralCols)] = v] \in [LiteralPlaces -> Usable]
    BY <1>5, <1>7
  <2> HIDE DEF l2
  <2> QED BY <1>8, <2>1 DEF Grids
<1>10. ASSUME NEW j \in 0..(Pow2(Lc) - 1), NEW d \in 1..(Pow2(LitBits) - 1)
       PROVE  Get(l2, j, d) = IF j = r /\ d = b THEN v ELSE Get(l, j, d)
  <2>1. d \in 0..(LiteralCols - 1)
    BY SizesAre
  <2>2. data \in [0..(Pow2(Lc) * LiteralCols - 1) -> Usable]
    BY DEF LiteralPlaces
  <2>3. /\ At(j, d, LiteralCols) \in LiteralPlaces
        /\ At(r, b, LiteralCols) = At(j, d, LiteralCols) <=> j = r /\ d = b
    <3> DEFINE rows == Pow2(Lc)
               cols == LiteralCols
    <3>1. /\ rows \in Nat /\ cols \in Nat /\ r \in 0..(rows - 1) /\ b \in 0..(cols - 1)
          /\ j \in 0..(rows - 1) /\ d \in 0..(cols - 1)
      BY <1>2, <1>4, <2>1
    <3> HIDE DEF rows, cols
    <3>2. At(j, d, cols) \in 0..(rows * cols - 1)
      BY <3>1, PlaceIs, Zenon
    <3>3. At(r, b, LiteralCols) = At(j, d, LiteralCols) => j = r /\ d = b
      BY <1>2, <1>4, <2>1, PlacesApart, Zenon
    <3> QED BY <3>2, <3>3 DEF rows, cols, LiteralPlaces
  <2> DEFINE next == [data EXCEPT ![At(r, b, LiteralCols)] = v]
  <2>4. next[At(j, d, LiteralCols)] = IF j = r /\ d = b THEN v ELSE data[At(j, d, LiteralCols)]
    BY <2>3
  <2>5. l2.data = next /\ l2.cols = LiteralCols /\ l.data = data /\ l.cols = LiteralCols
    <3> HIDE DEF next, l2
    <3> QED BY <1>3, <1>8 DEF next
  <2> HIDE DEF next, l2
  <2> QED BY <2>4, <2>5 DEF Get
<1> HIDE DEF l2
<1>11. ASSUME NEW p \in [Cells -> Usable], Agree(m, l, p)
       PROVE  /\ Get(l, r, b) = p[k]
              /\ Agree(m, l2, [p EXCEPT ![k] = Adapted(p[k], bit)])
  <2> DEFINE p2 == [p EXCEPT ![k] = Adapted(p[k], bit)]
  <2>1. \A c \in Cells : CellOf(m, l, c) = p[c]
    BY <1>11 DEF Agree
  <2>2. Get(l, r, b) = p[k]
    <3>1. CellOf(m, l, k) = Get(l, r, b)
      BY <1>1 DEF CellOf, k
    <3> QED BY <1>1, <2>1, <3>1 DEF k
  <2>3. ASSUME NEW c \in Cells PROVE CellOf(m, l2, c) = p2[c]
    <3>1. CASE \E i \in 0..(Pow2(Pb) - 1) : c = <<"is_match", i, 0>>
      <4>1. c[1] = "is_match"
        BY <3>1
      <4>2. c # k
        BY <1>1, <4>1 DEF k
      <4>3. p2[c] = p[c]
        BY <4>2
      <4> QED BY <2>1, <4>1, <4>3 DEF CellOf
    <3>2. CASE \E j \in 0..(Pow2(Lc) - 1), d \in 1..(Pow2(LitBits) - 1) : c = <<"literal", j, d>>
      <4>1. PICK j \in 0..(Pow2(Lc) - 1), d \in 1..(Pow2(LitBits) - 1) : c = <<"literal", j, d>>
        BY <3>2
      <4>2. CellOf(m, l2, c) = Get(l2, j, d) /\ CellOf(m, l, c) = Get(l, j, d)
        BY <4>1 DEF CellOf
      <4>3. c = k <=> j = r /\ d = b
        BY <1>1, <4>1 DEF k
      <4>4. c = k => p2[c] = Adapted(p[k], bit)
        OBVIOUS
      <4>5. c # k => p2[c] = p[c]
        OBVIOUS
      <4>6. v = Adapted(p[k], bit)
        BY <2>2 DEF v
      <4> HIDE DEF p2
      <4> QED BY <1>10, <2>1, <4>2, <4>3, <4>4, <4>5, <4>6
    <3> QED BY <3>1, <3>2, CellIs
  <2> QED BY <2>2, <2>3 DEF Agree
<1> QED BY <1>6, <1>9, <1>11 DEF l2, v, k

\* All one half, after new and after a reset.
LEMMA NewGrids ==
    /\ Grids(NewIsMatch(Props), NewLiterals(Props))
    /\ Agree(NewIsMatch(Props), NewLiterals(Props), Fresh)
    /\ \A m, l : Grids(m, l) => Fill(l, Half) = NewLiterals(Props)
<1>1. Props.lc = Lc /\ Props.lp = 0 /\ Props.pb = Pb
  BY DEF Props
<1>2. NewIsMatch(Props) = [i \in 0..(Pow2(Pb) - 1) |-> Half]
  BY <1>1 DEF NewIsMatch
<1> DEFINE data == [i \in LiteralPlaces |-> Half]
<1>3. NewLiterals(Props) = [data |-> data, cols |-> LiteralCols]
  <2>1. Lc + 0 = Lc
    BY SymbolAssumption
  <2> QED BY <1>1, <2>1 DEF NewLiterals, Grid, LiteralPlaces, LiteralCols
<1>4. Half \in Usable
  BY Probabilities
<1>5. Grids(NewIsMatch(Props), NewLiterals(Props))
  BY <1>2, <1>3, <1>4 DEF Grids
<1>6. ASSUME NEW c \in Cells PROVE CellOf(NewIsMatch(Props), NewLiterals(Props), c) = Fresh[c]
  <2>1. Fresh[c] = Half
    BY DEF Fresh
  <2>2. CASE \E i \in 0..(Pow2(Pb) - 1) : c = <<"is_match", i, 0>>
    <3>1. PICK i \in 0..(Pow2(Pb) - 1) : c = <<"is_match", i, 0>>
      BY <2>2
    <3>2. CellOf(NewIsMatch(Props), NewLiterals(Props), c) = NewIsMatch(Props)[i]
      BY <3>1 DEF CellOf
    <3> QED BY <1>2, <2>1, <3>2
  <2>3. CASE \E r \in 0..(Pow2(Lc) - 1), b \in 1..(Pow2(LitBits) - 1) : c = <<"literal", r, b>>
    <3>1. PICK r \in 0..(Pow2(Lc) - 1), b \in 1..(Pow2(LitBits) - 1) : c = <<"literal", r, b>>
      BY <2>3
    <3>2. CellOf(NewIsMatch(Props), NewLiterals(Props), c) = Get(NewLiterals(Props), r, b)
      BY <3>1 DEF CellOf
    <3>3. Pow2(Lc) \in Nat /\ LiteralCols \in Nat /\ b \in 0..(LiteralCols - 1)
      BY SizesAre
    <3>4. Get(Grid(Half, Pow2(Lc), LiteralCols), r, b) = Half
      <4> DEFINE rows == Pow2(Lc)
                 cols == LiteralCols
      <4>1. rows \in Nat /\ cols \in Nat /\ r \in 0..(rows - 1) /\ b \in 0..(cols - 1)
        BY <3>3
      <4> HIDE DEF rows, cols
      <4>2. Get(Grid(Half, rows, cols), r, b) = Half
        BY <4>1, PlaceIs, Zenon
      <4> QED BY <4>2 DEF rows, cols
    <3>5. NewLiterals(Props) = Grid(Half, Pow2(Lc), LiteralCols)
      BY <1>3 DEF Grid, LiteralPlaces
    <3> QED BY <2>1, <3>2, <3>4, <3>5
  <2> QED BY <2>2, <2>3, CellIs
<1>7. ASSUME NEW m, NEW l, Grids(m, l) PROVE Fill(l, Half) = NewLiterals(Props)
  <2>1. PICK d \in [LiteralPlaces -> Usable] : l = [data |-> d, cols |-> LiteralCols]
    BY <1>7 DEF Grids
  <2>2. l.data = d /\ DOMAIN d = LiteralPlaces
    BY <2>1
  <2> DEFINE next == [i \in DOMAIN l.data |-> Half]
  <2>3. next = data
    BY <2>2
  <2>4. Fill(l, Half) = [l EXCEPT !.data = next]
    BY DEF Fill
  <2> HIDE DEF next, data
  <2>5. [l EXCEPT !.data = data] = [data |-> data, cols |-> LiteralCols]
    BY <2>1, DataSet
  <2> QED BY <1>3, <2>3, <2>4, <2>5
<1> QED BY <1>5, <1>6, <1>7 DEF Agree

-----------------------------------------------------------------------------
(* The inductive invariant *)

\* While bits are coded, and once the header is read.
EncoderPcs == {"encode", "encode_literal", "encode_marker", "flush"}
DecoderPcs == {"ready", "decode", "decode_literal", "decode_marker", "done", "lost", "failed"}

\* What holds of every field by itself.
Basics ==
    /\ text \in Texts /\ options \in EncoderOptions({NoSize, Len(text)} \cup Sizes)
    /\ pc \in {"encode_header", "unwritten", "written"} \cup EncoderPcs \cup DecoderPcs
    /\ at \in 0..MarkerLen /\ byte \in 1..(Pow2(LitBits) - 1) /\ got \in Seq(Literals)
    /\ enc \in EncoderState /\ enc.range \in Top..(Word - 1) /\ enc.low < 2 * Word
    /\ probs \in [Cells -> Usable]
    /\ target \in {NoSize, Len(text)} \cup Sizes

\* Before a bit is coded, and where nothing is being decoded yet.
AtStart == at = 0 /\ got = <<>> /\ byte = 1

\* No header has been read.
NoDecoder ==
    /\ params = NoParams
    /\ is_match = NewIsMatch(NoParams.props) /\ literal_probs = NewLiterals(NoParams.props)

\* The history is one of the text, up to where the encoder is.
EncoderInv ==
    /\ pc = "encode_header" => AtStart /\ enc = NewEncoder /\ probs = Fresh
    /\ pc \in EncoderPcs =>
          /\ Trail(text, marker, trail) /\ trail[Len(trail)] = Now
          /\ header = Header(Lc, 0, Pb, options)
    /\ pc \notin DecoderPcs => NoDecoder

\* The bytes are there.
WrittenInv ==
    pc \in {"written"} \cup DecoderPcs =>
        /\ Written(text, marker, trail, input) /\ header = Header(Lc, 0, Pb, options)
        /\ pc = "written" => AtStart

\* A byte goes on only below the size, if there is one.
BelowTarget == Len(got) <= target /\ (pc # "decode" => Len(got) < target)

\* The decoder is where the encoder was.
InStep ==
    /\ count + 1 \in 1..Len(trail)
    /\ dec = AsDecoder(trail[count + 1].enc, input)
    /\ got = trail[count + 1].got /\ byte = trail[count + 1].byte /\ at = trail[count + 1].at
    /\ \/ pc = "decode" /\ trail[count + 1].pc = "encode"
       \/ pc = "decode_literal" /\ trail[count + 1].pc = "encode_literal"
       \/ pc = "decode_marker" /\ trail[count + 1].pc = "encode_marker"
    /\ pc # "decode_marker" => Agree(is_match, literal_probs, trail[count + 1].probs)
    /\ target # NoSize => BelowTarget

\* Or behind the encoder's end, where it reads zeros until an input that has
\* none left stops it.
Beyond ==
    /\ count >= Len(trail) /\ ~marker
    /\ \E r \in Top..(Word - 1) : dec = [range |-> r, code |-> 0, pos |-> Len(input)]
    /\ target # NoSize /\ target > Len(text) /\ BelowTarget /\ Len(got) >= Len(text)
    /\ \/ pc = "decode" /\ byte = 1
       \/ pc = "decode_literal" /\ \E k \in 0..(LitBits - 1) : byte = Pow2(k)

\* The decoder has the encoder's properties, its probabilities before the first
\* bit, and is in step with it or behind its end.
DecoderInv ==
    /\ pc \in DecoderPcs => params.props = Props /\ Grids(is_match, literal_probs)
    /\ pc = "ready" => AtStart /\ Agree(is_match, literal_probs, Fresh)
    /\ Decoding => count \in Nat /\ (InStep \/ Beyond)

\* Together, and with what it is all for.
IndInv == Basics /\ EncoderInv /\ WrittenInv /\ DecoderInv /\ RoundTrip

-----------------------------------------------------------------------------
(* The encoder's steps *)

\* There is a marker or not.
LEMMA MarkerIs == marker \in BOOLEAN
BY DEF marker

\* Initially.
LEMMA InitHolds == ASSUME Init PROVE IndInv
<1>1. /\ text \in Texts /\ options \in EncoderOptions({NoSize, Len(text)} \cup Sizes)
      /\ enc = NewEncoder /\ probs = Fresh /\ target = NoSize
      /\ params = NoParams
      /\ is_match = NewIsMatch(params.props) /\ literal_probs = NewLiterals(params.props)
      /\ pc = "encode_header" /\ at = 0 /\ got = <<>> /\ byte = 1
  BY DEF Init
<1>2. Basics
  <2>1. at \in 0..MarkerLen /\ byte \in 1..(Pow2(LitBits) - 1) /\ got \in Seq(Literals)
    BY <1>1, MarkerLenIs, LiteralsIs
  <2>2. enc \in EncoderState /\ enc.range \in Top..(Word - 1)
    BY <1>1, NewEncoderIs
  <2>3. enc.low < 2 * Word
    <3>1. enc.low = 0 /\ Word \in Nat /\ Word >= 1
      BY <1>1, Widths DEF NewEncoder
    <3> QED BY <3>1
  <2>4. probs \in [Cells -> Usable]
    BY <1>1, Probabilities DEF Fresh
  <2> QED BY <1>1, <2>1, <2>2, <2>3, <2>4 DEF Basics
<1>3. EncoderInv
  BY <1>1 DEF EncoderInv, AtStart, NoDecoder, EncoderPcs
<1>4. WrittenInv /\ DecoderInv
  BY <1>1 DEF WrittenInv, DecoderInv, DecoderPcs, Decoding
<1>5. RoundTrip
  <2>1. Len(got) = 0
    BY <1>1
  <2> QED BY <1>1, <2>1 DEF RoundTrip, Returned, Faithful
<1> QED BY <1>2, <1>3, <1>4, <1>5 DEF IndInv

\* A turn of the encoder.
LEMMA EncodeKeeps ==
    ASSUME IndInv, pc \in EncoderPcs, Linked(text, marker, Now, Now'), trail' = Append(trail, Now'),
           UNCHANGED <<text, options, header, decvars>>
    PROVE  IndInv'
<1>1. /\ text' = text /\ options' = options /\ header' = header /\ params' = params /\ target' = target
      /\ is_match' = is_match /\ literal_probs' = literal_probs
  BY DEF decvars
<1>2. marker' = marker /\ marker \in BOOLEAN /\ text \in Texts
  BY <1>1 DEF marker, IndInv, Basics
<1>3. Trail(text, marker, trail) /\ trail[Len(trail)] = Now /\ header = Header(Lc, 0, Pb, options) /\ NoDecoder
  BY DEF IndInv, EncoderInv, EncoderPcs, DecoderPcs
<1> DEFINE b == Now'
<1>4. /\ b = [pc |-> b.pc, at |-> b.at, got |-> b.got, byte |-> b.byte, enc |-> b.enc, probs |-> b.probs]
      /\ b.pc = pc' /\ b.at = at' /\ b.got = got' /\ b.byte = byte' /\ b.enc = enc' /\ b.probs = probs'
  BY DEF Now
<1>5. Linked(text, marker, trail[Len(trail)], b) /\ trail' = Append(trail, b)
  BY <1>3
<1> HIDE DEF b
<1>6. Trail(text, marker, trail')
  BY <1>2, <1>3, <1>4, <1>5, TrailGrows, Zenon
<1>7. trail'[Len(trail')] = b /\ Len(trail') \in Nat \ {0}
  <2>1. trail \in Seq(Turns)
    BY <1>3 DEF Trail
  <2>2. trail' \in Seq(Turns) /\ trail' # <<>>
    BY <1>6 DEF Trail
  <2>3. Len(trail') = Len(trail) + 1 /\ trail'[Len(trail) + 1] = b
    BY <1>5, <2>1
  <2> QED BY <2>1, <2>2, <2>3
<1>8. Stand(text, marker, b)
  BY <1>6, <1>7 DEF Trail
<1>9. /\ pc' \in EncoderPcs /\ at' \in 0..MarkerLen /\ byte' \in 1..(Pow2(LitBits) - 1)
      /\ got' \in Seq(Literals) /\ enc' \in EncoderState /\ enc'.range \in Top..(Word - 1)
      /\ CanCarry(enc') /\ probs' \in [Cells -> Usable]
  BY <1>2, <1>4, <1>8, TurnIs DEF EncoderPcs
<1>10. Basics'
  <2>1. enc'.low < 2 * Word
    BY <1>9 DEF CanCarry
  <2> QED BY <1>1, <1>9, <2>1 DEF Basics, IndInv
<1>11. EncoderInv'
  <2>1. NoDecoder'
    BY <1>1, <1>3 DEF NoDecoder
  <2>2. trail'[Len(trail')] = Now'
    BY <1>7 DEF b
  <2>3. Trail(text', marker', trail') /\ header' = Header(Lc, 0, Pb, options')
    BY <1>1, <1>2, <1>3, <1>6
  <2>4. pc' # "encode_header"
    BY <1>9 DEF EncoderPcs
  <2> QED BY <2>1, <2>2, <2>3, <2>4 DEF EncoderInv
<1>12. pc' \notin {"written"} \cup DecoderPcs
  BY <1>9 DEF EncoderPcs, DecoderPcs
<1>13. WrittenInv' /\ DecoderInv'
  <2>1. ~Decoding' /\ pc' # "ready"
    BY <1>9 DEF EncoderPcs, Decoding
  <2> QED BY <1>12, <2>1 DEF WrittenInv, DecoderInv
<1>14. RoundTrip'
  <2>1. Len(got') <= Len(text) /\ \A i \in 1..Len(got') : got'[i] = text[i]
    BY <1>4, <1>8 DEF Stand
  <2>2. Len(got') \in Nat /\ Len(text) \in Nat
    BY <1>2, <1>9, TextIs
  <2>3. \A i \in 1..Len(got') : got'[i] = IF i <= Len(text) THEN text[i] ELSE 0
    BY <2>1, <2>2
  <2>4. pc' # "done" /\ pc' # "lost"
    BY <1>9 DEF EncoderPcs
  <2> QED BY <1>1, <2>3, <2>4 DEF RoundTrip, Returned, Faithful
<1> QED BY <1>10, <1>11, <1>13, <1>14 DEF IndInv

\* The state, as the history has it.
LEMMA NowIs ==
    /\ Now.pc = pc /\ Now.at = at /\ Now.got = got /\ Now.byte = byte /\ Now.enc = enc /\ Now.probs = probs
    /\ Now'.pc = pc' /\ Now'.at = at' /\ Now'.got = got' /\ Now'.byte = byte'
    /\ Now'.enc = enc' /\ Now'.probs = probs'
BY DEF Now

\* A bit is coded.
LEMMA EncodesHolds ==
    ASSUME IndInv, EncodeIsMatch \/ EncodeLiteral \/ EncodeMarkerStart \/ EncodeMarker
    PROVE  IndInv'
<1>1. ASSUME NEW cell, NEW bit, EncodesIn(cell, bit)
      PROVE  /\ UNCHANGED <<text, options, header, decvars>>
             /\ enc' = encode_bit(enc, probs[cell], bit)
             /\ probs' = [probs EXCEPT ![cell] = Adapted(probs[cell], bit)]
  BY <1>1 DEF EncodesIn, Encodes
<1>2. CASE EncodeIsMatch
  <2>1. /\ pc = "encode" /\ Len(got) < Len(text) /\ EncodesIn(IsMatchCell(Len(got)), 0)
        /\ pc' = "encode_literal" /\ byte' = 1 /\ at' = at /\ got' = got
        /\ trail' = Append(trail, Now')
    BY <1>2 DEF EncodeIsMatch, Noted
  <2>2. Linked(text, marker, Now, Now')
    <3>1. LinkIsMatch(text, Now, Now')
      BY <1>1, <2>1, NowIs DEF LinkIsMatch, Codes
    <3> QED BY <3>1 DEF Linked
  <2> QED BY <1>1, <2>1, <2>2, EncodeKeeps DEF EncoderPcs
<1>3. CASE EncodeLiteral
  <2> DEFINE bit == (text[Len(got) + 1] \div Pow2(Rest(byte))) % 2
  <2>1. /\ pc = "encode_literal" /\ EncodesIn(LiteralCell(Prev, byte), bit) /\ GoesOn(bit, "encode")
        /\ at' = at /\ trail' = Append(trail, Now')
    BY <1>3 DEF EncodeLiteral, Noted, Rest
  <2>2. LitBit(text, Now) = bit /\ PrevOf(Now.got) = Prev
    BY NowIs DEF LitBit, PrevOf, Prev
  <2> HIDE DEF bit
  <2>3. GoesTo(Now, Now', bit)
    BY <2>1, NowIs DEF GoesOn, GoesTo
  <2>4. Linked(text, marker, Now, Now')
    <3>1. LinkLiteral(text, Now, Now')
      BY <1>1, <2>1, <2>2, <2>3, NowIs DEF LinkLiteral, Codes
    <3> QED BY <3>1 DEF Linked
  <2> QED BY <1>1, <2>1, <2>4, EncodeKeeps DEF EncoderPcs
<1>4. CASE EncodeMarkerStart
  <2>1. /\ pc = "encode" /\ got = text /\ marker /\ EncodesIn(StartCell(text), 1)
        /\ pc' = "encode_marker" /\ at' = 1 /\ got' = got /\ byte' = byte
        /\ trail' = Append(trail, Now')
    BY <1>4 DEF EncodeMarkerStart, Noted, StartCell
  <2>2. Linked(text, marker, Now, Now')
    <3>1. LinkStart(text, marker, Now, Now')
      BY <1>1, <2>1, NowIs DEF LinkStart, Codes
    <3> QED BY <3>1 DEF Linked
  <2> QED BY <1>1, <2>1, <2>2, EncodeKeeps DEF EncoderPcs
<1>5. CASE EncodeMarker
  <2>1. /\ pc = "encode_marker" /\ enc' = encode_bit(enc, Half, MarkerBit(at)) /\ probs' = probs
        /\ UNCHANGED <<text, options, header, decvars>>
        /\ got' = got /\ byte' = byte /\ trail' = Append(trail, Now')
        /\ IF at = MarkerLen THEN pc' = "flush" /\ at' = 0 ELSE pc' = "encode_marker" /\ at' = at + 1
    BY <1>5 DEF EncodeMarker, Encodes, Noted
  <2>2. Linked(text, marker, Now, Now')
    <3>1. LinkMarker(Now, Now')
      BY <2>1, NowIs DEF LinkMarker
    <3> QED BY <3>1 DEF Linked
  <2> QED BY <2>1, <2>2, EncodeKeeps DEF EncoderPcs
<1> QED BY <1>2, <1>3, <1>4, <1>5

-----------------------------------------------------------------------------
(* Between the encoder and the decoder *)

\* What is known in every state of the two sides.
LEMMA Known ==
    ASSUME IndInv
    PROVE  /\ text \in Texts /\ text \in Seq(Literals) /\ Len(text) \in Nat /\ marker \in BOOLEAN
           /\ got \in Seq(Literals) /\ Len(got) \in Nat
           /\ NoSize \notin Nat /\ (target = NoSize \/ target \in Nat)
           /\ MarkerLen \in Nat
           /\ \A i \in 1..Len(got) : got[i] = IF i <= Len(text) THEN text[i] ELSE 0
<1>1. Basics /\ RoundTrip
  BY DEF IndInv
<1>2. text \in Texts /\ got \in Seq(Literals) /\ target \in {NoSize, Len(text)} \cup Sizes
  BY <1>1 DEF Basics
<1>3. text \in Seq(Literals) /\ Len(text) \in Nat
  BY <1>2, TextIs
<1>4. Sizes \subseteq Nat /\ NoSize \notin Nat
  <2>1. Sizes \subseteq 0..(SizeWord - 1) /\ SizeWord \in Nat /\ NoSize \notin Nat
    BY SymbolAssumption, FieldAssumption
  <2>2. ASSUME NEW z \in Sizes PROVE z \in Nat
    <3> DEFINE last == SizeWord - 1
    <3>1. Sizes \subseteq 0..last /\ last \in Int
      BY <2>1
    <3> HIDE DEF last
    <3>2. z \in 0..last
      BY <3>1
    <3> QED BY <3>1, <3>2
  <2> QED BY <2>1, <2>2
<1>5. \A i \in 1..Len(got) : got[i] = IF i <= Len(text) THEN text[i] ELSE 0
  BY <1>1 DEF RoundTrip, Faithful
<1>6. target = NoSize \/ target \in Nat
  BY <1>2, <1>3, <1>4
<1>7. MarkerLen \in Nat /\ Len(got) \in Nat
  BY <1>2, MarkerLenIs
<1> QED BY <1>2, <1>3, <1>4, <1>5, <1>6, <1>7, MarkerIs, Zenon

\* Nothing is claimed of what is coded before the decoder stops, but for its
\* bytes.
LEMMA HeaderHolds == ASSUME IndInv, EncodeHeader PROVE IndInv'
<1>1. /\ pc = "encode_header" /\ header' = Header(Lc, 0, Pb, options) /\ pc' = "encode"
      /\ UNCHANGED <<text, options, enc, probs, decvars, at, got, byte>> /\ trail' = <<Now'>>
  BY DEF EncodeHeader
<1>2. /\ text' = text /\ options' = options /\ params' = params /\ target' = target
      /\ is_match' = is_match /\ literal_probs' = literal_probs
      /\ enc' = enc /\ probs' = probs /\ at' = at /\ got' = got /\ byte' = byte
  BY <1>1 DEF decvars
<1>3. at = 0 /\ got = <<>> /\ byte = 1 /\ enc = NewEncoder /\ probs = Fresh /\ NoDecoder /\ Basics
  BY <1>1 DEF IndInv, EncoderInv, AtStart, DecoderPcs
<1>4. Now' = First
  BY <1>1, <1>2, <1>3 DEF Now, First
<1>5. marker' = marker /\ marker \in BOOLEAN /\ text \in Texts
  BY <1>2, <1>3 DEF marker, Basics
<1>6. Basics'
  BY <1>1, <1>2, <1>3 DEF Basics, EncoderPcs
<1>7. EncoderInv'
  <2>1. trail' = <<First>> /\ trail'[Len(trail')] = Now'
    BY <1>1, <1>4
  <2>2. Trail(text', marker', trail')
    BY <1>2, <1>5, <2>1, FirstStands
  <2>3. NoDecoder'
    BY <1>2, <1>3 DEF NoDecoder
  <2> QED BY <1>1, <1>2, <2>1, <2>2, <2>3 DEF EncoderInv
<1>8. WrittenInv' /\ DecoderInv'
  BY <1>1 DEF WrittenInv, DecoderInv, DecoderPcs, Decoding
<1>9. RoundTrip'
  <2>1. Len(got') = 0
    BY <1>2, <1>3
  <2> QED BY <1>1, <2>1 DEF RoundTrip, Returned, Faithful
<1> QED BY <1>6, <1>7, <1>8, <1>9 DEF IndInv

\* The bytes are finished.
LEMMA FlushHolds == ASSUME IndInv, Flush PROVE IndInv'
<1>1. /\ pc = "flush" \/ (pc = "encode" /\ got = text /\ ~marker)
      /\ enc' = Flushed(enc) /\ probs' = Fresh /\ pc' = "written" /\ got' = <<>>
      /\ text' = text /\ options' = options /\ header' = header /\ trail' = trail
      /\ UNCHANGED decvars /\ at' = at /\ byte' = byte
  BY DEF Flush
<1>2. /\ params' = params /\ target' = target /\ is_match' = is_match /\ literal_probs' = literal_probs
  BY <1>1 DEF decvars
<1>3. /\ Trail(text, marker, trail) /\ trail[Len(trail)] = Now /\ header = Header(Lc, 0, Pb, options)
      /\ NoDecoder /\ Basics
  BY <1>1 DEF IndInv, EncoderInv, EncoderPcs, DecoderPcs
<1>4. marker' = marker /\ marker \in BOOLEAN /\ text \in Texts
  BY <1>1, <1>3 DEF marker, Basics
<1>5. Stand(text, marker, Now)
  BY <1>3 DEF Trail
<1>6. at = 0 /\ byte = 1
  BY <1>1, <1>5, NowIs DEF Stand
<1>7. enc \in EncoderState /\ CanCarry(enc) /\ enc.range \in Top..(Word - 1)
  BY <1>4, <1>5, TurnIs, NowIs
<1>8. enc' \in EncoderState /\ enc'.range \in Top..(Word - 1) /\ enc'.low = 0
  BY <1>1, <1>7, FlushedIs
<1>9. Written(text, marker, trail, enc'.out)
  <2>1. AtEnd(text, marker, Now)
    BY <1>1, NowIs DEF AtEnd
  <2>2. Now.enc = enc
    BY NowIs
  <2> QED BY <1>1, <1>3, <2>1, <2>2 DEF Written
<1>10. Basics'
  <2>1. enc'.low < 2 * Word
    BY <1>8, Widths
  <2>2. got' \in Seq(Literals) /\ probs' \in [Cells -> Usable]
    BY <1>1, Probabilities DEF Fresh
  <2> QED BY <1>1, <1>2, <1>3, <1>8, <2>1, <2>2 DEF Basics
<1>11. EncoderInv'
  <2>1. NoDecoder'
    BY <1>2, <1>3 DEF NoDecoder
  <2> QED BY <1>1, <2>1 DEF EncoderInv, EncoderPcs
<1>12. WrittenInv'
  BY <1>1, <1>3, <1>4, <1>6, <1>9 DEF WrittenInv, AtStart, input
<1>13. DecoderInv'
  BY <1>1 DEF DecoderInv, DecoderPcs, Decoding
<1>14. RoundTrip'
  <2>1. Len(got') = 0
    BY <1>1
  <2> QED BY <1>1, <2>1 DEF RoundTrip, Returned, Faithful
<1> QED BY <1>10, <1>11, <1>12, <1>13, <1>14 DEF IndInv

\* The encoder fails.
LEMMA FailsHolds == ASSUME IndInv, EncoderFails PROVE IndInv'
<1>1. /\ pc \in {"encode_header", "encode", "encode_literal", "encode_marker", "flush"}
      /\ pc' = "unwritten" /\ text' = text
      /\ UNCHANGED encvars /\ UNCHANGED decvars /\ at' = at /\ got' = got /\ byte' = byte
  BY DEF EncoderFails
<1>2. /\ params' = params /\ target' = target /\ is_match' = is_match /\ literal_probs' = literal_probs
      /\ options' = options /\ enc' = enc /\ probs' = probs
  BY <1>1 DEF decvars, encvars
<1>3. NoDecoder /\ Basics
  BY <1>1 DEF IndInv, EncoderInv, DecoderPcs
<1>4. Basics'
  BY <1>1, <1>2, <1>3 DEF Basics
<1>5. EncoderInv'
  <2>1. NoDecoder'
    BY <1>2, <1>3 DEF NoDecoder
  <2> QED BY <1>1, <2>1 DEF EncoderInv, EncoderPcs
<1>6. WrittenInv' /\ DecoderInv'
  BY <1>1 DEF WrittenInv, DecoderInv, DecoderPcs, Decoding
<1>7. RoundTrip'
  <2>1. \A i \in 1..Len(got') : got'[i] = IF i <= Len(text') THEN text'[i] ELSE 0
    BY <1>1, Known
  <2> QED BY <1>1, <2>1 DEF RoundTrip, Returned, Faithful
<1> QED BY <1>4, <1>5, <1>6, <1>7 DEF IndInv

\* The decoder works with the encoder's properties, and with a size that one of
\* the two was told, or none.
LEMMA ParamsAre ==
    ASSUME NEW x \in Texts, NEW o \in EncoderOptions({NoSize, Len(x)} \cup Sizes),
           NEW d \in DecoderOptions({NoSize, Len(x)} \cup Sizes),
           d.from # "provided" <=> Len(Header(Lc, 0, Pb, o)) = 3
    PROVE  /\ Params(Header(Lc, 0, Pb, o), d).props = Props
           /\ Params(Header(Lc, 0, Pb, o), d).size \in {NoSize, Len(x)} \cup Sizes
<1> DEFINE h == Header(Lc, 0, Pb, o)
           sizes == {NoSize, Len(x)} \cup Sizes
<1>1. Lc \in 0..8 /\ 0 \in 0..4 /\ Pb \in 0..4
  BY SymbolAssumption
<1>2. h[1] = PropsByte(Lc, 0, Pb)
  BY DEF Header
<1>3. Params(h, d).props = Props
  <2>1. Params(h, d).props = Properties(h[1])
    BY DEF Params
  <2>2. Properties(PropsByte(Lc, 0, Pb)) = Props
    BY <1>1, PropertiesReadBack DEF Props
  <2> QED BY <1>2, <2>1, <2>2
<1>4. Params(h, d).size \in sizes
  <2>1. CASE d.from = "header"
    <3>1. Len(h) = 3
      BY <2>1
    <3>2. o.skip # TRUE
      <4> SUFFICES ASSUME o.skip = TRUE PROVE FALSE
        OBVIOUS
      <4>1. Len(h) = 2
        BY DEF Header
      <4> QED BY <3>1, <4>1
    <3>3. o.skip = FALSE /\ o.size \in sizes
      <4>1. o \in [skip : {FALSE}, size : sizes] \/ o = [skip |-> TRUE, size |-> NoSize]
        BY DEF EncoderOptions
      <4>2. o # [skip |-> TRUE, size |-> NoSize]
        <5>1. [skip |-> TRUE, size |-> NoSize].skip = TRUE
          OBVIOUS
        <5> QED BY <3>2, <5>1
      <4> HIDE DEF sizes
      <4>3. o \in [skip : {FALSE}, size : sizes]
        BY <4>1, <4>2
      <4> QED BY <4>3
    <3>4. h[3] = IF o.size = NoSize THEN SizeWord - 1 ELSE o.size
      BY <3>3 DEF Header
    <3>5. Params(h, d).size = IF h[3] = SizeWord - 1 THEN NoSize ELSE h[3]
      BY <2>1 DEF Params
    <3> QED BY <3>3, <3>4, <3>5
  <2>2. CASE d.from # "header"
    <3>1. Params(h, d).size = d.size
      BY <2>2 DEF Params
    <3>2. d.size \in sizes
      BY <2>2 DEF DecoderOptions
    <3> QED BY <3>1, <3>2
  <2> QED BY <2>1, <2>2
<1> QED BY <1>3, <1>4

\* The header is read.
LEMMA ReadHeaderHolds == ASSUME IndInv, ReadHeader PROVE IndInv'
<1>1. /\ pc = "written" /\ pc' = "ready" /\ target' = params'.size
      /\ is_match' = NewIsMatch(params'.props) /\ literal_probs' = NewLiterals(params'.props)
      /\ text' = text /\ UNCHANGED encvars /\ at' = at /\ got' = got /\ byte' = byte
  BY DEF ReadHeader
<1>2. options' = options /\ enc' = enc /\ probs' = probs /\ header' = header /\ trail' = trail
  BY <1>1 DEF encvars
<1>3. /\ Written(text, marker, trail, input) /\ header = Header(Lc, 0, Pb, options) /\ AtStart /\ Basics
  BY <1>1 DEF IndInv, WrittenInv
<1>4. params'.props = Props /\ params'.size \in {NoSize, Len(text)} \cup Sizes
  <2>1. PICK o \in DecoderOptions({NoSize, Len(text)} \cup Sizes) :
          /\ o.from # "provided" <=> Len(header) = 3
          /\ params' = Params(header, o)
    BY DEF ReadHeader
  <2>2. text \in Texts /\ options \in EncoderOptions({NoSize, Len(text)} \cup Sizes)
    BY <1>3 DEF Basics
  <2> QED BY <1>3, <2>1, <2>2, ParamsAre
<1>5. marker' = marker /\ input' = input
  BY <1>2 DEF marker, input
<1>6. Basics'
  BY <1>1, <1>2, <1>3, <1>4 DEF Basics, DecoderPcs
<1>7. EncoderInv'
  BY <1>1 DEF EncoderInv, EncoderPcs, DecoderPcs
<1>8. WrittenInv'
  BY <1>1, <1>2, <1>3, <1>5 DEF WrittenInv
<1>9. DecoderInv'
  <2>1. Grids(is_match', literal_probs') /\ Agree(is_match', literal_probs', Fresh)
    BY <1>1, <1>4, NewGrids
  <2>2. AtStart'
    BY <1>1, <1>3 DEF AtStart
  <2> QED BY <1>1, <1>4, <2>1, <2>2 DEF DecoderInv, Decoding
<1>10. RoundTrip'
  <2>1. Len(got') = 0
    BY <1>1, <1>3 DEF AtStart
  <2> QED BY <1>1, <2>1 DEF RoundTrip, Returned, Faithful
<1> QED BY <1>6, <1>7, <1>8, <1>9, <1>10 DEF IndInv

\* The decoder is reset.
LEMMA ResetHolds == ASSUME IndInv, Reset PROVE IndInv'
<1>1. /\ pc \in {"done", "lost", "failed"} /\ pc' = "ready"
      /\ is_match' = NewIsMatch(params.props) /\ literal_probs' = Fill(literal_probs, Half)
      /\ target' \in {target, NoSize, Len(text)} \cup Sizes
      /\ got' = <<>> /\ byte' = 1 /\ at' = 0
      /\ text' = text /\ UNCHANGED encvars /\ params' = params
  BY DEF Reset
<1>2. options' = options /\ enc' = enc /\ probs' = probs /\ header' = header /\ trail' = trail
  BY <1>1 DEF encvars
<1>3. /\ Written(text, marker, trail, input) /\ header = Header(Lc, 0, Pb, options)
      /\ params.props = Props /\ Grids(is_match, literal_probs) /\ Basics
  BY <1>1 DEF IndInv, WrittenInv, DecoderInv, DecoderPcs
<1>4. marker' = marker /\ input' = input
  BY <1>2 DEF marker, input
<1>5. Basics'
  <2>1. at' \in 0..MarkerLen /\ byte' \in 1..(Pow2(LitBits) - 1) /\ got' \in Seq(Literals)
    BY <1>1, MarkerLenIs, LiteralsIs
  <2>2. target' \in {NoSize, Len(text)} \cup Sizes
    BY <1>1, <1>3 DEF Basics
  <2> QED BY <1>1, <1>2, <1>3, <2>1, <2>2 DEF Basics, DecoderPcs
<1>6. EncoderInv'
  BY <1>1 DEF EncoderInv, EncoderPcs, DecoderPcs
<1>7. WrittenInv'
  BY <1>1, <1>2, <1>3, <1>4 DEF WrittenInv
<1>8. DecoderInv'
  <2>1. Grids(is_match', literal_probs') /\ Agree(is_match', literal_probs', Fresh)
    <3>1. literal_probs' = NewLiterals(Props)
      BY <1>1, <1>3, NewGrids
    <3> QED BY <1>1, <1>3, <3>1, NewGrids
  <2>2. AtStart'
    BY <1>1 DEF AtStart
  <2> QED BY <1>1, <1>3, <2>1, <2>2 DEF DecoderInv, Decoding
<1>9. RoundTrip'
  <2>1. Len(got') = 0
    BY <1>1
  <2> QED BY <1>1, <2>1 DEF RoundTrip, Returned, Faithful
<1> QED BY <1>5, <1>6, <1>7, <1>8, <1>9 DEF IndInv

\* The decoder takes its first bytes.
LEMMA DecompressHolds == ASSUME IndInv, Decompress PROVE IndInv'
<1>1. /\ pc = "ready" /\ pc' = "decode" /\ dec' = NewDecoder(input) /\ count' = 0
      /\ is_match' = is_match /\ literal_probs' = literal_probs /\ target' = target
      /\ got' = got /\ byte' = byte /\ at' = at
      /\ text' = text /\ UNCHANGED encvars /\ params' = params
  BY DEF Decompress
<1>2. options' = options /\ enc' = enc /\ probs' = probs /\ header' = header /\ trail' = trail
  BY <1>1 DEF encvars
<1>3. /\ Written(text, marker, trail, input) /\ header = Header(Lc, 0, Pb, options)
      /\ params.props = Props /\ Grids(is_match, literal_probs) /\ Basics
      /\ AtStart /\ Agree(is_match, literal_probs, Fresh)
  BY <1>1 DEF IndInv, WrittenInv, DecoderInv, DecoderPcs
<1>4. marker' = marker /\ input' = input
  BY <1>2 DEF marker, input
<1>5. Basics'
  BY <1>1, <1>2, <1>3 DEF Basics, DecoderPcs
<1>6. EncoderInv'
  BY <1>1 DEF EncoderInv, EncoderPcs, DecoderPcs
<1>7. WrittenInv'
  BY <1>1, <1>2, <1>3, <1>4 DEF WrittenInv
<1>8. DecoderInv'
  <2>1. input \in Seq(Bytes) /\ Len(trail) \in Nat \ {0} /\ Inside(trail[1].enc, input)
    <3>1. input \in Seq(Bytes) /\ Len(trail) \in Nat \ {0} /\ \A i \in 1..Len(trail) : Inside(trail[i].enc, input)
      BY <1>3, Known, WrittenCodes
    <3> QED BY <3>1
  <2>2. trail[1] = First
    BY <1>3 DEF Written, Trail
  <2>3. dec' = AsDecoder(First.enc, input)
    <3>1. First.enc = NewEncoder
      BY DEF First
    <3> QED BY <1>1, <2>1, <2>2, <3>1, NewDecoderIs
  <2>4. /\ First.pc = "encode" /\ First.got = <<>> /\ First.byte = 1 /\ First.at = 0 /\ First.probs = Fresh
    BY DEF First
  <2>5. target' # NoSize => BelowTarget'
    <3>1. target = NoSize \/ target \in Nat
      BY Known
    <3>2. Len(got') = 0
      BY <1>1, <1>3 DEF AtStart
    <3> QED BY <1>1, <3>1, <3>2 DEF BelowTarget
  <2>6. InStep'
    <3>1. 0 + 1 = 1 /\ 1 \in 1..Len(trail)
      BY <2>1
    <3>2. trail'[count' + 1] = First
      BY <1>1, <1>2, <2>2, <3>1
    <3> HIDE DEF First
    <3> QED BY <1>1, <1>2, <1>3, <1>4, <2>3, <2>4, <2>5, <3>1, <3>2 DEF InStep, AtStart
  <2> QED BY <1>1, <1>3, <2>6 DEF DecoderInv
<1>9. RoundTrip'
  <2>1. Len(got') = 0
    BY <1>1, <1>3 DEF AtStart
  <2> QED BY <1>1, <2>1 DEF RoundTrip, Returned, Faithful
<1> QED BY <1>5, <1>6, <1>7, <1>8, <1>9 DEF IndInv

-----------------------------------------------------------------------------
(* The decoder's steps *)

\* Two turns of the encoder, one after the other, or the last.
LEMMA TurnAfter ==
    ASSUME NEW x \in Texts, NEW mk \in BOOLEAN, NEW t, NEW s, Written(x, mk, t, s), NEW n \in 1..Len(t)
    PROVE  /\ s \in Seq(Bytes) /\ Len(s) \in Nat /\ Len(t) \in Nat /\ Stand(x, mk, t[n])
           /\ n < Len(t) =>
                 /\ n + 1 \in 1..Len(t) /\ Stand(x, mk, t[n + 1]) /\ Linked(x, mk, t[n], t[n + 1])
                 /\ Inside(t[n + 1].enc, s) /\ Position(t[n + 1].enc) <= Len(s)
           /\ n = Len(t) =>
                 /\ AtEnd(x, mk, t[n]) /\ Code(t[n].enc, s) = 0 /\ Position(t[n].enc) = Len(s)
           /\ Inside(t[n].enc, s)
<1>1. t \in Seq(Turns) /\ Len(t) \in Nat \ {0}
  BY DEF Written, Trail
<1>2. \A i \in 1..Len(t) : Stand(x, mk, t[i])
  BY DEF Written, Trail
<1>3. \A i \in 1..(Len(t) - 1) : Linked(x, mk, t[i], t[i + 1])
  BY DEF Written, Trail
<1>4. /\ s \in Seq(Bytes) /\ Position(t[Len(t)].enc) = Len(s) /\ Code(t[Len(t)].enc, s) = 0
      /\ \A i \in 1..Len(t) : Inside(t[i].enc, s) /\ Position(t[i].enc) <= Len(s)
  BY WrittenCodes
<1>5. ASSUME n < Len(t)
      PROVE  /\ n + 1 \in 1..Len(t) /\ Stand(x, mk, t[n + 1]) /\ Linked(x, mk, t[n], t[n + 1])
             /\ Inside(t[n + 1].enc, s) /\ Position(t[n + 1].enc) <= Len(s)
  <2>1. n + 1 \in 1..Len(t) /\ n \in 1..(Len(t) - 1)
    BY <1>1, <1>5
  <2> QED BY <1>2, <1>3, <1>4, <2>1
<1>6. n = Len(t) => AtEnd(x, mk, t[n]) /\ Code(t[n].enc, s) = 0 /\ Position(t[n].enc) = Len(s)
  BY <1>4 DEF Written
<1>7. Len(s) \in Nat
  BY <1>4
<1> QED BY <1>1, <1>2, <1>4, <1>5, <1>6, <1>7

\* Behind the last byte the text ends without a marker.
LEMMA LastTurn ==
    ASSUME NEW x \in Texts, NEW mk \in BOOLEAN, NEW t, NEW s, Written(x, mk, t, s), NEW n \in 1..Len(t),
           (t[n].pc = "encode" /\ t[n].got = x /\ ~mk) \/ t[n].pc = "flush"
    PROVE  n = Len(t)
<1> SUFFICES ASSUME n # Len(t) PROVE FALSE
  OBVIOUS
<1>1. n < Len(t) /\ Len(t) \in Nat
  <2>1. Len(t) \in Nat
    BY TurnAfter
  <2> QED BY <2>1
<1>2. Linked(x, mk, t[n], t[n + 1])
  BY <1>1, TurnAfter
<1>3. Len(x) \in Nat
  BY TextIs
<1> QED BY <1>2, <1>3 DEF Linked, LinkIsMatch, LinkLiteral, LinkStart, LinkMarker

\* What every step of the decoder leaves.
Kept == UNCHANGED <<text, encvars, params, target>>

\* And with it what is known of the bytes.
LEMMA KeptIs ==
    ASSUME IndInv, pc \in DecoderPcs, Kept
    PROVE  /\ text' = text /\ options' = options /\ header' = header /\ enc' = enc /\ probs' = probs
           /\ trail' = trail /\ params' = params /\ target' = target
           /\ marker' = marker /\ input' = input
           /\ Written(text, marker, trail, input) /\ header = Header(Lc, 0, Pb, options)
           /\ params.props = Props /\ Grids(is_match, literal_probs) /\ Basics
<1>1. /\ text' = text /\ options' = options /\ header' = header /\ enc' = enc /\ probs' = probs
      /\ trail' = trail /\ params' = params /\ target' = target
  BY DEF Kept, encvars
<1>2. marker' = marker /\ input' = input
  BY <1>1 DEF marker, input
<1>3. /\ Written(text, marker, trail, input) /\ header = Header(Lc, 0, Pb, options)
      /\ params.props = Props /\ Grids(is_match, literal_probs) /\ Basics
  BY DEF IndInv, WrittenInv, DecoderInv
<1> QED BY <1>1, <1>2, <1>3

\* The decoder goes on, or stops.
LEMMA DecoderKeeps ==
    ASSUME IndInv, pc \in DecoderPcs, Kept, Grids(is_match', literal_probs'),
           pc' \in DecoderPcs \ {"ready"}, at' \in 0..MarkerLen, byte' \in 1..(Pow2(LitBits) - 1),
           got' \in Seq(Literals), Decoding' => count' \in Nat /\ (InStep' \/ Beyond'),
           RoundTrip'
    PROVE  IndInv'
<1>1. /\ text' = text /\ options' = options /\ header' = header /\ enc' = enc /\ probs' = probs
      /\ trail' = trail /\ params' = params /\ target' = target
      /\ marker' = marker /\ input' = input
      /\ Written(text, marker, trail, input) /\ header = Header(Lc, 0, Pb, options)
      /\ params.props = Props /\ Basics
  BY KeptIs
<1>2. Basics'
  BY <1>1 DEF Basics
<1>3. EncoderInv'
  BY DEF EncoderInv, EncoderPcs, DecoderPcs
<1>4. WrittenInv'
  BY <1>1 DEF WrittenInv, DecoderPcs
<1>5. DecoderInv'
  BY <1>1 DEF DecoderInv
<1> QED BY <1>2, <1>3, <1>4, <1>5 DEF IndInv

\* It fails, or is lost because the size is too large.
LEMMA DecoderGivesUp ==
    ASSUME IndInv, pc \in DecoderPcs, Kept, Grids(is_match', literal_probs'),
           UNCHANGED <<at, got, byte>>,
           pc' = "failed" \/ (pc' = "lost" /\ target # NoSize /\ target > Len(text))
    PROVE  IndInv'
<1>1. Basics /\ text' = text /\ target' = target /\ at' = at /\ got' = got /\ byte' = byte
  BY KeptIs
<1>2. at' \in 0..MarkerLen /\ byte' \in 1..(Pow2(LitBits) - 1) /\ got' \in Seq(Literals)
  BY <1>1 DEF Basics
<1>3. pc' \in DecoderPcs \ {"ready"} /\ ~Decoding'
  BY DEF DecoderPcs, Decoding
<1>4. RoundTrip'
  <2>1. \A i \in 1..Len(got') : got'[i] = IF i <= Len(text') THEN text'[i] ELSE 0
    BY <1>1, Known
  <2>2. pc' = "lost" => target' # NoSize /\ target' > Len(text')
    BY <1>1
  <2>3. Faithful'
    BY <2>1, <2>2 DEF Faithful
  <2>4. Returned'
    <3>1. pc' # "done"
      OBVIOUS
    <3>2. pc' = "lost" => ~SizeKnown'
      <4>1. Len(text') \in Nat
        BY <1>1, Known
      <4>2. target = NoSize \/ target \in Nat
        BY Known
      <4> QED BY <1>1, <2>2, <4>1, <4>2 DEF SizeKnown
    <3> QED BY <3>1, <3>2 DEF Returned
  <2> QED BY <2>3, <2>4 DEF RoundTrip
<1> QED BY <1>2, <1>3, <1>4, DecoderKeeps

\* It goes on.
LEMMA DecoderGoesOn ==
    ASSUME IndInv, pc \in DecoderPcs, Kept, Grids(is_match', literal_probs'),
           pc' \in {"decode", "decode_literal", "decode_marker"},
           at' \in 0..MarkerLen, byte' \in 1..(Pow2(LitBits) - 1), got' \in Seq(Literals),
           count' \in Nat, InStep' \/ Beyond',
           \A i \in 1..Len(got') : got'[i] = IF i <= Len(text) THEN text[i] ELSE 0
    PROVE  IndInv'
<1>1. text' = text
  BY KeptIs
<1>2. pc' \in DecoderPcs \ {"ready"}
  BY DEF DecoderPcs
<1>3. RoundTrip'
  BY <1>1 DEF RoundTrip, Returned, Faithful
<1> QED BY <1>2, <1>3, DecoderKeeps

\* The size, or the end of the input, is reached.
LEMMA StopsHolds == ASSUME IndInv, DecoderStops PROVE IndInv'
<1>1. /\ pc = "decode" /\ Ends
      /\ pc' = IF target \in {NoSize, Len(got)} THEN "done" ELSE "lost"
      /\ text' = text /\ UNCHANGED encvars /\ UNCHANGED decvars /\ at' = at /\ got' = got /\ byte' = byte
  BY DEF DecoderStops
<1>2. Kept /\ is_match' = is_match /\ literal_probs' = literal_probs /\ dec' = dec
  BY <1>1 DEF Kept, decvars
<1>3. pc \in DecoderPcs
  BY <1>1 DEF DecoderPcs
<1>4. /\ text' = text /\ trail' = trail /\ target' = target /\ marker' = marker /\ input' = input
      /\ Written(text, marker, trail, input) /\ Grids(is_match, literal_probs) /\ Basics
  BY <1>2, <1>3, KeptIs
<1>5. /\ text \in Texts /\ text \in Seq(Literals) /\ Len(text) \in Nat /\ marker \in BOOLEAN
      /\ got \in Seq(Literals) /\ Len(got) \in Nat
      /\ NoSize \notin Nat /\ (target = NoSize \/ target \in Nat)
      /\ \A i \in 1..Len(got) : got[i] = IF i <= Len(text) THEN text[i] ELSE 0
  BY Known
<1>6. InStep \/ Beyond
  BY <1>1 DEF IndInv, DecoderInv, Decoding
<1>7. target # NoSize => Len(got) = target
  <2> SUFFICES ASSUME target # NoSize PROVE Len(got) = target
    OBVIOUS
  <2>1. Len(got) >= target
    BY <1>1 DEF Ends
  <2>2. Len(got) <= target
    BY <1>6 DEF InStep, Beyond, BelowTarget
  <2> QED BY <1>5, <2>1, <2>2
<1>8. pc' = "done"
  BY <1>1, <1>7
<1>9. ASSUME target = NoSize
      PROVE  ~marker /\ \A i \in (Len(got) + 1)..Len(text) : text[i] = 0
  <2>1. InStep
    BY <1>6, <1>9 DEF Beyond
  <2> DEFINE n == count + 1
  <2>2. /\ n \in 1..Len(trail) /\ dec = AsDecoder(trail[n].enc, input) /\ got = trail[n].got
        /\ trail[n].pc = "encode"
    BY <1>1, <2>1 DEF InStep
  <2> HIDE DEF n
  <2>3. Code(trail[n].enc, input) = 0 /\ Position(trail[n].enc) = Len(input)
    BY <1>1, <1>9, <2>2 DEF Ends, is_finished_ok, AsDecoder
  <2> QED BY <1>4, <1>5, <2>2, <2>3, NothingBehind
<1>10. ASSUME target = Len(text)
       PROVE  got = text /\ (~marker => is_finished_ok(dec, input))
  <2>1. target # NoSize /\ Len(got) = Len(text)
    BY <1>5, <1>7, <1>10
  <2>2. \A i \in 1..Len(got) : got[i] = text[i]
    BY <1>5, <2>1
  <2>3. got = text
    BY <1>5, <2>1, <2>2
  <2>4. ASSUME ~marker PROVE is_finished_ok(dec, input)
    <3>1. InStep
      BY <1>5, <1>6, <1>10 DEF Beyond
    <3> DEFINE n == count + 1
    <3>2. /\ n \in 1..Len(trail) /\ dec = AsDecoder(trail[n].enc, input) /\ got = trail[n].got
          /\ trail[n].pc = "encode"
      BY <1>1, <3>1 DEF InStep
    <3> HIDE DEF n
    <3>3. n = Len(trail)
      BY <1>4, <1>5, <2>3, <2>4, <3>2, LastTurn
    <3>4. Code(trail[n].enc, input) = 0 /\ Position(trail[n].enc) = Len(input)
      BY <1>4, <1>5, <3>2, <3>3, TurnAfter
    <3> QED BY <3>2, <3>4 DEF is_finished_ok, AsDecoder
  <2> QED BY <2>3, <2>4
<1>11. RoundTrip'
  <2>1. Returned'
    <3>1. SizeKnown' => SizeKnown
      BY <1>4 DEF SizeKnown
    <3>2. ASSUME SizeKnown PROVE got' = text' /\ ((marker' => target' = NoSize) => is_finished_ok(dec', input'))
      <4>1. target = Len(text)
        BY <1>9, <3>2 DEF SizeKnown
      <4>2. target # NoSize
        BY <1>5, <4>1
      <4> QED BY <1>1, <1>2, <1>4, <1>10, <4>1, <4>2
    <3> QED BY <1>8, <3>1, <3>2 DEF Returned
  <2>2. Faithful'
    <3>1. pc' = "done" =>
             IF target' = NoSize THEN \A i \in (Len(got') + 1)..Len(text') : text'[i] = 0
                                 ELSE Len(got') = target'
      BY <1>1, <1>4, <1>7, <1>9
    <3>2. \A i \in 1..Len(got') : got'[i] = IF i <= Len(text') THEN text'[i] ELSE 0
      BY <1>1, <1>5
    <3> QED BY <1>8, <3>1, <3>2 DEF Faithful
  <2> QED BY <2>1, <2>2 DEF RoundTrip
<1>12. /\ pc' \in DecoderPcs \ {"ready"} /\ ~Decoding'
       /\ at' \in 0..MarkerLen /\ byte' \in 1..(Pow2(LitBits) - 1) /\ got' \in Seq(Literals)
  BY <1>1, <1>4, <1>8 DEF DecoderPcs, Decoding, Basics
<1> QED BY <1>2, <1>3, <1>4, <1>11, <1>12, DecoderKeeps

\* Where the input is at its end and the text too, a 0 is read that is not there.
LEMMA BeyondRead ==
    ASSUME IndInv, Decoding, NEW r \in Top..(Word - 1),
           dec = [range |-> r, code |-> 0, pos |-> Len(input)], NEW prob \in Usable
    PROVE  /\ Len(input) \in Nat
           /\ decode_bit(dec, prob, input).bit = 0
           /\ \E r2 \in Top..(Word - 1), p2 \in {Len(input), Len(input) + 1} :
                 decode_bit(dec, prob, input).dec = [range |-> r2, code |-> 0, pos |-> p2]
<1>1. enc \in EncoderState
  BY DEF IndInv, Basics
<1>2. input \in Seq(Bytes)
  BY <1>1 DEF EncoderState, input, Bytes
<1>3. Len(input) \in Nat
  BY <1>2
<1> DEFINE s == input
<1>4. s \in Seq(Bytes) /\ Len(s) \in Nat /\ Len(s) >= Len(s)
  BY <1>2, <1>3
<1> HIDE DEF s
<1>5. \E r2 \in Top..(Word - 1), p2 \in {Len(s), Len(s) + 1} :
         decode_bit([range |-> r, code |-> 0, pos |-> Len(s)], prob, s)
            = [bit |-> 0, dec |-> [range |-> r2, code |-> 0, pos |-> p2]]
  BY <1>4, ZeroStep, Zenon
<1>6. PICK r2 \in Top..(Word - 1), p2 \in {Len(s), Len(s) + 1} :
         decode_bit([range |-> r, code |-> 0, pos |-> Len(s)], prob, s)
            = [bit |-> 0, dec |-> [range |-> r2, code |-> 0, pos |-> p2]]
  BY <1>5
<1>7. decode_bit(dec, prob, s) = [bit |-> 0, dec |-> [range |-> r2, code |-> 0, pos |-> p2]]
  BY <1>6 DEF s
<1> QED BY <1>3, <1>7 DEF s

\* The turn of the encoder that the decoder is in, while bytes remain.
LEMMA InStepIs ==
    ASSUME IndInv, Decoding, InStep
    PROVE  /\ count \in Nat /\ count + 1 \in 1..Len(trail) /\ Stand(text, marker, trail[count + 1])
           /\ dec = AsDecoder(trail[count + 1].enc, input)
           /\ got = trail[count + 1].got /\ byte = trail[count + 1].byte /\ at = trail[count + 1].at
           /\ trail[count + 1].probs \in [Cells -> Usable]
           /\ target # NoSize => BelowTarget
           /\ pc = "decode" => trail[count + 1].pc = "encode"
           /\ pc = "decode_literal" => trail[count + 1].pc = "encode_literal"
           /\ pc = "decode_marker" => trail[count + 1].pc = "encode_marker"
           /\ pc # "decode_marker" => Agree(is_match, literal_probs, trail[count + 1].probs)
           /\ count + 1 < Len(trail) =>
                 /\ Linked(text, marker, trail[count + 1], trail[count + 2])
                 /\ Stand(text, marker, trail[count + 2]) /\ count + 2 \in 1..Len(trail)
                 /\ Inside(trail[count + 2].enc, input) /\ Position(trail[count + 2].enc) <= Len(input)
           /\ input \in Seq(Bytes)
           /\ ~(count + 1 < Len(trail)) =>
                 /\ count + 1 = Len(trail)
                 /\ pc = "decode" /\ got = text /\ ~marker
                 /\ dec.code = 0 /\ dec.pos = Len(input)
                 /\ \E r \in Top..(Word - 1) : dec = [range |-> r, code |-> 0, pos |-> Len(input)]
<1> DEFINE n == count + 1
<1>1. /\ n \in 1..Len(trail)
      /\ dec = AsDecoder(trail[n].enc, input)
      /\ got = trail[n].got /\ byte = trail[n].byte /\ at = trail[n].at
      /\ target # NoSize => BelowTarget
      /\ pc = "decode" => trail[n].pc = "encode"
      /\ pc = "decode_literal" => trail[n].pc = "encode_literal"
      /\ pc = "decode_marker" => trail[n].pc = "encode_marker"
      /\ pc # "decode_marker" => Agree(is_match, literal_probs, trail[n].probs)
      /\ pc \in {"decode", "decode_literal", "decode_marker"}
  BY DEF InStep, Decoding
<1>2. count \in Nat /\ Written(text, marker, trail, input) /\ text \in Texts /\ marker \in BOOLEAN
  BY Known DEF IndInv, DecoderInv, WrittenInv, Decoding, DecoderPcs
<1>3. count + 2 = n + 1
  BY <1>2
<1> HIDE DEF n
<1>4. /\ Len(trail) \in Nat /\ Stand(text, marker, trail[n]) /\ input \in Seq(Bytes)
      /\ n < Len(trail) =>
            /\ n + 1 \in 1..Len(trail) /\ Stand(text, marker, trail[n + 1])
            /\ Inside(trail[n + 1].enc, input) /\ Position(trail[n + 1].enc) <= Len(input)
            /\ Linked(text, marker, trail[n], trail[n + 1])
      /\ n = Len(trail) =>
            /\ AtEnd(text, marker, trail[n]) /\ Code(trail[n].enc, input) = 0
            /\ Position(trail[n].enc) = Len(input)
  BY <1>1, <1>2, TurnAfter
<1>5. trail[n].probs \in [Cells -> Usable] /\ trail[n].enc.range \in Top..(Word - 1)
  BY <1>2, <1>4, TurnIs
<1>6. ASSUME ~(n < Len(trail))
      PROVE  /\ n = Len(trail)
             /\ pc = "decode" /\ got = text /\ ~marker
             /\ dec.code = 0 /\ dec.pos = Len(input)
             /\ \E r \in Top..(Word - 1) : dec = [range |-> r, code |-> 0, pos |-> Len(input)]
  <2>1. n = Len(trail)
    BY <1>1, <1>4, <1>6
  <2>2. AtEnd(text, marker, trail[n]) /\ Code(trail[n].enc, input) = 0 /\ Position(trail[n].enc) = Len(input)
    BY <1>4, <2>1
  <2>3. pc = "decode" /\ got = text /\ ~marker
    BY <1>1, <2>2 DEF AtEnd
  <2>4. dec = [range |-> trail[n].enc.range, code |-> 0, pos |-> Len(input)]
    BY <1>1, <2>2 DEF AsDecoder
  <2> QED BY <1>5, <2>1, <2>3, <2>4
<1> QED BY <1>1, <1>2, <1>3, <1>4, <1>5, <1>6 DEF n

\* The bit that the encoder has coded is read.
LEMMA BitRead ==
    ASSUME IndInv, Decoding, InStep, count + 1 < Len(trail), NEW prob \in Usable, NEW bit \in {0, 1},
           trail[count + 2].enc = encode_bit(trail[count + 1].enc, prob, bit)
    PROVE  /\ decode_bit(dec, prob, input) = [bit |-> bit, dec |-> AsDecoder(trail[count + 2].enc, input)]
           /\ prob = Half /\ trail[count + 1].enc.range = 2 * Bound(trail[count + 1].enc.range, Half) =>
                 get_bit(dec, input) = [bit |-> bit, dec |-> AsDecoder(trail[count + 2].enc, input)]
           /\ AsDecoder(trail[count + 2].enc, input).pos <= Len(input)
           /\ ~(AsDecoder(trail[count + 2].enc, input).pos > Len(input))
<1> DEFINE a == trail[count + 1]
           b == trail[count + 2]
<1>1. /\ Stand(text, marker, a) /\ Stand(text, marker, b) /\ dec = AsDecoder(a.enc, input)
      /\ Inside(b.enc, input) /\ Position(b.enc) <= Len(input) /\ input \in Seq(Bytes)
  BY InStepIs
<1>2. b.enc = encode_bit(a.enc, prob, bit)
  OBVIOUS
<1> HIDE DEF a, b
<1>3. text \in Texts /\ marker \in BOOLEAN
  BY Known
<1>4. a.enc \in EncoderState /\ a.enc.range \in Top..(Word - 1) /\ Fits(a.enc.low, a.enc.range, a.enc.cache)
  BY <1>1, <1>3, TurnIs
<1>5. decode_bit(AsDecoder(a.enc, input), prob, input) = [bit |-> bit, dec |-> AsDecoder(b.enc, input)]
  BY <1>1, <1>2, <1>4, DecodeStep
<1>6. ASSUME prob = Half, a.enc.range = 2 * Bound(a.enc.range, Half)
      PROVE  get_bit(AsDecoder(a.enc, input), input) = [bit |-> bit, dec |-> AsDecoder(b.enc, input)]
  BY <1>1, <1>2, <1>4, <1>6, DirectStep
<1>7. AsDecoder(b.enc, input).pos <= Len(input) /\ ~(AsDecoder(b.enc, input).pos > Len(input))
  <2>1. Position(b.enc) \in Nat /\ Len(input) \in Nat
    BY <1>1, <1>3, TurnIs
  <2>2. AsDecoder(b.enc, input).pos = Position(b.enc)
    BY DEF AsDecoder
  <2> QED BY <1>1, <2>1, <2>2
<1> QED BY <1>1, <1>5, <1>6, <1>7 DEF a, b

\* A literal is announced, or the end marker.
LEMMA DecodeIsMatchHolds == ASSUME IndInv, DecodeIsMatch PROVE IndInv'
<1>1. pc = "decode" /\ ~Ends /\ literal_probs' = literal_probs /\ Decoding /\ pc \in DecoderPcs
  BY DEF DecodeIsMatch, Decoding, DecoderPcs
<1>2. /\ text \in Texts /\ text \in Seq(Literals) /\ Len(text) \in Nat /\ marker \in BOOLEAN
      /\ got \in Seq(Literals) /\ Len(got) \in Nat
      /\ NoSize \notin Nat /\ (target = NoSize \/ target \in Nat) /\ MarkerLen \in Nat
      /\ \A i \in 1..Len(got) : got[i] = IF i <= Len(text) THEN text[i] ELSE 0
  BY Known
<1>3. params.props = Props /\ Grids(is_match, literal_probs) /\ Basics
  BY <1>1 DEF IndInv, DecoderInv
<1> DEFINE pos_state == Len(got) % Pow2(Pb)
           prob == is_match[pos_state]
           d == decode_bit(dec, prob, input)
           Goes == /\ IF d.bit = 0 THEN pc' = "decode_literal" /\ UNCHANGED at
                                   ELSE pc' = "decode_marker" /\ at' = 1
                   /\ UNCHANGED <<got, byte>>
<1>4. Reads(d, Goes) /\ is_match' = [is_match EXCEPT ![pos_state] = Adapted(is_match[pos_state], d.bit)]
  <2>1. params.props.pb = Pb
    BY <1>3 DEF Props
  <2> QED BY <2>1 DEF DecodeIsMatch
<1>5. /\ dec' = d.dec /\ count' = count + 1 /\ Kept
      /\ \/ d.dec.pos <= Len(input) /\ Goes
         \/ d.dec.pos > Len(input) /\ pc' = "lost" /\ UNCHANGED <<at, got, byte>>
         \/ pc' = "failed" /\ UNCHANGED <<at, got, byte>>
  BY <1>4 DEF Reads, Kept
<1>6. prob \in Usable
  BY <1>2, <1>3, IsMatchAdapts
<1>7. ASSUME d.bit \in {0, 1} PROVE Grids(is_match', literal_probs')
  BY <1>1, <1>2, <1>3, <1>4, <1>7, IsMatchAdapts
<1>8. at \in 0..MarkerLen /\ byte \in 1..(Pow2(LitBits) - 1) /\ got \in Seq(Literals) /\ 1 \in 0..MarkerLen
  BY <1>3, MarkerLenIs DEF Basics
<1>9. /\ text' = text /\ options' = options /\ trail' = trail /\ target' = target
      /\ marker' = marker /\ input' = input
      /\ Written(text, marker, trail, input)
  BY <1>1, <1>5, KeptIs
<1>10. InStep \/ Beyond
  BY <1>1 DEF IndInv, DecoderInv, Decoding
<1>11. count \in Nat
  BY <1>1 DEF IndInv, DecoderInv, Decoding
<1>12. CASE InStep /\ count + 1 < Len(trail)
  <2> DEFINE n == count + 1
             a == trail[n]
             b == trail[n + 1]
  <2>1. n + 1 = count + 2
    BY <1>11
  <2>2. /\ n \in 1..Len(trail) /\ n + 1 \in 1..Len(trail) /\ n < Len(trail)
        /\ Stand(text, marker, a) /\ Stand(text, marker, b) /\ Linked(text, marker, a, b)
        /\ dec = AsDecoder(a.enc, input) /\ got = a.got /\ byte = a.byte /\ at = a.at
        /\ a.probs \in [Cells -> Usable] /\ (target # NoSize => BelowTarget)
        /\ a.pc = "encode" /\ Agree(is_match, literal_probs, a.probs)
        /\ Inside(b.enc, input) /\ Position(b.enc) <= Len(input) /\ input \in Seq(Bytes)
    <3>1. count + 1 < Len(trail) /\ pc # "decode_marker"
      BY <1>1, <1>12
    <3> QED BY <1>1, <1>12, <2>1, <3>1, InStepIs
  <2> HIDE DEF n
  <2>3. prob = a.probs[IsMatchCell(Len(got))]
    <3>1. Len(got) \in Nat /\ Grids(is_match, literal_probs) /\ 0 \in {0, 1}
      BY <1>2, <1>3
    <3>2. \A p \in [Cells -> Usable] :
             Agree(is_match, literal_probs, p) =>
                /\ prob = p[IsMatchCell(Len(got))]
                /\ Agree([is_match EXCEPT ![pos_state] = Adapted(is_match[pos_state], 0)], literal_probs,
                         [p EXCEPT ![IsMatchCell(Len(got))] = Adapted(p[IsMatchCell(Len(got))], 0)])
      BY <3>1, IsMatchAdapts
    <3> QED BY <2>2, <3>2
  <2> HIDE DEF prob, pos_state
  <2>4. ASSUME NEW bit \in {0, 1}, b.enc = encode_bit(a.enc, prob, bit)
        PROVE  /\ d.bit = bit /\ d.dec = AsDecoder(b.enc, input) /\ d.dec.pos <= Len(input)
               /\ ~(d.dec.pos > Len(input))
    <3>1. trail[count + 2].enc = encode_bit(trail[count + 1].enc, prob, bit)
      BY <2>1, <2>4 DEF n
    <3>2. /\ decode_bit(dec, prob, input) = [bit |-> bit, dec |-> AsDecoder(trail[count + 2].enc, input)]
          /\ AsDecoder(trail[count + 2].enc, input).pos <= Len(input)
          /\ ~(AsDecoder(trail[count + 2].enc, input).pos > Len(input))
      BY <1>1, <1>6, <1>12, <3>1, BitRead
    <3>3. b = trail[count + 2]
      BY <2>1 DEF n
    <3>4. d = [bit |-> bit, dec |-> AsDecoder(b.enc, input)]
      BY <3>2, <3>3
    <3>5. d.bit = bit /\ d.dec = AsDecoder(b.enc, input)
      BY <3>4
    <3> QED BY <3>2, <3>3, <3>5
  <2>5. ASSUME d.bit \in {0, 1}, pc' = "failed", UNCHANGED <<at, got, byte>> PROVE IndInv'
    BY <1>1, <1>5, <1>7, <2>5, DecoderGivesUp
  <2>6. BelowTarget' \/ target = NoSize
    <3> SUFFICES ASSUME target # NoSize, got' = got PROVE BelowTarget'
      <4>1. got' = got
        BY <1>5
      <4> QED BY <4>1
    <3>1. Len(got) < target
      BY <1>1, <1>2 DEF Ends
    <3>2. Len(got) <= target
      BY <1>2, <3>1
    <3> QED BY <1>9, <3>1, <3>2 DEF BelowTarget
  <2>7. count' + 1 = n + 1 /\ count' \in Nat
    BY <1>5, <1>11 DEF n
  <2>8. CASE LinkIsMatch(text, a, b)
    <3>1. /\ b.enc = encode_bit(a.enc, prob, 0)
          /\ b.probs = [a.probs EXCEPT ![IsMatchCell(Len(got))] = Adapted(a.probs[IsMatchCell(Len(got))], 0)]
          /\ b.pc = "encode_literal" /\ b.byte = 1 /\ b.at = a.at /\ b.got = a.got
      BY <2>2, <2>3, <2>8 DEF LinkIsMatch, Codes
    <3>2. d.bit = 0 /\ d.dec = AsDecoder(b.enc, input) /\ ~(d.dec.pos > Len(input))
      BY <2>4, <3>1
    <3>3. CASE Goes
      <4>1. pc' = "decode_literal" /\ at' = at /\ got' = got /\ byte' = byte
        BY <3>2, <3>3
      <4>2. Agree(is_match', literal_probs', b.probs)
        <5>1. Len(got) \in Nat /\ Grids(is_match, literal_probs) /\ 0 \in {0, 1}
          BY <1>2, <1>3
        <5>2. \A p \in [Cells -> Usable] :
                 Agree(is_match, literal_probs, p) =>
                    Agree([is_match EXCEPT ![pos_state] = Adapted(is_match[pos_state], 0)], literal_probs,
                          [p EXCEPT ![IsMatchCell(Len(got))] = Adapted(p[IsMatchCell(Len(got))], 0)])
          BY <5>1, IsMatchAdapts DEF pos_state
        <5> QED BY <1>1, <1>4, <2>2, <3>1, <3>2, <5>2
      <4>3. a.byte = 1
        BY <2>2 DEF Stand
      <4>4. InStep'
        BY <1>5, <1>9, <2>2, <2>6, <2>7, <3>1, <3>2, <4>1, <4>2, <4>3 DEF InStep
      <4> QED BY <1>1, <1>2, <1>5, <1>7, <1>8, <2>7, <3>2, <4>1, <4>4, DecoderGoesOn
    <3> QED BY <1>5, <2>5, <3>2, <3>3
  <2>9. CASE LinkStart(text, marker, a, b)
    <3>1. /\ a.got = text /\ b.pc = "encode_marker" /\ b.at = 1 /\ b.got = a.got /\ b.byte = a.byte
          /\ b.enc = encode_bit(a.enc, a.probs[StartCell(text)], 1)
      BY <2>9 DEF LinkStart, Codes
    <3>2. a.probs[StartCell(text)] = prob
      <4>1. CASE text = <<>>
        <5>1. a.probs = Fresh
          BY <2>2, <3>1, <4>1 DEF Stand
        <5>2. StartCell(text) \in Cells /\ IsMatchCell(Len(got)) \in Cells
          BY <1>2, <2>2, <2>9, CellsIn, LinkCodes
        <5> QED BY <2>3, <5>1, <5>2 DEF Fresh
      <4>2. CASE text # <<>>
        <5>1. StartCell(text) = IsMatchCell(Len(got))
          BY <2>2, <3>1, <4>2 DEF StartCell
        <5> QED BY <2>3, <5>1
      <4> QED BY <4>1, <4>2
    <3>3. d.bit = 1 /\ d.dec = AsDecoder(b.enc, input) /\ ~(d.dec.pos > Len(input))
      BY <2>4, <3>1, <3>2
    <3>4. CASE Goes
      <4>1. pc' = "decode_marker" /\ at' = 1 /\ got' = got /\ byte' = byte
        BY <3>3, <3>4
      <4>2. InStep'
        BY <1>5, <1>9, <2>2, <2>6, <2>7, <3>1, <3>3, <4>1 DEF InStep
      <4> QED BY <1>1, <1>2, <1>5, <1>7, <1>8, <2>7, <3>3, <4>1, <4>2, DecoderGoesOn
    <3> QED BY <1>5, <2>5, <3>3, <3>4
  <2> QED BY <2>2, <2>8, <2>9 DEF Linked, LinkLiteral, LinkMarker
<1>13. CASE (InStep /\ ~(count + 1 < Len(trail))) \/ Beyond
  <2>1. /\ count' >= Len(trail) /\ ~marker /\ Len(got) >= Len(text) /\ byte = 1
        /\ \E r \in Top..(Word - 1) : dec = [range |-> r, code |-> 0, pos |-> Len(input)]
        /\ target # NoSize /\ target > Len(text) /\ Len(got) < target
    <3>1. CASE InStep /\ ~(count + 1 < Len(trail))
      <4>1. /\ count + 1 = Len(trail) /\ got = text /\ ~marker
            /\ dec.code = 0 /\ dec.pos = Len(input)
            /\ \E r \in Top..(Word - 1) : dec = [range |-> r, code |-> 0, pos |-> Len(input)]
        BY <1>1, <3>1, InStepIs
      <4>2. trail[count + 1].pc = "encode" /\ Stand(text, marker, trail[count + 1]) /\ byte = trail[count + 1].byte
        BY <1>1, <3>1, InStepIs
      <4>3. byte = 1
        BY <4>2 DEF Stand
      <4>4. target # NoSize /\ Len(got) < target
        BY <1>1, <1>2, <4>1 DEF Ends, is_finished_ok
      <4>5. count' >= Len(trail)
        BY <1>5, <1>11, <4>1
      <4> QED BY <1>2, <4>1, <4>3, <4>4, <4>5
    <3>2. CASE Beyond
      <4>1. /\ count >= Len(trail) /\ ~marker /\ Len(got) >= Len(text) /\ byte = 1
            /\ \E r \in Top..(Word - 1) : dec = [range |-> r, code |-> 0, pos |-> Len(input)]
            /\ target # NoSize /\ target > Len(text)
        BY <1>1, <3>2 DEF Beyond
      <4>2. Len(got) < target
        BY <1>1, <1>2, <4>1 DEF Ends
      <4>3. count' >= Len(trail)
        <5>1. Len(trail) \in Nat
          BY <1>9 DEF Written, Trail
        <5> QED BY <1>5, <1>11, <4>1, <5>1
      <4> QED BY <4>1, <4>2, <4>3
    <3> QED BY <1>13, <3>1, <3>2
  <2>2. PICK r \in Top..(Word - 1) : dec = [range |-> r, code |-> 0, pos |-> Len(input)]
    BY <2>1
  <2> HIDE DEF prob, pos_state
  <2>3. /\ Len(input) \in Nat /\ d.bit = 0
        /\ \E r2 \in Top..(Word - 1), p2 \in {Len(input), Len(input) + 1} :
              d.dec = [range |-> r2, code |-> 0, pos |-> p2]
    BY <1>1, <1>6, <2>2, BeyondRead
  <2>4. PICK r2 \in Top..(Word - 1), p2 \in {Len(input), Len(input) + 1} :
              d.dec = [range |-> r2, code |-> 0, pos |-> p2]
    BY <2>3
  <2> HIDE DEF d
  <2>5. CASE d.dec.pos <= Len(input) /\ Goes
    <3>1. pc' = "decode_literal" /\ at' = at /\ got' = got /\ byte' = byte
      BY <2>3, <2>5
    <3>2. dec' = [range |-> r2, code |-> 0, pos |-> Len(input)]
      <4>1. p2 = Len(input)
        BY <2>3, <2>4, <2>5
      <4> QED BY <1>5, <2>4, <4>1
    <3>3. BelowTarget'
      BY <1>2, <1>9, <2>1, <3>1 DEF BelowTarget
    <3>4. 0 \in 0..(LitBits - 1) /\ byte' = Pow2(0)
      BY <2>1, <3>1, LiteralsIs, NoBits, PowerOfMore
    <3>5. Beyond'
      BY <1>9, <2>1, <3>1, <3>2, <3>3, <3>4 DEF Beyond
    <3>6. count' \in Nat
      BY <1>5, <1>11
    <3> QED BY <1>1, <1>2, <1>5, <1>7, <1>8, <2>3, <3>1, <3>5, <3>6, DecoderGoesOn
  <2>6. CASE (pc' = "lost" \/ pc' = "failed") /\ UNCHANGED <<at, got, byte>>
    BY <1>1, <1>5, <1>7, <2>1, <2>3, <2>6, DecoderGivesUp
  <2> QED BY <1>5, <2>5, <2>6
<1> QED BY <1>10, <1>12, <1>13

\* A bit of a literal.
LEMMA DecodeLiteralHolds == ASSUME IndInv, DecodeLiteral PROVE IndInv'
<1>1. pc = "decode_literal" /\ is_match' = is_match /\ Decoding /\ pc \in DecoderPcs
  BY DEF DecodeLiteral, Decoding, DecoderPcs
<1>2. /\ text \in Texts /\ text \in Seq(Literals) /\ Len(text) \in Nat /\ marker \in BOOLEAN
      /\ got \in Seq(Literals) /\ Len(got) \in Nat
      /\ NoSize \notin Nat /\ (target = NoSize \/ target \in Nat) /\ MarkerLen \in Nat
      /\ \A i \in 1..Len(got) : got[i] = IF i <= Len(text) THEN text[i] ELSE 0
  BY Known
<1>3. params.props = Props /\ Grids(is_match, literal_probs) /\ Basics
  BY <1>1 DEF IndInv, DecoderInv
<1>4. /\ at \in 0..MarkerLen /\ byte \in 1..(Pow2(LitBits) - 1) /\ Prev \in Literals
      /\ 1 \in 1..(Pow2(LitBits) - 1) /\ Pow2(LitBits) \in Nat /\ 0 \in Literals
  <2>1. Prev \in Literals
    BY <1>2, LiteralsIs DEF Prev
  <2> QED BY <1>3, <2>1, LiteralsIs DEF Basics
<1> DEFINE r == Prev \div Pow2(LitBits - Lc)
           prob == Get(literal_probs, r, byte)
           d == decode_bit(dec, prob, input)
           Goes == GoesOn(d.bit, "decode") /\ UNCHANGED at
<1>5. lit_state = r
  <2>1. params.props.lp = 0 /\ params.props.lc = Lc
    BY <1>3 DEF Props
  <2>2. r \in Nat /\ Pow2(Lc) \in Nat
    <3>1. LitBits - Lc \in Nat /\ Lc \in Nat
      BY SymbolAssumption
    <3>2. Pow2(LitBits - Lc) \in Nat \ {0} /\ Pow2(Lc) \in Nat
      BY <3>1, PowerOfMore
    <3>3. Prev \in Nat
      BY <1>4, LiteralsIs
    <3> QED BY <3>2, <3>3, Divided
  <2>3. Len(got) % Pow2(0) = 0
    <3>1. Pow2(0) = 1
      BY PowerOfMore
    <3> QED BY <1>2, <3>1
  <2>4. lit_state = (Len(got) % Pow2(0)) * Pow2(Lc) + r
    BY <2>1 DEF lit_state
  <2> HIDE DEF r
  <2> QED BY <2>2, <2>3, <2>4
<1>6. /\ dec' = d.dec /\ count' = count + 1 /\ Kept
      /\ \/ d.dec.pos <= Len(input) /\ Goes
         \/ d.dec.pos > Len(input) /\ pc' = "lost" /\ UNCHANGED <<at, got, byte>>
         \/ pc' = "failed" /\ UNCHANGED <<at, got, byte>>
  BY <1>5 DEF DecodeLiteral, Reads, Kept
<1>7. literal_probs' = Set(literal_probs, r, byte, Adapted(prob, d.bit))
  BY <1>5 DEF DecodeLiteral
<1>8. prob \in Usable
  <2>1. 0 \in {0, 1} /\ r = Prev \div Pow2(LitBits - Lc)
    OBVIOUS
  <2> HIDE DEF r
  <2> QED BY <1>3, <1>4, <2>1, LiteralAdapts
<1>9. ASSUME NEW bit \in {0, 1}
      PROVE  /\ Grids(is_match, Set(literal_probs, r, byte, Adapted(Get(literal_probs, r, byte), bit)))
             /\ \A p \in [Cells -> Usable] :
                   Agree(is_match, literal_probs, p) =>
                      /\ Get(literal_probs, r, byte) = p[LiteralCell(Prev, byte)]
                      /\ Agree(is_match, Set(literal_probs, r, byte, Adapted(Get(literal_probs, r, byte), bit)),
                               [p EXCEPT ![LiteralCell(Prev, byte)] = Adapted(p[LiteralCell(Prev, byte)], bit)])
  <2>1. r = Prev \div Pow2(LitBits - Lc)
    OBVIOUS
  <2> HIDE DEF r
  <2> QED BY <1>3, <1>4, <2>1, LiteralAdapts
<1> HIDE DEF r
<1>10. ASSUME d.bit \in {0, 1} PROVE Grids(is_match', literal_probs')
  BY <1>1, <1>7, <1>9, <1>10
<1>11. /\ text' = text /\ options' = options /\ trail' = trail /\ target' = target
       /\ marker' = marker /\ input' = input
       /\ Written(text, marker, trail, input)
  BY <1>1, <1>6, KeptIs
<1>12. InStep \/ Beyond
  BY <1>1 DEF IndInv, DecoderInv, Decoding
<1>13. count \in Nat /\ count' \in Nat
  BY <1>1, <1>6 DEF IndInv, DecoderInv, Decoding
<1>14. CASE InStep
  <2> DEFINE n == count + 1
             a == trail[n]
             b == trail[n + 1]
  <2>1. n + 1 = count + 2 /\ count' + 1 = n + 1
    BY <1>6, <1>13
  <2>2. count + 1 < Len(trail)
    BY <1>1, <1>14, InStepIs
  <2>3. /\ n \in 1..Len(trail) /\ n + 1 \in 1..Len(trail)
        /\ Stand(text, marker, a) /\ Stand(text, marker, b) /\ Linked(text, marker, a, b)
        /\ dec = AsDecoder(a.enc, input) /\ got = a.got /\ byte = a.byte /\ at = a.at
        /\ a.probs \in [Cells -> Usable] /\ (target # NoSize => BelowTarget)
        /\ a.pc = "encode_literal" /\ Agree(is_match, literal_probs, a.probs)
    <3>1. pc # "decode_marker"
      BY <1>1
    <3> QED BY <1>1, <1>14, <2>1, <2>2, <3>1, InStepIs
  <2>4. LinkLiteral(text, a, b)
    BY <2>3 DEF Linked, LinkIsMatch, LinkStart, LinkMarker
  <2>5. b = trail[count + 2] /\ a = trail[count + 1]
    BY <2>1
  <2>6. target # NoSize => Len(got) < target
    BY <1>1, <2>3 DEF BelowTarget
  <2> HIDE DEF n
  <2> DEFINE bit == LitBit(text, a)
  <2>7. PrevOf(a.got) = Prev
    BY <2>3 DEF PrevOf, Prev
  <2>8. bit \in {0, 1}
    BY <1>2, <2>3, <2>4, LinkCodes
  <2>9. /\ b.enc = encode_bit(a.enc, a.probs[LiteralCell(Prev, byte)], bit)
        /\ b.probs = [a.probs EXCEPT ![LiteralCell(Prev, byte)] = Adapted(a.probs[LiteralCell(Prev, byte)], bit)]
        /\ GoesTo(a, b, bit) /\ b.at = a.at
    BY <2>3, <2>4, <2>7 DEF LinkLiteral, Codes
  <2> HIDE DEF bit
  <2>10. /\ prob = a.probs[LiteralCell(Prev, byte)]
         /\ Agree(is_match, Set(literal_probs, r, byte, Adapted(prob, bit)), b.probs)
    BY <1>9, <2>3, <2>8, <2>9
  <2> HIDE DEF prob
  <2>11. /\ decode_bit(dec, prob, input) = [bit |-> bit, dec |-> AsDecoder(b.enc, input)]
         /\ AsDecoder(b.enc, input).pos <= Len(input)
         /\ ~(AsDecoder(b.enc, input).pos > Len(input))
    <3>1. trail[count + 2].enc = encode_bit(trail[count + 1].enc, prob, bit)
      BY <2>5, <2>9, <2>10
    <3>2. /\ decode_bit(dec, prob, input) = [bit |-> bit, dec |-> AsDecoder(trail[count + 2].enc, input)]
          /\ AsDecoder(trail[count + 2].enc, input).pos <= Len(input)
          /\ ~(AsDecoder(trail[count + 2].enc, input).pos > Len(input))
      BY <1>1, <1>8, <1>14, <2>2, <2>8, <3>1, BitRead
    <3> QED BY <2>5, <3>2
  <2>12. d.bit = bit /\ d.dec = AsDecoder(b.enc, input) /\ ~(d.dec.pos > Len(input))
    BY <2>11
  <2>13. CASE Goes
    <3>1. at' = at /\ GoesOn(bit, "decode")
      BY <2>12, <2>13
    <3>2. /\ got' = b.got /\ byte' = b.byte
          /\ \/ pc' = "decode" /\ b.pc = "encode" /\ Len(got') = Len(got) + 1
             \/ pc' = "decode_literal" /\ b.pc = "encode_literal" /\ got' = got
      <4> DEFINE whole == 2 * byte + bit
      <4>1. CASE whole >= Pow2(LitBits)
        <5>1. pc' = "decode" /\ got' = Append(got, whole - Pow2(LitBits)) /\ byte' = 1
          BY <3>1, <4>1 DEF GoesOn
        <5>2. b.pc = "encode" /\ b.got = Append(a.got, whole - Pow2(LitBits)) /\ b.byte = 1
          BY <2>3, <2>9, <4>1 DEF GoesTo
        <5>3. Len(got') = Len(got) + 1
          <6> HIDE DEF whole
          <6> QED BY <1>2, <5>1
        <5> QED BY <2>3, <5>1, <5>2, <5>3
      <4>2. CASE ~(whole >= Pow2(LitBits))
        <5>1. pc' = pc /\ got' = got /\ byte' = whole
          BY <3>1, <4>2 DEF GoesOn
        <5>2. b.pc = "encode_literal" /\ b.got = a.got /\ b.byte = whole
          BY <2>3, <2>9, <4>2 DEF GoesTo
        <5> QED BY <1>1, <2>3, <5>1, <5>2
      <4> QED BY <4>1, <4>2
    <3>3. Agree(is_match', literal_probs', b.probs)
      BY <1>1, <1>7, <2>10, <2>12
    <3>4. target' # NoSize => BelowTarget'
      <4>1. Len(got') \in Nat /\ (Len(got') = Len(got) + 1 \/ got' = got)
        BY <1>2, <3>2
      <4>2. CASE target = NoSize
        BY <1>11, <4>2
      <4>3. CASE target # NoSize
        <5>1. target \in Nat /\ Len(got) < target
          BY <1>2, <2>6, <4>3
        <5> QED BY <1>2, <1>11, <3>2, <4>1, <5>1 DEF BelowTarget
      <4> QED BY <4>2, <4>3
    <3>5. trail'[count' + 1] = b /\ count' + 1 \in 1..Len(trail')
      BY <1>11, <2>1, <2>3 DEF n
    <3>6. InStep'
      BY <1>6, <1>11, <2>3, <2>9, <2>12, <3>1, <3>2, <3>3, <3>4, <3>5 DEF InStep
    <3>7. /\ at' \in 0..MarkerLen /\ byte' \in 1..(Pow2(LitBits) - 1) /\ got' \in Seq(Literals)
          /\ \A i \in 1..Len(got') : got'[i] = IF i <= Len(text) THEN text[i] ELSE 0
      <4>1. /\ b.byte \in 1..(Pow2(LitBits) - 1) /\ b.got \in Seq(Literals) /\ Len(b.got) \in Nat
        BY <1>2, <2>3, TurnIs
      <4>2. Len(b.got) <= Len(text) /\ \A i \in 1..Len(b.got) : b.got[i] = text[i]
        BY <2>3 DEF Stand
      <4>3. \A i \in 1..Len(b.got) : b.got[i] = IF i <= Len(text) THEN text[i] ELSE 0
        BY <1>2, <4>1, <4>2
      <4> QED BY <1>4, <3>1, <3>2, <4>1, <4>3
    <3>8. pc' \in {"decode", "decode_literal", "decode_marker"}
      BY <3>2
    <3>9. Grids(is_match', literal_probs')
      BY <1>10, <2>8, <2>12
    <3> QED BY <1>1, <1>6, <1>13, <3>6, <3>7, <3>8, <3>9, DecoderGoesOn
  <2>14. CASE pc' = "failed" /\ UNCHANGED <<at, got, byte>>
    BY <1>1, <1>6, <1>10, <2>8, <2>12, <2>14, DecoderGivesUp
  <2> QED BY <1>6, <2>12, <2>13, <2>14
<1>15. CASE Beyond
  <2>1. /\ count >= Len(trail) /\ ~marker /\ Len(got) >= Len(text)
        /\ \E s \in Top..(Word - 1) : dec = [range |-> s, code |-> 0, pos |-> Len(input)]
        /\ target # NoSize /\ target > Len(text) /\ BelowTarget
        /\ \E k \in 0..(LitBits - 1) : byte = Pow2(k)
    BY <1>1, <1>15 DEF Beyond
  <2>2. Len(got) < target /\ target \in Nat
    BY <1>1, <1>2, <2>1 DEF BelowTarget
  <2>3. PICK s \in Top..(Word - 1) : dec = [range |-> s, code |-> 0, pos |-> Len(input)]
    BY <2>1
  <2>4. PICK k \in 0..(LitBits - 1) : byte = Pow2(k)
    BY <2>1
  <2> HIDE DEF prob
  <2>5. /\ Len(input) \in Nat /\ d.bit = 0
        /\ \E r2 \in Top..(Word - 1), p2 \in {Len(input), Len(input) + 1} :
              d.dec = [range |-> r2, code |-> 0, pos |-> p2]
    BY <1>1, <1>8, <2>3, BeyondRead
  <2>6. PICK r2 \in Top..(Word - 1), p2 \in {Len(input), Len(input) + 1} :
              d.dec = [range |-> r2, code |-> 0, pos |-> p2]
    BY <2>5
  <2> HIDE DEF d
  <2>7. Grids(is_match', literal_probs')
    BY <1>10, <2>5
  <2>8. CASE d.dec.pos <= Len(input) /\ Goes
    <3>1. at' = at /\ GoesOn(0, "decode")
      BY <2>5, <2>8
    <3>2. dec' = [range |-> r2, code |-> 0, pos |-> Len(input)]
      <4>1. p2 = Len(input)
        BY <2>5, <2>6, <2>8
      <4> QED BY <1>6, <2>6, <4>1
    <3>3. Pow2(k) \in 1..(Pow2(LitBits) - 1) /\ LitBits \in Nat /\ k \in Nat
      BY ZeroBits, SymbolAssumption
    <3>4. count' >= Len(trail)
      <4>1. Len(trail) \in Nat
        BY <1>11 DEF Written, Trail
      <4> QED BY <1>6, <1>13, <2>1, <4>1
    <3>5. CASE k = LitBits - 1
      <4>1. 2 * byte + 0 = Pow2(LitBits) /\ 2 * byte + 0 >= Pow2(LitBits)
            /\ (2 * byte + 0) - Pow2(LitBits) = 0
        <5>1. 2 * Pow2(k) = Pow2(LitBits)
          BY <3>5, ZeroBits
        <5> QED BY <1>4, <2>4, <3>3, <5>1
      <4>2. pc' = "decode" /\ got' = Append(got, 0) /\ byte' = 1
        BY <3>1, <4>1 DEF GoesOn
      <4>3. /\ Len(got') = Len(got) + 1 /\ got' \in Seq(Literals) /\ got'[Len(got) + 1] = 0
            /\ \A i \in 1..Len(got) : got'[i] = got[i]
        BY <1>2, <1>4, <4>2
      <4>4. \A i \in 1..Len(got') : got'[i] = IF i <= Len(text) THEN text[i] ELSE 0
        <5> TAKE i \in 1..Len(got')
        <5>1. i \in 1..Len(got) \/ (i = Len(got) + 1 /\ ~(i <= Len(text)))
          BY <1>2, <2>1, <4>3
        <5> QED BY <1>2, <4>3, <5>1
      <4>5. BelowTarget' /\ Len(got') >= Len(text)
        BY <1>2, <1>11, <2>1, <2>2, <4>2, <4>3 DEF BelowTarget
      <4>6. Beyond'
        BY <1>11, <2>1, <3>2, <3>4, <4>2, <4>5 DEF Beyond
      <4> QED BY <1>1, <1>4, <1>6, <1>13, <2>7, <3>1, <4>2, <4>3, <4>4, <4>6, DecoderGoesOn
    <3>6. CASE k < LitBits - 1
      <4>1. 2 * byte + 0 = Pow2(k + 1) /\ ~(2 * byte + 0 >= Pow2(LitBits))
        <5>1. 2 * Pow2(k) = Pow2(k + 1) /\ 2 * Pow2(k) < Pow2(LitBits)
          BY <3>6, ZeroBits
        <5> QED BY <1>4, <2>4, <3>3, <5>1
      <4>2. pc' = "decode_literal" /\ got' = got /\ byte' = Pow2(k + 1)
        BY <1>1, <3>1, <4>1 DEF GoesOn
      <4>3. k + 1 \in 0..(LitBits - 1)
        BY <3>3, <3>6
      <4>4. Pow2(k + 1) \in 1..(Pow2(LitBits) - 1)
        BY <4>3, ZeroBits
      <4>5. BelowTarget'
        BY <1>2, <1>11, <2>2, <4>2 DEF BelowTarget
      <4>6. Beyond'
        BY <1>11, <2>1, <3>2, <3>4, <4>2, <4>3, <4>5 DEF Beyond
      <4> QED BY <1>1, <1>2, <1>4, <1>6, <1>13, <2>7, <3>1, <4>2, <4>4, <4>6, DecoderGoesOn
    <3> QED BY <3>3, <3>5, <3>6
  <2>9. CASE (pc' = "lost" \/ pc' = "failed") /\ UNCHANGED <<at, got, byte>>
    BY <1>1, <1>6, <2>1, <2>7, <2>9, DecoderGivesUp
  <2> QED BY <1>6, <2>8, <2>9
<1> QED BY <1>12, <1>14, <1>15

\* A bit of the end marker.
LEMMA DecodeMarkerHolds == ASSUME IndInv, DecodeMarker PROVE IndInv'
<1>1. /\ pc = "decode_marker" /\ is_match' = is_match /\ literal_probs' = literal_probs
      /\ Decoding /\ pc \in DecoderPcs
  BY DEF DecodeMarker, Decoding, DecoderPcs
<1>2. /\ text \in Texts /\ text \in Seq(Literals) /\ Len(text) \in Nat /\ marker \in BOOLEAN
      /\ got \in Seq(Literals) /\ Len(got) \in Nat
      /\ NoSize \notin Nat /\ (target = NoSize \/ target \in Nat) /\ MarkerLen \in Nat
      /\ \A i \in 1..Len(got) : got[i] = IF i <= Len(text) THEN text[i] ELSE 0
  BY Known
<1> DEFINE d == IF Direct(at) THEN get_bit(dec, input) ELSE decode_bit(dec, Half, input)
           lost == \/ d.bit # MarkerBit(at)
                   \/ at = MarkerLen /\ ~is_finished_ok(d.dec, input)
                   \/ at = MarkerLen /\ target \notin {NoSize, Len(got)}
           Goes == /\ IF lost THEN pc' = "lost" /\ UNCHANGED at
                      ELSE IF at = MarkerLen THEN pc' = "done" /\ at' = 0
                      ELSE at' = at + 1 /\ UNCHANGED pc
                   /\ UNCHANGED <<got, byte>>
<1>3. /\ dec' = d.dec /\ count' = count + 1 /\ Kept
      /\ \/ d.dec.pos <= Len(input) /\ Goes
         \/ d.dec.pos > Len(input) /\ pc' = "lost" /\ UNCHANGED <<at, got, byte>>
         \/ pc' = "failed" /\ UNCHANGED <<at, got, byte>>
  BY DEF DecodeMarker, Reads, Kept
<1>4. /\ text' = text /\ options' = options /\ trail' = trail /\ target' = target
      /\ marker' = marker /\ input' = input
      /\ Written(text, marker, trail, input) /\ Grids(is_match, literal_probs) /\ Basics
  BY <1>1, <1>3, KeptIs
<1>5. Grids(is_match', literal_probs')
  BY <1>1, <1>4
<1>6. InStep
  BY <1>1 DEF IndInv, DecoderInv, Decoding, Beyond
<1>7. count \in Nat /\ count' \in Nat
  BY <1>1, <1>3 DEF IndInv, DecoderInv, Decoding
<1> DEFINE n == count + 1
           a == trail[n]
           b == trail[n + 1]
<1>8. n + 1 = count + 2 /\ count' + 1 = n + 1
  BY <1>3, <1>7
<1>9. count + 1 < Len(trail)
  BY <1>1, <1>6, InStepIs
<1>10. /\ n \in 1..Len(trail) /\ n + 1 \in 1..Len(trail) /\ n < Len(trail)
       /\ Stand(text, marker, a) /\ Stand(text, marker, b) /\ Linked(text, marker, a, b)
       /\ dec = AsDecoder(a.enc, input) /\ got = a.got /\ byte = a.byte /\ at = a.at
       /\ (target # NoSize => BelowTarget) /\ a.pc = "encode_marker"
  BY <1>1, <1>6, <1>8, <1>9, InStepIs
<1>11. b = trail[count + 2] /\ a = trail[count + 1]
  BY <1>8
<1>12. target # NoSize => Len(got) < target
  BY <1>1, <1>10 DEF BelowTarget
<1> HIDE DEF n
<1>13. LinkMarker(a, b)
  BY <1>10 DEF Linked, LinkIsMatch, LinkLiteral, LinkStart
<1>14. /\ marker /\ got = text /\ byte = 1 /\ at # 0 /\ MarkerRange(a.enc.range, at)
       /\ at \in 0..MarkerLen /\ a.enc.range \in Top..(Word - 1)
  <2>1. a.at \in 0..MarkerLen /\ a.enc.range \in Top..(Word - 1)
    BY <1>2, <1>10, TurnIs
  <2> QED BY <1>10, <2>1 DEF Stand
<1>15. Half \in Usable /\ MarkerBit(at) \in {0, 1}
  BY Probabilities DEF MarkerBit
<1>16. /\ d = [bit |-> MarkerBit(at), dec |-> AsDecoder(b.enc, input)]
       /\ ~(AsDecoder(b.enc, input).pos > Len(input))
  <2>1. trail[count + 2].enc = encode_bit(trail[count + 1].enc, Half, MarkerBit(at))
    BY <1>10, <1>11, <1>13 DEF LinkMarker
  <2>2. /\ decode_bit(dec, Half, input) = [bit |-> MarkerBit(at), dec |-> AsDecoder(trail[count + 2].enc, input)]
        /\ Half = Half /\ trail[count + 1].enc.range = 2 * Bound(trail[count + 1].enc.range, Half) =>
              get_bit(dec, input) = [bit |-> MarkerBit(at), dec |-> AsDecoder(trail[count + 2].enc, input)]
        /\ ~(AsDecoder(trail[count + 2].enc, input).pos > Len(input))
    BY <1>1, <1>6, <1>9, <1>15, <2>1, BitRead
  <2>3. ASSUME Direct(at) PROVE a.enc.range = 2 * Bound(a.enc.range, Half)
    <3>1. at > Zeros + SlotBits /\ at \in Nat
      BY <1>2, <1>14, <2>3 DEF Direct
    <3> QED BY <1>14, <3>1, DirectExact
  <2> QED BY <1>11, <2>2, <2>3
<1>17. d.bit = MarkerBit(at) /\ d.dec = AsDecoder(b.enc, input) /\ ~(d.dec.pos > Len(input))
  BY <1>16
<1> HIDE DEF d
<1>18. b.got = got /\ b.byte = byte
  BY <1>10, <1>13 DEF LinkMarker
<1>19. CASE pc' = "failed" /\ UNCHANGED <<at, got, byte>>
  BY <1>1, <1>3, <1>5, <1>19, DecoderGivesUp
<1>20. CASE Goes /\ at # MarkerLen
  <2>1. pc' = pc /\ at' = at + 1 /\ got' = got /\ byte' = byte
    BY <1>17, <1>20
  <2>2. b.pc = "encode_marker" /\ b.at = at + 1
    BY <1>10, <1>13, <1>20 DEF LinkMarker
  <2>3. target' # NoSize => BelowTarget'
    BY <1>2, <1>4, <1>10, <1>12, <2>1 DEF BelowTarget
  <2>4. trail'[count' + 1] = b /\ count' + 1 \in 1..Len(trail')
    BY <1>4, <1>8, <1>10
  <2>5. InStep'
    BY <1>1, <1>3, <1>4, <1>17, <1>18, <2>1, <2>2, <2>3, <2>4 DEF InStep
  <2>6. /\ at' \in 0..MarkerLen /\ byte' \in 1..(Pow2(LitBits) - 1) /\ got' \in Seq(Literals)
        /\ \A i \in 1..Len(got') : got'[i] = IF i <= Len(text) THEN text[i] ELSE 0
    <3>1. at' \in 0..MarkerLen
      BY <1>2, <1>14, <1>20, <2>1
    <3> QED BY <1>2, <1>4, <2>1, <3>1 DEF Basics
  <2>7. pc' \in {"decode", "decode_literal", "decode_marker"}
    BY <1>1, <2>1
  <2> QED BY <1>1, <1>3, <1>5, <1>7, <2>5, <2>6, <2>7, DecoderGoesOn
<1>21. CASE Goes /\ at = MarkerLen
  <2>1. b.pc = "flush"
    BY <1>10, <1>13, <1>21 DEF LinkMarker
  <2>2. n + 1 = Len(trail)
    BY <1>2, <1>4, <1>10, <2>1, LastTurn
  <2>3. Code(b.enc, input) = 0 /\ Position(b.enc) = Len(input)
    BY <1>2, <1>4, <1>10, <2>2, TurnAfter
  <2>4. is_finished_ok(d.dec, input)
    BY <1>17, <2>3 DEF is_finished_ok, AsDecoder
  <2>5. got' = got /\ byte' = byte
    BY <1>21
  <2>6. CASE target = NoSize
    <3>1. pc' = "done" /\ at' = 0
      BY <1>17, <1>21, <2>4, <2>6
    <3>2. RoundTrip'
      <4>1. \A i \in 1..Len(got') : got'[i] = IF i <= Len(text') THEN text'[i] ELSE 0
        BY <1>2, <1>4, <2>5
      <4>2. \A i \in (Len(got') + 1)..Len(text') : text'[i] = 0
        BY <1>2, <1>4, <1>14, <2>5
      <4>3. target' = NoSize
        BY <1>4, <2>6
      <4>4. Faithful'
        BY <3>1, <4>1, <4>2, <4>3 DEF Faithful
      <4>5. got' = text' /\ is_finished_ok(dec', input')
        BY <1>3, <1>4, <1>14, <2>4, <2>5
      <4>6. Returned'
        BY <3>1, <4>5 DEF Returned
      <4> QED BY <4>4, <4>6 DEF RoundTrip
    <3>3. pc' \in DecoderPcs \ {"ready"} /\ ~Decoding'
      BY <3>1 DEF DecoderPcs, Decoding
    <3>4. at' \in 0..MarkerLen /\ byte' \in 1..(Pow2(LitBits) - 1) /\ got' \in Seq(Literals)
      BY <1>2, <1>4, <2>5, <3>1 DEF Basics
    <3> QED BY <1>1, <1>3, <1>5, <3>2, <3>3, <3>4, DecoderKeeps
  <2>7. CASE target # NoSize
    <3>1. target # Len(got) /\ target > Len(text)
      BY <1>2, <1>12, <1>14, <2>7
    <3>2. pc' = "lost" /\ at' = at
      BY <1>21, <2>7, <3>1
    <3> QED BY <1>1, <1>3, <1>5, <2>5, <2>7, <3>1, <3>2, DecoderGivesUp
  <2> QED BY <2>6, <2>7
<1> QED BY <1>3, <1>17, <1>19, <1>20, <1>21

-----------------------------------------------------------------------------
(* The invariants *)

\* A step that changes nothing.
LEMMA StutterHolds == ASSUME IndInv, UNCHANGED vars PROVE IndInv'
<1>1. /\ text' = text /\ options' = options /\ header' = header /\ enc' = enc /\ probs' = probs
      /\ trail' = trail /\ params' = params /\ target' = target /\ dec' = dec
      /\ is_match' = is_match /\ literal_probs' = literal_probs /\ count' = count
      /\ pc' = pc /\ at' = at /\ got' = got /\ byte' = byte
  BY DEF vars, encvars, decvars
<1>2. marker' = marker /\ input' = input /\ Now' = Now
  BY <1>1 DEF marker, input, Now
<1>3. Basics'
  BY <1>1 DEF IndInv, Basics
<1>4. EncoderInv'
  BY <1>1, <1>2 DEF IndInv, EncoderInv, AtStart, NoDecoder
<1>5. WrittenInv'
  BY <1>1, <1>2 DEF IndInv, WrittenInv, AtStart
<1>6. DecoderInv'
  <2>1. InStep => InStep'
    BY <1>1, <1>2 DEF InStep, BelowTarget
  <2>2. Beyond => Beyond'
    BY <1>1, <1>2 DEF Beyond, BelowTarget
  <2> QED BY <1>1, <2>1, <2>2 DEF IndInv, DecoderInv, AtStart, Decoding
<1>7. RoundTrip'
  BY <1>1, <1>2 DEF IndInv, RoundTrip, Returned, Faithful, SizeKnown
<1> QED BY <1>3, <1>4, <1>5, <1>6, <1>7 DEF IndInv

\* Every step keeps what the invariant says.
LEMMA StepHolds == ASSUME IndInv, [Next]_vars PROVE IndInv'
<1>1. CASE EncodeHeader
  BY <1>1, HeaderHolds
<1>2. CASE EncodeIsMatch \/ EncodeLiteral \/ EncodeMarkerStart \/ EncodeMarker
  BY <1>2, EncodesHolds
<1>3. CASE Flush
  BY <1>3, FlushHolds
<1>4. CASE EncoderFails
  BY <1>4, FailsHolds
<1>5. CASE ReadHeader
  BY <1>5, ReadHeaderHolds
<1>6. CASE Reset
  BY <1>6, ResetHolds
<1>7. CASE Decompress
  BY <1>7, DecompressHolds
<1>8. CASE DecoderStops
  BY <1>8, StopsHolds
<1>9. CASE DecodeIsMatch
  BY <1>9, DecodeIsMatchHolds
<1>10. CASE DecodeLiteral
  BY <1>10, DecodeLiteralHolds
<1>11. CASE DecodeMarker
  BY <1>11, DecodeMarkerHolds
<1>12. CASE UNCHANGED vars
  BY <1>12, StutterHolds
<1> QED BY <1>1, <1>2, <1>3, <1>4, <1>5, <1>6, <1>7, <1>8, <1>9, <1>10, <1>11, <1>12 DEF Next

\* Every probability of the decoder is one a bit can have.
LEMMA DecoderUsable ==
    ASSUME IndInv
    PROVE  /\ \A i \in DOMAIN is_match : is_match[i] \in Usable
           /\ \A i \in DOMAIN literal_probs.data : literal_probs.data[i] \in Usable
<1>1. pc \in DecoderPcs \/ NoDecoder
  BY DEF IndInv, EncoderInv
<1>2. CASE pc \in DecoderPcs
  <2>1. Grids(is_match, literal_probs)
    BY <1>2 DEF IndInv, DecoderInv
  <2>2. PICK data \in [LiteralPlaces -> Usable] :
           literal_probs = [data |-> data, cols |-> LiteralCols]
    BY <2>1 DEF Grids
  <2>3. literal_probs.data = data
    BY <2>2
  <2> QED BY <2>1, <2>3 DEF Grids
<1>3. CASE NoDecoder
  <2>1. Half \in Usable
    BY Probabilities
  <2> QED BY <1>3, <2>1 DEF NoDecoder, NewIsMatch, NewLiterals, Grid
<1> QED BY <1>1, <1>2, <1>3

\* The decoder's range, code and place in the input.
LEMMA DecoderIs ==
    ASSUME IndInv, Decoding
    PROVE  /\ dec.range \in Top..(Word - 1) /\ dec.code \in 0..(dec.range - 1)
           /\ count \in Nat /\ Len(trail) \in Nat
<1>1. InStep \/ Beyond
  BY DEF IndInv, DecoderInv
<1>2. pc \in DecoderPcs
  BY DEF Decoding, DecoderPcs
<1>3. count \in Nat /\ Written(text, marker, trail, input)
  BY <1>2 DEF IndInv, DecoderInv, WrittenInv
<1>4. Len(trail) \in Nat
  BY <1>3 DEF Written, Trail
<1>5. CASE InStep
  <2>1. Stand(text, marker, trail[count + 1]) /\ dec = AsDecoder(trail[count + 1].enc, input)
        /\ count + 1 \in 1..Len(trail)
    BY <1>5, InStepIs
  <2>2. text \in Texts /\ marker \in BOOLEAN
    BY Known
  <2> DEFINE a == trail[count + 1]
  <2>3. a.enc.range \in Top..(Word - 1)
    BY <2>1, <2>2, TurnIs
  <2>4. Inside(a.enc, input)
    <3> DEFINE n == count + 1
    <3>1. n \in 1..Len(trail)
      BY <2>1
    <3> HIDE DEF n, a
    <3>2. Inside(trail[n].enc, input)
      BY <1>3, <2>2, <3>1, TurnAfter
    <3> QED BY <3>2 DEF n, a
  <2> HIDE DEF a
  <2>5. dec.range = a.enc.range /\ dec.code = Code(a.enc, input)
    BY <2>1 DEF AsDecoder, a
  <2> QED BY <1>3, <1>4, <2>3, <2>4, <2>5 DEF Inside
<1>6. CASE Beyond
  <2>1. PICK r \in Top..(Word - 1) : dec = [range |-> r, code |-> 0, pos |-> Len(input)]
    BY <1>6 DEF Beyond
  <2>2. dec.range = r /\ dec.code = 0 /\ Top \in Nat /\ Word \in Nat /\ Top >= 1
    BY <2>1, Widths
  <2> QED BY <1>3, <1>4, <2>1, <2>2
<1> QED BY <1>1, <1>5, <1>6

\* No bit is certain, and the range is never too small.
LEMMA TypeHolds == ASSUME IndInv PROVE TypeOK
<1>1. Basics
  BY DEF IndInv
<1>2. Usable \subseteq 1..(ProbTotal - 1)
  BY Probabilities
<1>3. /\ enc.low \in 0..(2 * Word - 1) /\ enc.cache \in 0..(Base - 1) /\ enc.cachesz > 0
      /\ enc.range \in Top..(Word - 1)
  <2>1. /\ enc.low \in Nat /\ enc.cache \in 0..(Base - 1) /\ enc.cachesz \in Nat \ {0}
        /\ enc.low < 2 * Word /\ enc.range \in Top..(Word - 1)
    BY <1>1 DEF Basics, EncoderState
  <2> QED BY <2>1, Widths
<1>4. \A c \in Cells : probs[c] \in 1..(ProbTotal - 1)
  BY <1>1, <1>2 DEF Basics
<1>5. /\ \A i \in DOMAIN is_match : is_match[i] \in 1..(ProbTotal - 1)
      /\ \A i \in DOMAIN literal_probs.data : literal_probs.data[i] \in 1..(ProbTotal - 1)
  BY <1>2, DecoderUsable
<1>6. Decoding => dec.range \in Top..(Word - 1)
  BY DecoderIs
<1>7. /\ byte \in 1..(Pow2(LitBits) - 1) /\ at \in 0..MarkerLen
      /\ target \in {NoSize, Len(text)} \cup Sizes
  BY <1>1 DEF Basics
<1> QED BY <1>3, <1>4, <1>5, <1>6, <1>7 DEF TypeOK

\* There is room for a carry.
LEMMA CarryHolds == ASSUME IndInv PROVE CarryFits
<1> SUFFICES ASSUME Encoding, enc.cache = Base - 1 PROVE enc.low + enc.range <= Word
  BY DEF CarryFits
<1>1. Trail(text, marker, trail) /\ trail[Len(trail)] = Now
  BY DEF IndInv, EncoderInv, Encoding, EncoderPcs
<1>2. Stand(text, marker, Now)
  <2>1. trail \in Seq(Turns) /\ trail # <<>>
    BY <1>1 DEF Trail
  <2>2. Len(trail) \in 1..Len(trail)
    BY <2>1
  <2>3. Stand(text, marker, trail[Len(trail)])
    BY <1>1, <2>2 DEF Trail
  <2> QED BY <1>1, <2>3
<1>3. Now.enc = enc
  BY NowIs
<1>4. Fits(enc.low, enc.range, enc.cache)
  BY <1>2, <1>3 DEF Stand
<1> QED BY <1>4 DEF Fits

\* The decoder is in step.
LEMMA InStepHolds == ASSUME IndInv PROVE DecoderInStep
<1> SUFFICES ASSUME Decoding
             PROVE  /\ dec.code < dec.range
                    /\ count < Len(trail) =>
                         /\ dec.range = trail[count + 1].enc.range
                         /\ dec.pos = Len(trail[count + 1].enc.out) + trail[count + 1].enc.cachesz + WordBytes
                         /\ <<got, byte, at>> = <<trail[count + 1].got, trail[count + 1].byte, trail[count + 1].at>>
                         /\ pc # "decode_marker" => \A c \in Cells : ProbAt(c) = trail[count + 1].probs[c]
  BY DEF DecoderInStep
<1>1. dec.code < dec.range /\ count \in Nat /\ Len(trail) \in Nat
  <2>1. dec.range \in Top..(Word - 1) /\ dec.code \in 0..(dec.range - 1) /\ count \in Nat /\ Len(trail) \in Nat
    BY DecoderIs
  <2>2. Top \in Nat /\ Word \in Nat
    BY Widths
  <2> QED BY <2>1, <2>2
<1> SUFFICES ASSUME count < Len(trail)
             PROVE  /\ dec.range = trail[count + 1].enc.range
                    /\ dec.pos = Len(trail[count + 1].enc.out) + trail[count + 1].enc.cachesz + WordBytes
                    /\ <<got, byte, at>> = <<trail[count + 1].got, trail[count + 1].byte, trail[count + 1].at>>
                    /\ pc # "decode_marker" => \A c \in Cells : ProbAt(c) = trail[count + 1].probs[c]
  BY <1>1
<1>2. InStep
  BY <1>1 DEF IndInv, DecoderInv, Beyond
<1>3. /\ dec = AsDecoder(trail[count + 1].enc, input)
      /\ got = trail[count + 1].got /\ byte = trail[count + 1].byte /\ at = trail[count + 1].at
      /\ pc # "decode_marker" => Agree(is_match, literal_probs, trail[count + 1].probs)
  BY <1>2 DEF InStep
<1>4. /\ dec.range = trail[count + 1].enc.range
      /\ dec.pos = Len(trail[count + 1].enc.out) + trail[count + 1].enc.cachesz + WordBytes
  BY <1>3 DEF AsDecoder, Position
<1>5. ASSUME pc # "decode_marker"
      PROVE  \A c \in Cells : ProbAt(c) = trail[count + 1].probs[c]
  BY <1>3, <1>5 DEF Agree, CellOf, ProbAt
<1> QED BY <1>3, <1>4, <1>5

-----------------------------------------------------------------------------
(* The theorems *)

\* Every state of the specification is one the inductive invariant describes.
THEOREM InvariantHolds == Spec => []IndInv
<1>1. Init => IndInv
  BY InitHolds
<1>2. IndInv /\ [Next]_vars => IndInv'
  BY StepHolds
<1> QED BY <1>1, <1>2, PTL DEF Spec

\* No probability of either side ever becomes 0 or certain, and neither range
\* is ever too small for a bit (RangeEncoder and RangeDecoder, for all widths).
THEOREM TypeCorrect == Spec => []TypeOK
<1>1. IndInv => TypeOK
  BY TypeHolds
<1> QED BY <1>1, InvariantHolds, PTL

\* Whenever the first byte that waits is 0xFF, no carry can come any more, so
\* that write_low never adds one to a byte that is already written.
THEOREM CarryAlwaysFits == Spec => []CarryFits
<1>1. IndInv => CarryFits
  BY CarryHolds
<1> QED BY <1>1, InvariantHolds, PTL

\* Bit by bit the decoder is where the encoder was: the same range, the same
\* probabilities, the same place in the bytes; the direct bits of the end marker
\* (get_bit) are those that the encoder coded with a probability of one half.
THEOREM DecoderAlwaysInStep == Spec => []DecoderInStep
<1>1. IndInv => DecoderInStep
  BY InStepHolds
<1> QED BY <1>1, InvariantHolds, PTL

\* What dumbencoder writes, LzmaDecoder gives back: with the right size or an
\* end marker the text and nothing else, and with any other size nothing but
\* the text, or the text and zeros behind its end; in the first call and after
\* a reset.
THEOREM EncodedIsDecoded == Spec => []RoundTrip
<1>1. IndInv => RoundTrip
  BY DEF IndInv
<1> QED BY <1>1, InvariantHolds, PTL

=============================================================================
