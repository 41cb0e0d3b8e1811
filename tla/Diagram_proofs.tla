--------------------------- MODULE Diagram_proofs ---------------------------
(***************************************************************************)
(* What a voice plays is what its diagram says: Instance's PlaysItsDiagram *)
(* for every set of well-formed blueprints of registered nodes, every      *)
(* block size, and any number of cycles and settings of ports.  First what *)
(* the nodes with a memory do to a signal that comes block by block, then  *)
(* the voice.                                                              *)
(***************************************************************************)
EXTENDS Instance_proofs

-----------------------------------------------------------------------------
(* The transform and its inverse.                                           *)

Complex == Int \X Int

LEMMA Roots ==
  /\ \A n \in {2, 4} : \A inv \in BOOLEAN : F!Twiddle(0, n, inv) = <<1, 0>>
  /\ F!Twiddle(1, 4, TRUE) = <<0, 1>> /\ F!Twiddle(1, 4, FALSE) = <<0, -1>>
<1>1. 4 \div 2 = 2 /\ 4 \div 4 = 1 /\ (0 * 2) % 4 = 0 /\ (0 * 1) % 4 = 0 /\ (1 * 1) % 4 = 1  OBVIOUS
<1>2. F!Cos(0, 2) = 1 /\ F!Sin(0, 2) = 0  BY <1>1 DEF F!Cos, F!Sin
<1>3. F!Cos(0, 4) = 1 /\ F!Sin(0, 4) = 0  BY <1>1 DEF F!Cos, F!Sin
<1>4. F!Cos(1, 4) = 0 /\ F!Sin(1, 4) = 1  BY <1>1 DEF F!Cos, F!Sin
<1>5. QED  BY <1>2, <1>3, <1>4 DEF F!Twiddle

\* Products with the roots there are.
LEMMA Turn ==
  ASSUME NEW z \in Complex
  PROVE  /\ F!Product(<<1, 0>>, z) = z
         /\ F!Product(<<0, 1>>, z) = <<-z[2], z[1]>> /\ F!Product(<<0, -1>>, z) = <<z[2], -z[1]>>
BY DEF F!Product, Complex

\* The passes, butterfly by butterfly.
LEMMA PassOfTwo ==
  ASSUME NEW z \in [0..1 -> Complex], NEW inv \in BOOLEAN
  PROVE  F!Pass(z, 2, 2, inv) = [i \in 0..1 |-> IF i = 0 THEN F!Sum(z[0], z[1]) ELSE F!Difference(z[0], z[1])]
<1>1. 2 \div 2 = 1 /\ 0 % 2 = 0 /\ 1 % 2 = 1 /\ (1 % 1) * 1 = 0 /\ 2 - 1 = 1  OBVIOUS
<1>2. F!Product(F!Twiddle(0, 2, inv), z[1]) = z[1]
  <2>1. F!Twiddle(0, 2, inv) = <<1, 0>>  BY Roots
  <2>2. QED  BY <2>1, Turn
<1>3. \A i \in 0..1 : i = 0 \/ i = 1  OBVIOUS
<1>4. QED  BY <1>1, <1>2, <1>3 DEF F!Pass

LEMMA PassOfFour ==
  ASSUME NEW z \in [0..3 -> Complex], NEW inv \in BOOLEAN
  PROVE  /\ F!Pass(z, 4, 2, inv) =
              [i \in 0..3 |-> CASE i = 0 -> F!Sum(z[0], z[1]) [] i = 1 -> F!Difference(z[0], z[1])
                                [] i = 2 -> F!Sum(z[2], z[3]) [] OTHER -> F!Difference(z[2], z[3])]
         /\ LET w == IF inv THEN <<-z[3][2], z[3][1]>> ELSE <<z[3][2], -z[3][1]>> IN
            F!Pass(z, 4, 4, inv) =
              [i \in 0..3 |-> CASE i = 0 -> F!Sum(z[0], z[2]) [] i = 1 -> F!Sum(z[1], w)
                                [] i = 2 -> F!Difference(z[0], z[2]) [] OTHER -> F!Difference(z[1], w)]
<1>1. \A i \in 0..3 : i = 0 \/ i = 1 \/ i = 2 \/ i = 3  OBVIOUS
<1>2. \A b \in 0..3 : F!Product(F!Twiddle(0, 4, inv), z[b]) = z[b]
  <2>1. F!Twiddle(0, 4, inv) = <<1, 0>>  BY Roots
  <2>2. QED  BY <2>1, Turn
<1> DEFINE w == IF inv THEN <<-z[3][2], z[3][1]>> ELSE <<z[3][2], -z[3][1]>>
<1>3. F!Product(F!Twiddle(1, 4, inv), z[3]) = w
  <2>1. F!Twiddle(1, 4, inv) = IF inv THEN <<0, 1>> ELSE <<0, -1>>
    <3>1. inv = TRUE \/ inv = FALSE  OBVIOUS
    <3>2. QED  BY <3>1, Roots
  <2>2. z[3] \in Complex  OBVIOUS
  <2>3. QED  BY <2>1, <2>2, Turn
<1> HIDE DEF w
<1>4. F!Pass(z, 4, 2, inv) =
              [i \in 0..3 |-> CASE i = 0 -> F!Sum(z[0], z[1]) [] i = 1 -> F!Difference(z[0], z[1])
                                [] i = 2 -> F!Sum(z[2], z[3]) [] OTHER -> F!Difference(z[2], z[3])]
  <2>1. 2 \div 2 = 1 /\ 4 \div 2 = 2 /\ 0 % 2 = 0 /\ 1 % 2 = 1 /\ 2 % 2 = 0 /\ 3 % 2 = 1
        /\ (1 % 1) * 2 = 0 /\ (3 % 1) * 2 = 0 /\ 1 - 1 = 0 /\ 3 - 1 = 2 /\ 0 + 1 = 1 /\ 2 + 1 = 3
    OBVIOUS
  <2>2. QED  BY <1>1, <1>2, <2>1 DEF F!Pass
<1>5. F!Pass(z, 4, 4, inv) =
              [i \in 0..3 |-> CASE i = 0 -> F!Sum(z[0], z[2]) [] i = 1 -> F!Sum(z[1], w)
                                [] i = 2 -> F!Difference(z[0], z[2]) [] OTHER -> F!Difference(z[1], w)]
  <2>1. 4 \div 2 = 2 /\ 4 \div 4 = 1 /\ 0 % 4 = 0 /\ 1 % 4 = 1 /\ 2 % 4 = 2 /\ 3 % 4 = 3
        /\ (2 % 2) * 1 = 0 /\ (3 % 2) * 1 = 1 /\ 2 - 2 = 0 /\ 3 - 2 = 1 /\ 0 + 2 = 2 /\ 1 + 2 = 3
    OBVIOUS
  <2>2. QED  BY <1>1, <1>2, <1>3, <2>1 DEF F!Pass
<1>6. QED  BY <1>4, <1>5 DEF w

LEMMA Complexes ==
  ASSUME NEW a \in Complex, NEW b \in Complex
  PROVE  /\ F!Sum(a, b) \in Complex /\ F!Difference(a, b) \in Complex
         /\ F!Sum(a, b)[1] = a[1] + b[1] /\ F!Sum(a, b)[2] = a[2] + b[2]
         /\ F!Difference(a, b)[1] = a[1] - b[1] /\ F!Difference(a, b)[2] = a[2] - b[2]
         /\ a = <<a[1], a[2]>> /\ a[1] \in Int /\ a[2] \in Int
BY DEF F!Sum, F!Difference, Complex

LEMMA Pairs == ASSUME NEW a \in Complex PROVE \E x \in Int, y \in Int : a = <<x, y>>
BY DEF Complex

LEMMA TransformOfTwo ==
  ASSUME NEW z \in [0..1 -> Complex]
  PROVE  /\ F!Transform(z, 2, FALSE) = [i \in 0..1 |-> IF i = 0 THEN F!Sum(z[0], z[1]) ELSE F!Difference(z[0], z[1])]
         /\ F!Transform(z, 2, TRUE) =
              [i \in 0..1 |-> LET y == IF i = 0 THEN F!Sum(z[0], z[1]) ELSE F!Difference(z[0], z[1]) IN
                              <<y[1] \div 2, y[2] \div 2>>]
<1>1. [i \in 0..(2 - 1) |-> z[F!Brev(i, 2)]] = z /\ 0..(2 - 1) = 0..1
  BY DEF F!Brev
<1>2. \A inv \in BOOLEAN : F!Transform(z, 2, inv) = F!Scaled(F!Pass(z, 2, 2, inv), 2, inv)
  BY <1>1 DEF F!Transform
<1>3. \A inv \in BOOLEAN : F!Pass(z, 2, 2, inv) =
        [i \in 0..1 |-> IF i = 0 THEN F!Sum(z[0], z[1]) ELSE F!Difference(z[0], z[1])]
  BY PassOfTwo
<1>4. F!Transform(z, 2, FALSE) = F!Pass(z, 2, 2, FALSE)  BY <1>2 DEF F!Scaled
<1>5. F!Transform(z, 2, TRUE) =
        [i \in 0..1 |-> <<F!Pass(z, 2, 2, TRUE)[i][1] \div 2, F!Pass(z, 2, 2, TRUE)[i][2] \div 2>>]
  BY <1>1, <1>2 DEF F!Scaled
<1>6. QED  BY <1>3, <1>4, <1>5

\* What is transformed and turned back is what it was.
LEMMA TwoTurnBack ==
  ASSUME NEW z \in [0..1 -> Complex]
  PROVE  /\ F!Transform(z, 2, FALSE) \in [0..1 -> Complex]
         /\ F!Transform(F!Transform(z, 2, FALSE), 2, TRUE) = z
<1> DEFINE y == F!Transform(z, 2, FALSE)
<1>1. z[0] \in Complex /\ z[1] \in Complex  OBVIOUS
<1>2. y = [i \in 0..1 |-> IF i = 0 THEN F!Sum(z[0], z[1]) ELSE F!Difference(z[0], z[1])]
  BY TransformOfTwo
<1> HIDE DEF y
<1>3. y \in [0..1 -> Complex] /\ y[0] = F!Sum(z[0], z[1]) /\ y[1] = F!Difference(z[0], z[1])
  <2>1. y[0] = F!Sum(z[0], z[1]) /\ y[1] = F!Difference(z[0], z[1])  BY <1>2
  <2>2. y[0] \in Complex /\ y[1] \in Complex  BY <1>1, <2>1, Complexes
  <2>3. y = [i \in 0..1 |-> y[i]] /\ \A i \in 0..1 : i = 0 \/ i = 1  BY <1>2
  <2>4. y \in [0..1 -> Complex]  BY <2>2, <2>3
  <2>5. QED  BY <2>1, <2>4
<1>4. F!Transform(y, 2, TRUE) =
         [i \in 0..1 |-> LET x == IF i = 0 THEN F!Sum(y[0], y[1]) ELSE F!Difference(y[0], y[1]) IN
                              <<x[1] \div 2, x[2] \div 2>>]
  BY <1>3, TransformOfTwo
<1>5. \A a \in Int : (a + a) \div 2 = a  OBVIOUS
<1>6. ASSUME NEW a \in Complex, NEW b \in Complex, NEW s, NEW d, s = F!Sum(a, b), d = F!Difference(a, b)
      PROVE  /\ <<F!Sum(s, d)[1] \div 2, F!Sum(s, d)[2] \div 2>> = a
             /\ <<F!Difference(s, d)[1] \div 2, F!Difference(s, d)[2] \div 2>> = b
  <2>1. s \in Complex /\ d \in Complex  BY <1>6, Complexes
  <2>2. /\ F!Sum(s, d)[1] = (a[1] + b[1]) + (a[1] - b[1]) /\ F!Sum(s, d)[2] = (a[2] + b[2]) + (a[2] - b[2])
        /\ F!Difference(s, d)[1] = (a[1] + b[1]) - (a[1] - b[1])
        /\ F!Difference(s, d)[2] = (a[2] + b[2]) - (a[2] - b[2])
    BY <1>6, <2>1, Complexes
  <2>3. \A p, q \in Int : (p + q) + (p - q) = p + p /\ (p + q) - (p - q) = q + q  OBVIOUS
  <2>4. a[1] \in Int /\ a[2] \in Int /\ b[1] \in Int /\ b[2] \in Int /\ a = <<a[1], a[2]>> /\ b = <<b[1], b[2]>>
    BY Complexes
  <2>5. QED  BY <2>2, <2>3, <2>4, <1>5
<1>7. F!Transform(y, 2, TRUE) = [i \in 0..1 |-> IF i = 0 THEN z[0] ELSE z[1]]
  <2>1. /\ <<F!Sum(y[0], y[1])[1] \div 2, F!Sum(y[0], y[1])[2] \div 2>> = z[0]
        /\ <<F!Difference(y[0], y[1])[1] \div 2, F!Difference(y[0], y[1])[2] \div 2>> = z[1]
    BY <1>1, <1>3, <1>6
  <2>2. QED  BY <2>1, <1>4
<1>8. z = [i \in 0..1 |-> IF i = 0 THEN z[0] ELSE z[1]]
  <2>1. \A i \in 0..1 : i = 0 \/ i = 1  OBVIOUS
  <2>2. QED  BY <2>1
<1>9. QED  BY <1>3, <1>7, <1>8 DEF y

Butterflies(z, inv) ==
  LET p == F!Sum(z[0], z[2])
      q == F!Difference(z[0], z[2])
      r == F!Sum(z[1], z[3])
      s == F!Difference(z[1], z[3])
      w == IF inv THEN <<-s[2], s[1]>> ELSE <<s[2], -s[1]>>
  IN [i \in 0..3 |-> CASE i = 0 -> F!Sum(p, r) [] i = 1 -> F!Sum(q, w)
                       [] i = 2 -> F!Difference(p, r) [] OTHER -> F!Difference(q, w)]

LEMMA TransformOfFour ==
  ASSUME NEW z \in [0..3 -> Complex], NEW inv \in BOOLEAN
  PROVE  F!Transform(z, 4, inv) = F!Scaled(Butterflies(z, inv), 4, inv)
<1> DEFINE x == [i \in 0..3 |-> z[F!Brev(i, 4)]]
           y == F!Pass(x, 4, 2, inv)
<1>1. \A i \in 0..3 : i = 0 \/ i = 1 \/ i = 2 \/ i = 3  OBVIOUS
<1>2. F!Brev(0, 4) = 0 /\ F!Brev(1, 4) = 2 /\ F!Brev(2, 4) = 1 /\ F!Brev(3, 4) = 3
  BY DEF F!Brev
<1>3. x \in [0..3 -> Complex] /\ x[0] = z[0] /\ x[1] = z[2] /\ x[2] = z[1] /\ x[3] = z[3]
  BY <1>1, <1>2
<1>4. F!Transform(z, 4, inv) = F!Scaled(F!Pass(y, 4, 4, inv), 4, inv)
  <2>1. 0..(4 - 1) = 0..3  OBVIOUS
  <2>2. QED  BY <2>1 DEF F!Transform
<1> HIDE DEF x
<1>5. y = [i \in 0..3 |-> CASE i = 0 -> F!Sum(x[0], x[1]) [] i = 1 -> F!Difference(x[0], x[1])
                            [] i = 2 -> F!Sum(x[2], x[3]) [] OTHER -> F!Difference(x[2], x[3])]
  BY <1>3, PassOfFour
<1> HIDE DEF y
<1>6. /\ y[0] = F!Sum(z[0], z[2]) /\ y[1] = F!Difference(z[0], z[2])
      /\ y[2] = F!Sum(z[1], z[3]) /\ y[3] = F!Difference(z[1], z[3])
  BY <1>3, <1>5
<1>7. y \in [0..3 -> Complex] /\ y[3] \in Complex
  <2>1. z[0] \in Complex /\ z[1] \in Complex /\ z[2] \in Complex /\ z[3] \in Complex  OBVIOUS
  <2>2. y[0] \in Complex /\ y[1] \in Complex /\ y[2] \in Complex /\ y[3] \in Complex
    BY <2>1, <1>6, Complexes
  <2>3. y = [i \in 0..3 |-> y[i]]  BY <1>5
  <2>4. QED  BY <2>2, <2>3, <1>1
<1> DEFINE w == IF inv THEN <<-y[3][2], y[3][1]>> ELSE <<y[3][2], -y[3][1]>>
<1>8. F!Pass(y, 4, 4, inv) =
        [i \in 0..3 |-> CASE i = 0 -> F!Sum(y[0], y[2]) [] i = 1 -> F!Sum(y[1], w)
                          [] i = 2 -> F!Difference(y[0], y[2]) [] OTHER -> F!Difference(y[1], w)]
  BY <1>7, PassOfFour
<1>9. F!Pass(y, 4, 4, inv) = Butterflies(z, inv)  BY <1>6, <1>8 DEF Butterflies
<1>10. QED  BY <1>4, <1>9

LEMMA Quarter == \A a \in Int : (4 * a) \div 4 = a
OBVIOUS

LEMMA FourTurnBack ==
  ASSUME NEW z \in [0..3 -> Complex]
  PROVE  /\ F!Transform(z, 4, FALSE) \in [0..3 -> Complex]
         /\ F!Transform(F!Transform(z, 4, FALSE), 4, TRUE) = z
<1> DEFINE p == F!Sum(z[0], z[2])
           q == F!Difference(z[0], z[2])
           r == F!Sum(z[1], z[3])
           s == F!Difference(z[1], z[3])
           w == <<s[2], -s[1]>>
           y == F!Transform(z, 4, FALSE)
<1>1. \A i \in 0..3 : i = 0 \/ i = 1 \/ i = 2 \/ i = 3  OBVIOUS
<1>2. z[0] \in Complex /\ z[1] \in Complex /\ z[2] \in Complex /\ z[3] \in Complex  OBVIOUS
<1>3. p \in Complex /\ q \in Complex /\ r \in Complex /\ s \in Complex  BY <1>2, Complexes
<1>4. w \in Complex  BY <1>3 DEF Complex
<1>5. y = [i \in 0..3 |-> CASE i = 0 -> F!Sum(p, r) [] i = 1 -> F!Sum(q, w)
                            [] i = 2 -> F!Difference(p, r) [] OTHER -> F!Difference(q, w)]
  <2>1. y = Butterflies(z, FALSE)  BY TransformOfFour DEF F!Scaled
  <2>2. QED  BY <2>1 DEF Butterflies
<1> HIDE DEF y
<1>6. /\ y[0] = F!Sum(p, r) /\ y[1] = F!Sum(q, w) /\ y[2] = F!Difference(p, r) /\ y[3] = F!Difference(q, w)
      /\ y[0] \in Complex /\ y[1] \in Complex /\ y[2] \in Complex /\ y[3] \in Complex
      /\ y \in [0..3 -> Complex]
  <2>1. /\ y[0] = F!Sum(p, r) /\ y[1] = F!Sum(q, w) /\ y[2] = F!Difference(p, r) /\ y[3] = F!Difference(q, w)
    BY <1>5
  <2>2. y[0] \in Complex /\ y[1] \in Complex /\ y[2] \in Complex /\ y[3] \in Complex
    BY <2>1, <1>3, <1>4, Complexes
  <2>3. y = [i \in 0..3 |-> y[i]]  BY <1>5
  <2>4. QED  BY <2>1, <2>2, <2>3, <1>1
\* Turned back, each is four times what it was.
<1> DEFINE p2 == F!Sum(y[0], y[2])
           q2 == F!Difference(y[0], y[2])
           r2 == F!Sum(y[1], y[3])
           s2 == F!Difference(y[1], y[3])
           w2 == <<-s2[2], s2[1]>>
           four == [i \in 0..3 |-> CASE i = 0 -> F!Sum(p2, r2) [] i = 1 -> F!Sum(q2, w2)
                                     [] i = 2 -> F!Difference(p2, r2) [] OTHER -> F!Difference(q2, w2)]
<1>7. F!Transform(y, 4, TRUE) = F!Scaled(four, 4, TRUE)
  <2>1. F!Transform(y, 4, TRUE) = F!Scaled(Butterflies(y, TRUE), 4, TRUE)  BY <1>6, TransformOfFour
  <2>2. Butterflies(y, TRUE) = four  BY DEF Butterflies
  <2>3. QED  BY <2>1, <2>2
<1>8. p2 \in Complex /\ q2 \in Complex /\ r2 \in Complex /\ s2 \in Complex /\ w2 \in Complex
  <2>1. p2 \in Complex /\ q2 \in Complex /\ r2 \in Complex /\ s2 \in Complex  BY <1>6, Complexes
  <2>2. QED  BY <2>1 DEF Complex
<1>9. \A i \in 0..3 : four[i][1] = 4 * z[i][1] /\ four[i][2] = 4 * z[i][2]
  <2>11. PICK a1 \in Int, a2 \in Int : z[0] = <<a1, a2>>  BY <1>2, Pairs
  <2>12. PICK b1 \in Int, b2 \in Int : z[1] = <<b1, b2>>  BY <1>2, Pairs
  <2>13. PICK c1 \in Int, c2 \in Int : z[2] = <<c1, c2>>  BY <1>2, Pairs
  <2>14. PICK d1 \in Int, d2 \in Int : z[3] = <<d1, d2>>  BY <1>2, Pairs
  <2>1. z[0] = <<a1, a2>> /\ z[1] = <<b1, b2>> /\ z[2] = <<c1, c2>> /\ z[3] = <<d1, d2>>
    BY <2>11, <2>12, <2>13, <2>14
  <2>2. /\ p = <<a1 + c1, a2 + c2>> /\ q = <<a1 - c1, a2 - c2>>
        /\ r = <<b1 + d1, b2 + d2>> /\ s = <<b1 - d1, b2 - d2>>
    BY <2>1 DEF F!Sum, F!Difference
  <2>3. w = <<b2 - d2, -(b1 - d1)>>  BY <2>2
  <2>4. /\ y[0] = <<(a1 + c1) + (b1 + d1), (a2 + c2) + (b2 + d2)>>
        /\ y[1] = <<(a1 - c1) + (b2 - d2), (a2 - c2) + (-(b1 - d1))>>
        /\ y[2] = <<(a1 + c1) - (b1 + d1), (a2 + c2) - (b2 + d2)>>
        /\ y[3] = <<(a1 - c1) - (b2 - d2), (a2 - c2) - (-(b1 - d1))>>
    BY <1>6, <2>2, <2>3 DEF F!Sum, F!Difference
  <2> HIDE DEF p, q, r, s, w
  <2>5. /\ p2 = <<2 * (a1 + c1), 2 * (a2 + c2)>> /\ q2 = <<2 * (b1 + d1), 2 * (b2 + d2)>>
        /\ r2 = <<2 * (a1 - c1), 2 * (a2 - c2)>> /\ s2 = <<2 * (b2 - d2), 2 * (-(b1 - d1))>>
    BY <2>4 DEF F!Sum, F!Difference
  <2>6. w2 = <<2 * (b1 - d1), 2 * (b2 - d2)>>  BY <2>5
  <2> HIDE DEF p2, q2, r2, s2, w2
  <2>7. /\ four[0] = <<4 * a1, 4 * a2>> /\ four[1] = <<4 * b1, 4 * b2>>
        /\ four[2] = <<4 * c1, 4 * c2>> /\ four[3] = <<4 * d1, 4 * d2>>
    BY <2>5, <2>6 DEF F!Sum, F!Difference
  <2>8. QED  BY <2>1, <2>7, <1>1
<1> HIDE DEF four
<1>10. F!Transform(y, 4, TRUE) = [i \in 0..3 |-> <<z[i][1], z[i][2]>>]
  <2>1. F!Scaled(four, 4, TRUE) = [i \in 0..3 |-> <<four[i][1] \div 4, four[i][2] \div 4>>]
    <3>1. 0..(4 - 1) = 0..3  OBVIOUS
    <3>2. QED  BY <3>1 DEF F!Scaled
  <2>2. \A i \in 0..3 : z[i][1] \in Int /\ z[i][2] \in Int  BY <1>2, Complexes
  <2>3. QED  BY ZenonT(30), <1>7, <1>9, <2>1, <2>2, Quarter
<1>11. \A i \in 0..3 : <<z[i][1], z[i][2]>> = z[i]  BY <1>2, Complexes
<1>12. F!Transform(y, 4, TRUE) = z  BY <1>10, <1>11
<1>13. QED  BY <1>6, <1>12 DEF y

LEMMA TurnsBack ==
  ASSUME NEW n \in F!Sizes, NEW z \in [0..(n - 1) -> Complex]
  PROVE  /\ F!Transform(z, n, FALSE) \in [0..(n - 1) -> Complex]
         /\ F!Transform(F!Transform(z, n, FALSE), n, TRUE) = z
<1>1. CASE n = 2
  <2>1. 0..(n - 1) = 0..1  BY <1>1
  <2>2. z \in [0..1 -> Complex]  BY <2>1
  <2>3. QED  BY <2>1, <2>2, <1>1, TwoTurnBack
<1>2. CASE n = 4
  <2>1. 0..(n - 1) = 0..3  BY <1>2
  <2>2. z \in [0..3 -> Complex]  BY <2>1
  <2>3. QED  BY <2>1, <2>2, <1>2, FourTurnBack
<1>3. QED  BY <1>1, <1>2 DEF F!Sizes

-----------------------------------------------------------------------------
(* ola_stft: what it has kept, and what it gives out.                        *)

\* The window, and that its two halves add up to one.
LEMMA Windows ==
  ASSUME NEW n \in F!Sizes, NEW x \in Int
  PROVE  /\ \A i \in 0..(n - 1) : F!Windowed(x, i, n) \in Int
         /\ (\E a \in Int : x = 2 * a) => \A i \in 0..((n \div 2) - 1) :
              F!Windowed(x, i, n) + F!Windowed(x, i + (n \div 2), n) = x
<1>1. CASE n = 2
  <2>1. F!Cos(0, n) = 1 /\ F!Cos(1, n) = -1
    <3>1. 4 \div 2 = 2 /\ (0 * 2) % 4 = 0 /\ (1 * 2) % 4 = 2  OBVIOUS
    <3>2. QED  BY <3>1, <1>1 DEF F!Cos
  <2>2. (x * (1 - 1)) \div 2 = 0 /\ (x * (1 - (-1))) \div 2 = x  OBVIOUS
  <2>3. F!Windowed(x, 0, n) = 0 /\ F!Windowed(x, 1, n) = x  BY <2>1, <2>2 DEF F!Windowed
  <2>4. \A i \in 0..(n - 1) : i = 0 \/ i = 1  BY <1>1
  <2>5. n \div 2 = 1 /\ \A i \in 0..(1 - 1) : i = 0 /\ i + 1 = 1  BY <1>1
  <2>6. QED  BY <2>3, <2>4, <2>5
<1>2. CASE n = 4
  <2>1. F!Cos(0, n) = 1 /\ F!Cos(1, n) = 0 /\ F!Cos(2, n) = -1 /\ F!Cos(3, n) = 0
    <3>1. 4 \div 4 = 1 /\ (0 * 1) % 4 = 0 /\ (1 * 1) % 4 = 1 /\ (2 * 1) % 4 = 2 /\ (3 * 1) % 4 = 3  OBVIOUS
    <3>2. QED  BY <3>1, <1>2 DEF F!Cos
  <2>2. /\ (x * (1 - 1)) \div 2 = 0 /\ (x * (1 - (-1))) \div 2 = x /\ (x * (1 - 0)) \div 2 = x \div 2
        /\ x \div 2 \in Int
    OBVIOUS
  <2>3. /\ F!Windowed(x, 0, n) = 0 /\ F!Windowed(x, 1, n) = x \div 2
        /\ F!Windowed(x, 2, n) = x /\ F!Windowed(x, 3, n) = x \div 2
    BY <2>1, <2>2 DEF F!Windowed
  <2>4. \A i \in 0..(n - 1) : i = 0 \/ i = 1 \/ i = 2 \/ i = 3  BY <1>2
  <2>5. n \div 2 = 2 /\ \A i \in 0..(2 - 1) : (i = 0 /\ i + 2 = 2) \/ (i = 1 /\ i + 2 = 3)  BY <1>2
  <2>6. (\E a \in Int : x = 2 * a) => (x \div 2) + (x \div 2) = x  OBVIOUS
  <2>7. QED  BY <2>2, <2>3, <2>4, <2>5, <2>6
<1>3. QED  BY <1>1, <1>2 DEF F!Sizes

\* The parts of p in terms of its place in the frames.
Halves(x, p, n, h, i, a, b) ==
  /\ i < h /\ n = 2 * h /\ h = n \div 2 /\ i = p % h
  /\ p >= 0 => a = F!Windowed(x[p], i, n) /\ b = F!Windowed(x[p], i + h, n)
  /\ \A u \in Int : Content(x, p, u, n) =
       (IF 0 <= p - i /\ p - i <= u - n THEN a ELSE 0)
       + (IF 0 <= p - (i + h) /\ p - (i + h) <= u - n THEN b ELSE 0)

LEMMA Contents ==
  ASSUME NEW n \in F!Sizes, NEW x \in [Nat -> Int], NEW p \in Int, NEW t \in Int
  PROVE  \E h \in {1, 2}, i \in {0, 1}, a \in Int, b \in Int :
           Halves(x, p, n, h, i, a, b)
<1>1. PICK h \in {1, 2} : n = 2 * h /\ h = n \div 2
  <2>1. 2 = 2 * 1 /\ 1 = 2 \div 2 /\ 4 = 2 * 2 /\ 2 = 4 \div 2  OBVIOUS
  <2>2. QED  BY <2>1 DEF F!Sizes
<1>2. PICK i \in {0, 1} : i < h /\ i = p % h
  <2>1. CASE h = 1  BY <2>1
  <2>2. CASE h = 2  BY <2>2
  <2>3. QED  BY <2>1, <2>2
<1>3. i \in 0..(n - 1) /\ i + h \in 0..(n - 1)  BY <1>1, <1>2
<1>4. PICK a \in Int, b \in Int :
        p >= 0 => a = F!Windowed(x[p], i, n) /\ b = F!Windowed(x[p], i + h, n)
  <2>1. CASE p >= 0
    <3>1. x[p] \in Int  BY <2>1
    <3>2. QED  BY <3>1, <1>3, Windows
  <2>2. CASE ~(p >= 0)  BY <2>2
  <2>3. QED  BY <2>1, <2>2
<1>5. ASSUME NEW u \in Int
      PROVE  Content(x, p, u, n) =
                (IF 0 <= p - i /\ p - i <= u - n THEN a ELSE 0)
                + (IF 0 <= p - (i + h) /\ p - (i + h) <= u - n THEN b ELSE 0)
  <2>1. Content(x, p, u, n) = Part(x, p, u, i, n) + Part(x, p, u, i + h, n)
    BY <1>1, <1>2 DEF Content
  <2>2. Part(x, p, u, i, n) = (IF 0 <= p - i /\ p - i <= u - n THEN a ELSE 0)
    <3>1. 0 <= p - i => p >= 0  BY <1>2
    <3>2. QED  BY <3>1, <1>4 DEF Part
  <2>3. Part(x, p, u, i + h, n) = (IF 0 <= p - (i + h) /\ p - (i + h) <= u - n THEN b ELSE 0)
    <3>1. 0 <= p - (i + h) => p >= 0  BY <1>1, <1>2
    <3>2. QED  BY <3>1, <1>4 DEF Part
  <2>4. QED  BY <2>1, <2>2, <2>3
<1>6. Halves(x, p, n, h, i, a, b)  BY <1>1, <1>2, <1>4, <1>5 DEF Halves
<1>7. QED  BY <1>6

\* One more sample completes at most one more frame.
LEMMA ContentGrows ==
  ASSUME NEW n \in F!Sizes, NEW x \in [Nat -> Int], NEW t \in Nat, NEW f \in Int, f = t - (n - 1),
         NEW p \in f..(t + n)
  PROVE  /\ Content(x, p, t, n) \in Int
         /\ f >= 0 /\ f % (n \div 2) = 0 /\ p - f < n =>
              Content(x, p, t + 1, n) = Content(x, p, t, n) + F!Windowed(x[p], p - f, n)
         /\ ~(f >= 0 /\ f % (n \div 2) = 0 /\ p - f < n) =>
              Content(x, p, t + 1, n) = Content(x, p, t, n)
<1>1. n \in Int /\ p \in Int /\ t \in Int /\ t + 1 \in Int  BY DEF F!Sizes
<1>2. PICK h \in {1, 2}, i \in {0, 1}, a \in Int, b \in Int :
           Halves(x, p, n, h, i, a, b)
  BY <1>1, Contents
<1> USE DEF Halves
<1>3. PICK c \in Int, d \in Int : c = Content(x, p, t, n) /\ d = Content(x, p, t + 1, n)
  <2>1. ASSUME NEW u \in Int PROVE Content(x, p, u, n) \in Int
    <3>1. Content(x, p, u, n) =
            (IF 0 <= p - i /\ p - i <= u - n THEN a ELSE 0)
            + (IF 0 <= p - (i + h) /\ p - (i + h) <= u - n THEN b ELSE 0)
      BY <1>2
    <3>2. QED  BY <3>1
  <2>2. QED  BY <2>1, <1>1
<1>4. /\ c = (IF 0 <= p - i /\ p - i <= t - n THEN a ELSE 0)
             + (IF 0 <= p - (i + h) /\ p - (i + h) <= t - n THEN b ELSE 0)
      /\ d = (IF 0 <= p - i /\ p - i <= (t + 1) - n THEN a ELSE 0)
             + (IF 0 <= p - (i + h) /\ p - (i + h) <= (t + 1) - n THEN b ELSE 0)
  BY <1>1, <1>2, <1>3
<1>5. /\ (f >= 0 /\ f % h = 0 /\ p - f < n) =>
           p >= 0 /\ ((p - f = i /\ d = c + a) \/ (p - f = i + h /\ d = c + b))
      /\ ~(f >= 0 /\ f % h = 0 /\ p - f < n) => d = c
  <2>1. CASE h = 1
    <3>1. i = 0 /\ n = 2 /\ f % 1 = 0  BY <1>2, <2>1
    <3>2. QED  BY <3>1, <2>1, <1>1, <1>4
  <2>2. CASE h = 2
    <3>1. n = 4 /\ i = p % 2 /\ h = 2  BY <1>2, <2>2
    <3>2. QED  BY <3>1, <1>1, <1>4
  <2>3. QED  BY <2>1, <2>2
<1>6. QED  BY <1>2, <1>3, <1>5

\* What ola_stft gives out for sample t.
Late(x, t, n) == IF t >= n - 1 THEN Content(x, t - (n - 1), t + 1, n) ELSE 0

LEMMA LateIsTheInput ==
  ASSUME NEW n \in F!Sizes, NEW x \in [Nat -> Int], \A t \in Nat : \E a \in Int : x[t] = 2 * a, NEW t \in Nat
  PROVE  /\ t < n - 1 => Late(x, t, n) = 0
         /\ t >= (n - 1) + (n \div 2) => Late(x, t, n) = x[t - (n - 1)]
<1>1. t < n - 1 => Late(x, t, n) = 0  BY DEF Late, F!Sizes
<1>2. ASSUME t >= (n - 1) + (n \div 2) PROVE Late(x, t, n) = x[t - (n - 1)]
  <2>1. PICK p \in Nat : p = t - (n - 1) /\ p >= n \div 2
    <3>1. CASE n = 2  BY <3>1, <1>2
    <3>2. CASE n = 4  BY <3>2, <1>2
    <3>3. QED  BY <3>1, <3>2 DEF F!Sizes
  <2>2. PICK h \in {1, 2}, i \in {0, 1}, a \in Int, b \in Int : Halves(x, p, n, h, i, a, b)
    BY Contents
  <2>3. i < h /\ n = 2 * h /\ h = n \div 2 /\ i = p % h /\ a = F!Windowed(x[p], i, n)
        /\ b = F!Windowed(x[p], i + h, n)
    BY <2>2 DEF Halves
  <2>4. Content(x, p, t + 1, n) = (IF 0 <= p - i /\ p - i <= (t + 1) - n THEN a ELSE 0)
                + (IF 0 <= p - (i + h) /\ p - (i + h) <= (t + 1) - n THEN b ELSE 0)
    <3>1. t + 1 \in Int  OBVIOUS
    <3>2. QED  BY <3>1, <2>2 DEF Halves
  <2>5. 0 <= p - i /\ p - i <= (t + 1) - n /\ 0 <= p - (i + h) /\ p - (i + h) <= (t + 1) - n
    <3>1. CASE h = 1  BY <3>1, <2>1, <2>3
    <3>2. CASE h = 2  BY <3>2, <2>1, <2>3
    <3>3. QED  BY <3>1, <3>2
  <2>6. a + b = x[p]
    <3>1. x[p] \in Int /\ \E c \in Int : x[p] = 2 * c /\ i \in 0..((n \div 2) - 1)  BY <2>3
    <3>2. F!Windowed(x[p], i, n) + F!Windowed(x[p], i + (n \div 2), n) = x[p]  BY <3>1, Windows
    <3>3. QED  BY <3>2, <2>3
  <2>7. t >= n - 1  BY <2>1 DEF F!Sizes
  <2>8. QED  BY <2>1, <2>4, <2>5, <2>6, <2>7 DEF Late
<1>3. QED  BY <1>1, <1>2

\* Places in a ring.
LEMMA RingSlot == ASSUME NEW m \in {2, 4, 8}, NEW p \in Int PROVE p % m \in 0..(m - 1)
<1>1. CASE m = 2  BY <1>1
<1>2. CASE m = 4  BY <1>2
<1>3. CASE m = 8  BY <1>3
<1>4. QED  BY <1>1, <1>2, <1>3

LEMMA RingPlace ==
  ASSUME NEW m \in {2, 4, 8}, NEW p \in Int, NEW q \in Int, p - q \in 0..(m - 1)
  PROVE  ((p % m) - q) % m = p - q
<1>1. CASE m = 2  BY <1>1
<1>2. CASE m = 4  BY <1>2
<1>3. CASE m = 8  BY <1>3
<1>4. QED  BY <1>1, <1>2, <1>3

LEMMA RingApart ==
  ASSUME NEW m \in {2, 4, 8}, NEW p \in Int, NEW q \in Int, p # q, p - q \in -(m - 1)..(m - 1)
  PROVE  p % m # q % m
<1>1. CASE m = 2  BY <1>1
<1>2. CASE m = 4  BY <1>2
<1>3. CASE m = 8  BY <1>3
<1>4. QED  BY <1>1, <1>2, <1>3

LEMMA StftStep ==
  ASSUME NEW n \in F!Sizes, NEW x \in [Nat -> Int], NEW t \in Nat, NEW s, Overlapping(s, x, t, n),
         NEW g, g = F!Given(F!Heard(s, x[t], n), n)
  PROVE  Overlapping(g.s, x, t + 1, n) /\ g.x = Late(x, t, n)
<1> DEFINE start == t - (n - 1)
           u == [s EXCEPT !.in_ring[t % n] = x[t]]
           v == F!Heard(s, x[t], n)
           starts == start >= 0 /\ start % (n \div 2) = 0
           At(r) == (r - start) % (2 * n)
<1>1. n \in Nat \ {0} /\ n \in {2, 4, 8} /\ 2 * n \in {2, 4, 8} /\ start \in Int /\ n >= 2  BY DEF F!Sizes
<1>2. /\ s.t = t /\ s = [t |-> s.t, in_ring |-> s.in_ring, ola |-> s.ola]
      /\ DOMAIN s.in_ring = 0..(n - 1) /\ DOMAIN s.ola = 0..(2 * n - 1)
      /\ \A p \in (t - n)..(t - 1) : p >= 0 => s.in_ring[p % n] = x[p]
      /\ \A p \in start..(t + n) : s.ola[p % (2 * n)] = Content(x, p, t, n)
  <2>1. start = t - n + 1  BY <1>1
  <2>2. QED  BY <2>1 DEF Overlapping
<1>3. u = [t |-> t, in_ring |-> [s.in_ring EXCEPT ![t % n] = x[t]], ola |-> s.ola]
  <2>1. PICK a, b : s = [t |-> t, in_ring |-> a, ola |-> b]  BY <1>2
  <2>2. [[t |-> t, in_ring |-> a, ola |-> b] EXCEPT !.in_ring[t % n] = x[t]]
          = [t |-> t, in_ring |-> [a EXCEPT ![t % n] = x[t]], ola |-> b]
    OBVIOUS
  <2>3. s.in_ring = a /\ s.ola = b  BY <2>1
  <2>4. QED  BY <2>1, <2>2, <2>3
<1>4. u.t = t /\ u.in_ring = [s.in_ring EXCEPT ![t % n] = x[t]] /\ u.ola = s.ola /\ DOMAIN u.in_ring = 0..(n - 1)
  BY <1>2, <1>3
<1> HIDE DEF start, u
<1>5. ASSUME NEW p \in start..t, p >= 0 PROVE u.in_ring[p % n] = x[p]
  <2>1. start = t - (n - 1)  BY DEF start
  <2>2. CASE p = t
    <3>1. t % n \in 0..(n - 1)  BY <1>1, RingSlot
    <3>2. QED  BY <3>1, <2>2, <1>2, <1>4
  <2>3. CASE p # t
    <3>1. p \in (t - n)..(t - 1) /\ p - t \in -(n - 1)..(n - 1)  BY <2>1, <2>3, <1>1, <1>5
    <3>2. p % n # t % n
      <4>1. p \in Int /\ t \in Int /\ n \in {2, 4, 8}  BY <3>1, <1>1
      <4>2. QED  BY <4>1, <3>1, <2>3, RingApart
    <3>3. s.in_ring[p % n] = x[p]  BY <3>1, <1>2, <1>5
    <3>4. p % n \in 0..(n - 1)  BY <1>1, RingSlot
    <3>5. QED  BY <3>2, <3>3, <3>4, <1>2, <1>4
  <2>4. QED  BY <2>2, <2>3
\* The frame that begins at start, windowed.
<1>6. ASSUME start >= 0
      PROVE  \A i \in 0..(n - 1) : F!Frame(u, start, n)[i][1] = F!Windowed(x[start + i], i, n)
  <2> DEFINE z == [i \in 0..(n - 1) |-> F!Real(F!Windowed(u.in_ring[(start + i) % n], i, n))]
  <2>1. ASSUME NEW i \in 0..(n - 1)
        PROVE  /\ u.in_ring[(start + i) % n] = x[start + i]
               /\ F!Windowed(x[start + i], i, n) \in Int
    <3>1. start + i \in start..t /\ start + i \in Nat  BY <1>1, <1>6 DEF start
    <3>2. u.in_ring[(start + i) % n] = x[start + i]  BY <3>1, <1>5, <1>6
    <3>3. x[start + i] \in Int  BY <3>1
    <3>4. QED  BY <3>2, <3>3, Windows
  <2>2. \A i \in 0..(n - 1) : z[i] = <<F!Windowed(x[start + i], i, n), 0>>  BY <2>1 DEF F!Real
  <2>3. z \in [0..(n - 1) -> Complex]
    <3>1. \A i \in 0..(n - 1) : z[i] \in Complex  BY <2>1, <2>2 DEF Complex
    <3>2. z = [i \in 0..(n - 1) |-> z[i]]  OBVIOUS
    <3> HIDE DEF z
    <3>3. QED  BY <3>1, <3>2
  <2>4. F!Frame(u, start, n) = F!Transform(F!Transform(z, n, FALSE), n, TRUE)  BY DEF F!Frame
  <2> HIDE DEF z
  <2>5. F!Frame(u, start, n) = z  BY <2>3, <2>4, TurnsBack
  <2>6. QED  BY <2>2, <2>5
<1>7. v = IF starts THEN F!Overlap(u, start, n, F!Frame(u, start, n)) ELSE u
  <2>1. s.t - (n - 1) = start  BY <1>2 DEF start
  <2>2. [s EXCEPT !.in_ring[s.t % n] = x[t]] = u  BY <1>2 DEF u
  <2>3. QED  BY <2>1, <2>2 DEF F!Heard
<1>8. \A p \in start..(t + n) : p % (2 * n) \in 0..(2 * n - 1) /\ At(p % (2 * n)) = p - start
  <2> SUFFICES ASSUME NEW p \in start..(t + n)
               PROVE  p % (2 * n) \in 0..(2 * n - 1) /\ At(p % (2 * n)) = p - start
    OBVIOUS
  <2>1. p - start \in 0..(2 * n - 1) /\ p \in Int  BY <1>1 DEF start
  <2>2. PICK m \in {2, 4, 8} : m = 2 * n  BY <1>1
  <2>3. p % m \in 0..(m - 1)  BY <2>1, RingSlot
  <2>4. ((p % m) - start) % m = p - start
    <3>1. p - start \in 0..(m - 1)  BY <2>1, <2>2
    <3>2. QED  BY <3>1, <2>1, <1>1, RingPlace
  <2>5. QED  BY <2>2, <2>3, <2>4
<1>9. /\ v = [t |-> t, in_ring |-> u.in_ring, ola |-> v.ola] /\ DOMAIN v.ola = 0..(2 * n - 1)
      /\ \A p \in start..(t + n) : v.ola[p % (2 * n)] = Content(x, p, t + 1, n)
  <2>1. CASE starts
    <3> DEFINE y == F!Frame(u, start, n)
    <3>1. v = [u EXCEPT !.ola = [r \in DOMAIN @ |-> IF At(r) < n THEN @[r] + y[At(r)][1] ELSE @[r]]]
      BY <2>1, <1>7 DEF F!Overlap
    <3>2. v.ola = [r \in 0..(2 * n - 1) |-> IF At(r) < n THEN s.ola[r] + y[At(r)][1] ELSE s.ola[r]]
      BY <3>1, <1>2, <1>3, <1>4
    <3>3. v = [t |-> t, in_ring |-> u.in_ring, ola |-> v.ola]  BY <3>1, <1>3
    <3> HIDE DEF y, v
    <3>4. ASSUME NEW p \in start..(t + n) PROVE v.ola[p % (2 * n)] = Content(x, p, t + 1, n)
      <4>1. /\ At(p % (2 * n)) = p - start /\ p % (2 * n) \in 0..(2 * n - 1)
            /\ s.ola[p % (2 * n)] = Content(x, p, t, n)
        BY <1>2, <1>8
      <4>2. CASE p - start < n
        <5>1. p - start \in 0..(n - 1) /\ start + (p - start) = p  BY <4>2, <1>1
        <5>2. y[p - start][1] = F!Windowed(x[p], p - start, n)  BY <5>1, <2>1, <1>6 DEF y
        <5>3. v.ola[p % (2 * n)] = Content(x, p, t, n) + F!Windowed(x[p], p - start, n)
          BY <4>1, <4>2, <5>2, <3>2
        <5>4. QED  BY <5>3, <4>2, <2>1, <1>1, ContentGrows DEF start
      <4>3. CASE ~(p - start < n)
        <5>1. v.ola[p % (2 * n)] = Content(x, p, t, n)  BY <4>1, <4>3, <3>2
        <5>2. QED  BY <5>1, <4>3, <2>1, <1>1, ContentGrows DEF start
      <4>4. QED  BY <4>2, <4>3
    <3>5. QED  BY <3>2, <3>3, <3>4
  <2>2. CASE ~starts
    <3>1. v = u  BY <2>2, <1>7
    <3> HIDE DEF v
    <3>2. \A p \in start..(t + n) : Content(x, p, t + 1, n) = Content(x, p, t, n)
      BY <2>2, <1>1, ContentGrows DEF start
    <3>3. QED  BY <3>1, <3>2, <1>2, <1>3, <1>4
  <2>3. QED  BY <2>1, <2>2
<1> HIDE DEF v
<1>10. g = IF start >= 0
             THEN [s |-> [v EXCEPT !.ola[start % (2 * n)] = 0, !.t = @ + 1], x |-> v.ola[start % (2 * n)]]
             ELSE [s |-> [v EXCEPT !.t = @ + 1], x |-> 0]
  <2>1. v.t - (n - 1) = start  BY <1>9 DEF start
  <2>2. g = F!Given(v, n)  BY DEF v
  <2>3. QED  BY <2>1, <2>2 DEF F!Given
<1>11. g.x = Late(x, t, n)
  <2>1. start \in start..(t + n) /\ (start >= 0 <=> t >= n - 1) /\ start = t - (n - 1)  BY <1>1 DEF start
  <2>2. QED  BY <2>1, <1>9, <1>10 DEF Late
\* The slot given out is free for the sample after the last.
<1>12. Content(x, t + n + 1, t + 1, n) = 0 /\ (start < 0 => Content(x, start, t + 1, n) = 0)
       /\ (t + n + 1) % (2 * n) = start % (2 * n)
  <2>1. (t + n + 1) % (2 * n) = start % (2 * n)
    <3>1. t + n + 1 = start + 2 * n  BY <1>1 DEF start
    <3>2. QED  BY <3>1, <1>1
  <2>2. PICK p \in Int, q \in Int, w \in Int : p = t + n + 1 /\ q = start /\ w = t + 1  BY <1>1
  <2>3. Content(x, p, w, n) = 0
    <3>1. PICK h \in {1, 2}, i \in {0, 1}, a \in Int, b \in Int : Halves(x, p, n, h, i, a, b)  BY Contents
    <3>2. i < h /\ n = 2 * h
          /\ Content(x, p, w, n) = (IF 0 <= p - i /\ p - i <= w - n THEN a ELSE 0)
                + (IF 0 <= p - (i + h) /\ p - (i + h) <= w - n THEN b ELSE 0)
      BY <3>1 DEF Halves
    <3>3. ~(p - i <= w - n) /\ ~(p - (i + h) <= w - n)  BY <3>2, <2>2
    <3>4. QED  BY <3>2, <3>3
  <2>4. ASSUME q < 0 PROVE Content(x, q, w, n) = 0
    <3>1. PICK h \in {1, 2}, i \in {0, 1}, a \in Int, b \in Int : Halves(x, q, n, h, i, a, b)  BY Contents
    <3>2. i < h /\ n = 2 * h
          /\ Content(x, q, w, n) = (IF 0 <= q - i /\ q - i <= w - n THEN a ELSE 0)
                + (IF 0 <= q - (i + h) /\ q - (i + h) <= w - n THEN b ELSE 0)
      BY <3>1 DEF Halves
    <3>3. ~(0 <= q - i) /\ ~(0 <= q - (i + h))  BY <3>2, <2>4
    <3>4. QED  BY <3>2, <3>3
  <2>5. QED  BY <2>1, <2>2, <2>3, <2>4
<1>13. /\ g.s = [t |-> t + 1, in_ring |-> u.in_ring, ola |-> g.s.ola]
       /\ g.s.ola = IF start >= 0 THEN [v.ola EXCEPT ![start % (2 * n)] = 0] ELSE v.ola
  <2>1. v.t = t /\ v.in_ring = u.in_ring  BY <1>9
  <2>2. PICK o : v = [t |-> t, in_ring |-> u.in_ring, ola |-> o]  BY <1>9
  <2>3. v.ola = o  BY <2>2
  <2>4. CASE start >= 0
    <3>1. g.s = [v EXCEPT !.ola[start % (2 * n)] = 0, !.t = @ + 1]  BY <2>4, <1>10
    <3>2. g.s = [t |-> t + 1, in_ring |-> u.in_ring, ola |-> [o EXCEPT ![start % (2 * n)] = 0]]
      BY <3>1, <2>2
    <3>3. QED  BY <3>2, <2>3, <2>4
  <2>5. CASE ~(start >= 0)
    <3>1. g.s = [v EXCEPT !.t = @ + 1]  BY <2>5, <1>10
    <3>2. g.s = [t |-> t + 1, in_ring |-> u.in_ring, ola |-> o]  BY <3>1, <2>2
    <3>3. QED  BY <3>2, <2>3, <2>5
  <2>6. QED  BY <2>4, <2>5
<1>14. ASSUME NEW p \in ((t + 1) - n + 1)..((t + 1) + n)
       PROVE  g.s.ola[p % (2 * n)] = Content(x, p, t + 1, n)
  <2>1. CASE p = t + n + 1
    <3>1. start % (2 * n) \in 0..(2 * n - 1)  BY <1>1, RingSlot
    <3>2. start \in start..(t + n)  BY <1>1 DEF start
    <3>3. CASE start >= 0  BY <3>1, <3>3, <2>1, <1>9, <1>12, <1>13
    <3>4. CASE ~(start >= 0)
      <4>1. start < 0  BY <3>4, <1>1
      <4>2. g.s.ola[start % (2 * n)] = Content(x, start, t + 1, n)  BY <3>2, <3>4, <1>9, <1>13
      <4>3. QED  BY <4>1, <4>2, <2>1, <1>12
    <3>5. QED  BY <3>3, <3>4
  <2>2. CASE p # t + n + 1
    <3>1. p \in start..(t + n) /\ p # start /\ p - start \in -(2 * n - 1)..(2 * n - 1)
      BY <2>2, <1>1 DEF start
    <3>2. p % (2 * n) # start % (2 * n)
      <4>1. PICK m \in {2, 4, 8} : m = 2 * n  BY <1>1
      <4>2. p - start \in -(m - 1)..(m - 1) /\ p \in Int /\ start \in Int  BY <4>1, <3>1, <1>1
      <4>3. p % m # start % m  BY <4>2, <3>1, RingApart
      <4>4. QED  BY <4>1, <4>3
    <3>3. v.ola[p % (2 * n)] = Content(x, p, t + 1, n)  BY <3>1, <1>9
    <3>4. p % (2 * n) \in DOMAIN v.ola  BY <3>1, <1>8, <1>9
    <3>5. QED  BY <3>2, <3>3, <3>4, <1>13
  <2>3. QED  BY <2>1, <2>2
<1>15. \A p \in ((t + 1) - n)..((t + 1) - 1) : p >= 0 => g.s.in_ring[p % n] = x[p]
  <2>1. ((t + 1) - n)..((t + 1) - 1) = start..t  BY <1>1 DEF start
  <2>2. g.s.in_ring = u.in_ring  BY <1>13
  <2>3. QED  BY <2>1, <2>2, <1>5
<1>16. DOMAIN g.s.ola = 0..(2 * n - 1) /\ DOMAIN g.s.in_ring = 0..(n - 1) /\ g.s.t = t + 1
  BY <1>4, <1>9, <1>13
<1>17. g.s = [t |-> g.s.t, in_ring |-> g.s.in_ring, ola |-> g.s.ola]  BY <1>13
<1>18. QED  BY <1>11, <1>14, <1>15, <1>16, <1>17 DEF Overlapping

\* A block is its samples, one after another.
StftRun(f, s, xs, n) ==
  /\ f = [i \in 0..Len(xs) |-> IF i = 0 THEN [s |-> s, x |-> 0]
                               ELSE F!Given(F!Heard(f[i - 1].s, xs[i], n), n)]
  /\ F!Stft(s, xs, n) = [s |-> f[Len(xs)].s, out |-> [i \in 1..Len(xs) |-> f[i].x]]
LEMMA StftOfABlock ==
  ASSUME NEW s, NEW xs, NEW n, Len(xs) \in Nat PROVE \E f : StftRun(f, s, xs, n)
<1> DEFINE m == Len(xs)
           Step(u, i) == F!Given(F!Heard(u.s, xs[i], n), n)
           Solves(g, k) == g = [i \in 0..k |-> IF i = 0 THEN [s |-> s, x |-> 0] ELSE Step(g[i - 1], i)]
           Bad == {k \in Nat : ~\E g : Solves(g, k)}
<1>1. Bad = {}
  <2> SUFFICES ASSUME Bad # {} PROVE FALSE  OBVIOUS
  <2>1. PICK k \in Bad : \A l \in Bad : k <= l
    <3>1. Bad \subseteq Nat  OBVIOUS
    <3> HIDE DEF Bad
    <3>2. QED  BY <3>1, Least
  <2>2. k \in Nat /\ ~\E g : Solves(g, k)  OBVIOUS
  <2> HIDE DEF Step
  <2>3. CASE k = 0
    <3> DEFINE g == [i \in 0..k |-> [s |-> s, x |-> 0]]
    <3>1. \A i \in 0..k : i = 0  BY <2>3
    <3>2. Solves(g, k)  BY <3>1
    <3>3. QED  BY <2>2, <3>2
  <2>4. CASE k # 0
    <3>1. k - 1 \in Nat /\ ~(k <= k - 1)  BY <2>2, <2>4
    <3>2. k - 1 \notin Bad  BY <2>1, <3>1
    <3>3. PICK g : Solves(g, k - 1)  BY <3>1, <3>2
    <3> DEFINE h == [i \in 0..k |-> IF i = 0 THEN [s |-> s, x |-> 0] ELSE Step(g[i - 1], i)]
    <3>4. ASSUME NEW i \in 0..k, i # 0 PROVE h[i - 1] = g[i - 1]
      <4>1. i - 1 \in 0..k - 1 /\ i - 1 \in 0..k  BY <2>2, <3>4
      <4>2. QED  BY <3>3, <4>1
    <3>5. Solves(h, k)
      <4>1. h = [i \in 0..k |-> IF i = 0 THEN [s |-> s, x |-> 0] ELSE Step(h[i - 1], i)]  BY <3>4
      <4>2. QED  BY <4>1
    <3>6. QED  BY <2>2, <3>5
  <2>5. QED  BY <2>3, <2>4
<1>2. \E g : Solves(g, m)  BY <1>1
<1> DEFINE f == CHOOSE g : Solves(g, m)
<1>3. F!Stft(s, xs, n) = [s |-> f[m].s, out |-> [i \in 1..m |-> f[i].x]]
  BY DEF F!Stft
<1>4. Solves(f, m)
  <2> HIDE DEF Solves
  <2>1. QED  BY <1>2
<1> HIDE DEF f
<1>5. f = [i \in 0..m |-> IF i = 0 THEN [s |-> s, x |-> 0] ELSE F!Given(F!Heard(f[i - 1].s, xs[i], n), n)]
  BY <1>4
<1>6. StftRun(f, s, xs, n)  BY <1>3, <1>5 DEF StftRun
<1>7. QED  BY <1>6

\* A block is m samples of a signal from t on.
SliceOf(xs, x, t, m) == Len(xs) = m /\ \A i \in 1..m : xs[i] = x[t + (i - 1)]

LEMMA StftBlock ==
  ASSUME NEW n \in F!Sizes, NEW x \in [Nat -> Int], NEW t \in Nat, NEW s, Overlapping(s, x, t, n),
         NEW m \in Nat, NEW xs, SliceOf(xs, x, t, m), NEW r, r = F!Stft(s, xs, n)
  PROVE  /\ Overlapping(r.s, x, t + m, n)
         /\ \A i \in 1..m : r.out[i] = Late(x, t + (i - 1), n)
<1>1. PICK f : StftRun(f, s, xs, n)
  <2>1. Len(xs) \in Nat  BY DEF SliceOf
  <2>2. QED  BY <2>1, StftOfABlock
<1>0. Len(xs) = m /\ \A i \in 1..m : xs[i] = x[t + (i - 1)]  BY DEF SliceOf
<1>2. /\ \A i \in 0..m : f[i] = IF i = 0 THEN [s |-> s, x |-> 0]
                                ELSE F!Given(F!Heard(f[i - 1].s, xs[i], n), n)
      /\ r.s = f[m].s /\ \A i \in 1..m : r.out[i] = f[i].x
  <2> DEFINE g(i) == F!Given(F!Heard(f[i - 1].s, xs[i], n), n)
  <2>1. f = [i \in 0..m |-> IF i = 0 THEN [s |-> s, x |-> 0] ELSE g(i)]  BY <1>0, <1>1 DEF StftRun
  <2>2. F!Stft(s, xs, n) = [s |-> f[m].s, out |-> [i \in 1..m |-> f[i].x]]  BY <1>0, <1>1 DEF StftRun
  <2> HIDE DEF g
  <2>3. \A i \in 0..m : f[i] = IF i = 0 THEN [s |-> s, x |-> 0] ELSE g(i)  BY <2>1
  <2>4. r.s = f[m].s /\ \A i \in 1..m : r.out[i] = f[i].x  BY <2>2
  <2>5. QED  BY <2>3, <2>4 DEF g
<1> DEFINE Good(i) == Overlapping(f[i].s, x, t + i, n) /\ (i > 0 => f[i].x = Late(x, t + (i - 1), n))
           Bad == {i \in 0..m : ~Good(i)}
<1>3. ASSUME NEW i \in 1..m, Good(i - 1) PROVE Good(i)
  <2>1. PICK q \in Nat : q = t + (i - 1) /\ q + 1 = t + i  OBVIOUS
  <2>2. i \in 0..m /\ i # 0  OBVIOUS
  <2>3. f[i] = F!Given(F!Heard(f[i - 1].s, x[q], n), n)  BY <2>1, <2>2, <1>0, <1>2
  <2>4. Overlapping(f[i - 1].s, x, q, n)  BY <2>1, <1>3
  <2>5. PICK u, g : u = f[i - 1].s /\ g = f[i]  OBVIOUS
  <2>6. Overlapping(u, x, q, n) /\ g = F!Given(F!Heard(u, x[q], n), n)  BY <2>3, <2>4, <2>5
  <2>7. Overlapping(g.s, x, q + 1, n) /\ g.x = Late(x, q, n)
    <3> HIDE DEF Good, Bad
    <3>1. QED  BY <2>6, StftStep
  <2>8. QED  BY <2>1, <2>5, <2>7
<1>4. Good(0)
  <2>1. t + 0 = t /\ 0 \in 0..m /\ ~(0 > 0)  OBVIOUS
  <2>2. f[0].s = s  BY <2>1, <1>2
  <2>3. QED  BY <2>1, <2>2
<1> HIDE DEF Good
<1>5. Bad = {}
  <2> SUFFICES ASSUME Bad # {} PROVE FALSE  OBVIOUS
  <2>1. PICK k \in Bad : \A l \in Bad : k <= l
    <3>1. Bad \subseteq Nat  OBVIOUS
    <3> HIDE DEF Bad
    <3>2. QED  BY <3>1, Least
  <2>2. k \in 1..m /\ k - 1 \in 0..m /\ ~(k <= k - 1)  BY <1>4
  <2>3. Good(k - 1)  BY <2>1, <2>2
  <2>4. QED  BY <2>2, <2>3, <1>3
<1>6. \A i \in 0..m : Good(i)  BY <1>5
<1>7. Overlapping(f[m].s, x, t + m, n)  BY <1>6 DEF Good
<1>8. ASSUME NEW i \in 1..m PROVE r.out[i] = Late(x, t + (i - 1), n)
  <2>1. i \in 0..m /\ i > 0  OBVIOUS
  <2>2. f[i].x = Late(x, t + (i - 1), n)  BY <2>1, <1>6 DEF Good
  <2>3. QED  BY <2>2, <1>2
<1>9. QED  BY <1>2, <1>7, <1>8

-----------------------------------------------------------------------------
(* sample_and_hold.                                                         *)

LEMMA Rest ==
  ASSUME NEW a \in Nat \ {0}, NEW q \in Nat, NEW k \in 0..(a - 1)
  PROVE  (a * q + k) % a = k /\ (a * q + k) \div a = q
<1> DEFINE x == a * q + k
           d == x \div a
           r == x % a
<1>1. a * q \in Nat /\ x \in Nat  OBVIOUS
<1>2. d \in Int /\ r \in 0..a-1 /\ x = a * d + r  BY <1>1
<1>3. x = a * q + k /\ a * d \in Int  BY <1>2
<1>4. r = x % a /\ d = x \div a  OBVIOUS
<1> HIDE DEF x, d, r
<1>5. a * (q - d) = r - k /\ q - d \in Int
  <2>1. a * (q - d) = a * q - a * d  BY <1>2
  <2>2. QED  BY <2>1, <1>1, <1>2, <1>3
<1>6. CASE q - d >= 1
  <2>1. a * (q - d) >= a * 1  BY <1>5, <1>6
  <2>2. QED  BY <2>1, <1>2, <1>5
<1>7. CASE q - d <= -1
  <2>1. a * (q - d) <= a * (-1)  BY <1>5, <1>7
  <2>2. a * (-1) = -a  OBVIOUS
  <2>3. QED  BY <2>1, <2>2, <1>2, <1>5
<1>8. CASE q = d
  <2>1. a * q = a * d  BY <1>8
  <2>2. r = k  BY <2>1, <1>1, <1>2, <1>3
  <2>3. QED  BY <2>2, <1>4 DEF x
<1>9. QED  BY <1>5, <1>6, <1>7, <1>8

\* Counting round.
LEMMA Round ==
  ASSUME NEW m \in Nat \ {0}, NEW t \in Nat
  PROVE  /\ t % m \in 0..(m - 1) /\ t % m <= t
         /\ (t + 1) % m = IF (t % m) + 1 >= m THEN 0 ELSE (t % m) + 1
<1>1. PICK d \in Nat, r \in 0..(m - 1) : d = t \div m /\ r = t % m /\ t = m * d + r  OBVIOUS
<1>2. m * d \in Nat /\ m * (d + 1) = m * d + m  BY <1>1
<1>3. CASE r + 1 >= m
  <2>1. t + 1 = m * (d + 1) + 0  BY <1>1, <1>2, <1>3
  <2>2. (m * (d + 1) + 0) % m = 0
    <3>1. d + 1 \in Nat /\ 0 \in 0..(m - 1)  OBVIOUS
    <3>2. QED  BY <3>1, Rest
  <2>3. QED  BY <2>1, <2>2, <1>1, <1>2, <1>3
<1>4. CASE ~(r + 1 >= m)
  <2>1. t + 1 = m * d + (r + 1) /\ r + 1 \in 0..(m - 1)  BY <1>1, <1>2, <1>4
  <2>2. (m * d + (r + 1)) % m = r + 1  BY <2>1, Rest
  <2>3. QED  BY <2>1, <2>2, <1>1, <1>2, <1>4
<1>5. QED  BY <1>3, <1>4

\* One sample more.
Sampled(u, x, m) ==
  LET w == IF u.counter = 0 THEN [u EXCEPT !.held = x] ELSE u IN
  [w EXCEPT !.counter = IF @ + 1 >= m THEN 0 ELSE @ + 1]

LEMMA HoldStep ==
  ASSUME NEW m \in Nat \ {0}, NEW x, NEW t \in Nat, NEW u, Holds(u, x, t, m),
         NEW w, w = Sampled(u, x[t], m)
  PROVE  Holds(w, x, t + 1, m) /\ w.held = x[t - (t % m)]
<1>1. PICK h : u = [held |-> h, counter |-> t % m]  BY DEF Holds
<1>2. u.held = h /\ u.counter = t % m /\ (t > 0 => h = x[(t - 1) - ((t - 1) % m)])  BY <1>1 DEF Holds
<1>3. PICK r \in 0..(m - 1) : r = t % m /\ r <= t
  <2>1. t % m \in 0..(m - 1) /\ t % m <= t  BY Round
  <2>2. QED  BY <2>1
<1>4. (t + 1) % m = IF r + 1 >= m THEN 0 ELSE r + 1  BY <1>3, Round
<1>5. r # 0 => t > 0 /\ (t - 1) - ((t - 1) % m) = t - r
  <2> SUFFICES ASSUME r # 0 PROVE t > 0 /\ (t - 1) - ((t - 1) % m) = t - r  OBVIOUS
  <2>1. PICK q \in Nat : q = t - 1 /\ q + 1 = t  BY <1>3
  <2>2. PICK k \in 0..(m - 1) : k = q % m
    <3>1. q % m \in 0..(m - 1)  BY Round
    <3>2. QED  BY <3>1
  <2>3. (q + 1) % m = IF k + 1 >= m THEN 0 ELSE k + 1  BY <2>2, Round
  <2>4. r = k + 1  BY <2>1, <2>3, <1>3
  <2>5. QED  BY <2>1, <2>2, <2>4, <1>3
<1> DEFINE g == IF r = 0 THEN x[t] ELSE h
           c == IF r + 1 >= m THEN 0 ELSE r + 1
<1>6. w = [held |-> g, counter |-> c]
  <2>1. u = [held |-> h, counter |-> r]  BY <1>1, <1>3
  <2>2. [u EXCEPT !.held = x[t]] = [held |-> x[t], counter |-> r]  BY <2>1
  <2>3. (IF u.counter = 0 THEN [u EXCEPT !.held = x[t]] ELSE u) = [held |-> g, counter |-> r]
    BY <2>1, <2>2
  <2>4. [[held |-> g, counter |-> r] EXCEPT !.counter = IF @ + 1 >= m THEN 0 ELSE @ + 1]
          = [held |-> g, counter |-> c]
    OBVIOUS
  <2>5. QED  BY <2>3, <2>4 DEF Sampled
<1>7. g = x[t - r]
  <2>1. CASE r = 0
    <3>1. t - r = t  BY <2>1
    <3>2. QED  BY <3>1, <2>1
  <2>2. CASE r # 0  BY <2>2, <1>2, <1>5
  <2>3. QED  BY <2>1, <2>2
<1> HIDE DEF g, c
<1>8. w.held = g /\ w = [held |-> w.held, counter |-> c]  BY <1>6
<1>9. (t + 1) - 1 = t /\ c = (t + 1) % m  BY <1>4 DEF c
<1>10. QED  BY <1>3, <1>7, <1>8, <1>9 DEF Holds

\* A block is its samples, one after another.
ResampledRun(f, s, xs, m) ==
  /\ f = [i \in 0..Len(xs) |-> IF i = 0 THEN s ELSE Sampled(f[i - 1], xs[i], m)]
  /\ N!Resampled(s, xs, m) = [s |-> f[Len(xs)], out |-> [i \in 1..Len(xs) |-> f[i].held]]
LEMMA ResampledOfABlock ==
  ASSUME NEW s, NEW xs, NEW n, Len(xs) \in Nat PROVE \E f : ResampledRun(f, s, xs, n)
<1> DEFINE m == Len(xs)
           Step(u, i) == Sampled(u, xs[i], n)
           Solves(g, k) == g = [i \in 0..k |-> IF i = 0 THEN s ELSE Step(g[i - 1], i)]
           Bad == {k \in Nat : ~\E g : Solves(g, k)}
<1>1. Bad = {}
  <2> SUFFICES ASSUME Bad # {} PROVE FALSE  OBVIOUS
  <2>1. PICK k \in Bad : \A l \in Bad : k <= l
    <3>1. Bad \subseteq Nat  OBVIOUS
    <3> HIDE DEF Bad
    <3>2. QED  BY <3>1, Least
  <2>2. k \in Nat /\ ~\E g : Solves(g, k)  OBVIOUS
  <2> HIDE DEF Step
  <2>3. CASE k = 0
    <3> DEFINE g == [i \in 0..k |-> s]
    <3>1. \A i \in 0..k : i = 0  BY <2>3
    <3>2. Solves(g, k)  BY <3>1
    <3>3. QED  BY <2>2, <3>2
  <2>4. CASE k # 0
    <3>1. k - 1 \in Nat /\ ~(k <= k - 1)  BY <2>2, <2>4
    <3>2. k - 1 \notin Bad  BY <2>1, <3>1
    <3>3. PICK g : Solves(g, k - 1)  BY <3>1, <3>2
    <3> DEFINE h == [i \in 0..k |-> IF i = 0 THEN s ELSE Step(g[i - 1], i)]
    <3>4. ASSUME NEW i \in 0..k, i # 0 PROVE h[i - 1] = g[i - 1]
      <4>1. i - 1 \in 0..k - 1 /\ i - 1 \in 0..k  BY <2>2, <3>4
      <4>2. QED  BY <3>3, <4>1
    <3>5. Solves(h, k)
      <4>1. h = [i \in 0..k |-> IF i = 0 THEN s ELSE Step(h[i - 1], i)]  BY <3>4
      <4>2. QED  BY <4>1
    <3>6. QED  BY <2>2, <3>5
  <2>5. QED  BY <2>3, <2>4
<1>2. \E g : Solves(g, m)  BY <1>1
<1> DEFINE f == CHOOSE g : Solves(g, m)
<1>3. N!Resampled(s, xs, n) = [s |-> f[m], out |-> [i \in 1..m |-> f[i].held]]
  BY DEF N!Resampled, Sampled
<1>4. Solves(f, m)
  <2> HIDE DEF Solves
  <2>1. QED  BY <1>2
<1> HIDE DEF f
<1>5. f = [i \in 0..m |-> IF i = 0 THEN s ELSE Sampled(f[i - 1], xs[i], n)]
  BY <1>4
<1>6. ResampledRun(f, s, xs, n)  BY <1>3, <1>5 DEF ResampledRun
<1>7. QED  BY <1>6

LEMMA HoldBlock ==
  ASSUME NEW n \in Nat \ {0}, NEW x, NEW t \in Nat, NEW s, Holds(s, x, t, n),
         NEW m \in Nat, NEW xs, SliceOf(xs, x, t, m), NEW r, r = N!Resampled(s, xs, n)
  PROVE  /\ Holds(r.s, x, t + m, n)
         /\ \A i \in 1..m : r.out[i] = x[(t + (i - 1)) - ((t + (i - 1)) % n)]
<1>1. PICK f : ResampledRun(f, s, xs, n)
  <2>1. Len(xs) \in Nat  BY DEF SliceOf
  <2>2. QED  BY <2>1, ResampledOfABlock
<1>0. Len(xs) = m /\ \A i \in 1..m : xs[i] = x[t + (i - 1)]  BY DEF SliceOf
<1>2. /\ \A i \in 0..m : f[i] = IF i = 0 THEN s ELSE Sampled(f[i - 1], xs[i], n)
      /\ r.s = f[m] /\ \A i \in 1..m : r.out[i] = f[i].held
  <2> DEFINE g(i) == Sampled(f[i - 1], xs[i], n)
  <2>1. f = [i \in 0..m |-> IF i = 0 THEN s ELSE g(i)]  BY <1>0, <1>1 DEF ResampledRun
  <2>2. N!Resampled(s, xs, n) = [s |-> f[m], out |-> [i \in 1..m |-> f[i].held]]
    BY <1>0, <1>1 DEF ResampledRun
  <2> HIDE DEF g
  <2>3. \A i \in 0..m : f[i] = IF i = 0 THEN s ELSE g(i)  BY <2>1
  <2>4. r.s = f[m] /\ \A i \in 1..m : r.out[i] = f[i].held  BY <2>2
  <2>5. QED  BY <2>3, <2>4 DEF g
<1> DEFINE At(i) == x[(t + (i - 1)) - ((t + (i - 1)) % n)]
           Good(i) == Holds(f[i], x, t + i, n) /\ (i > 0 => f[i].held = At(i))
           Bad == {i \in 0..m : ~Good(i)}
<1>3. ASSUME NEW i \in 1..m, Good(i - 1) PROVE Good(i)
  <2>1. PICK q \in Nat : q = t + (i - 1) /\ q + 1 = t + i  OBVIOUS
  <2>2. i \in 0..m /\ i # 0  OBVIOUS
  <2>3. f[i] = Sampled(f[i - 1], x[q], n)  BY <2>1, <2>2, <1>0, <1>2
  <2>4. Holds(f[i - 1], x, q, n)  BY <2>1, <1>3
  <2>5. PICK u, g : u = f[i - 1] /\ g = f[i]  OBVIOUS
  <2>6. Holds(u, x, q, n) /\ g = Sampled(u, x[q], n)  BY <2>3, <2>4, <2>5
  <2>7. Holds(g, x, q + 1, n) /\ g.held = x[q - (q % n)]
    <3> HIDE DEF Good, Bad
    <3>1. QED  BY <2>6, HoldStep
  <2>8. QED  BY <2>1, <2>5, <2>7
<1>4. Good(0)
  <2>1. t + 0 = t /\ 0 \in 0..m /\ ~(0 > 0)  OBVIOUS
  <2>2. f[0] = s  BY <2>1, <1>2
  <2>3. QED  BY <2>1, <2>2
<1> HIDE DEF Good
<1>5. Bad = {}
  <2> SUFFICES ASSUME Bad # {} PROVE FALSE  OBVIOUS
  <2>1. PICK k \in Bad : \A l \in Bad : k <= l
    <3>1. Bad \subseteq Nat  OBVIOUS
    <3> HIDE DEF Bad
    <3>2. QED  BY <3>1, Least
  <2>2. k \in 1..m /\ k - 1 \in 0..m /\ ~(k <= k - 1)  BY <1>4
  <2>3. Good(k - 1)  BY <2>1, <2>2
  <2>4. QED  BY <2>2, <2>3, <1>3
<1>6. \A i \in 0..m : Good(i)  BY <1>5
<1>7. Holds(f[m], x, t + m, n)  BY <1>6 DEF Good
<1>8. ASSUME NEW i \in 1..m PROVE r.out[i] = At(i)
  <2>1. i \in 0..m /\ i > 0  OBVIOUS
  <2>2. f[i].held = At(i)  BY <2>1, <1>6 DEF Good
  <2>3. QED  BY <2>2, <1>2
<1>9. QED  BY <1>2, <1>7, <1>8

-----------------------------------------------------------------------------
(* The inductive invariant, and what it says of a step.                     *)

Ready == CompileInv /\ Octaves /\ NoTinyDoubling /\ Declared /\ Playing /\ Sounding

-----------------------------------------------------------------------------
(* Where a sample is, and who made it.                                      *)

\* The place of sample j of call k.
LEMMA InCycle ==
  ASSUME Finished, Octaves, NoTinyDoubling, NEW v \in Nodes, NEW k \in 0..(calls[v] - 1),
         NEW j \in 0..(node_block[v] - 1)
  PROVE  k * node_block[v] + j \in 0..(out_stride(v) - 1)
<1>1. calls[v] \in Nat \ {0} /\ node_block[v] \in Nat \ {0} /\ calls[v] * node_block[v] = out_stride(v)
  BY Ratios
<1>2. PICK n \in Nat, d \in Nat \ {0} : n = calls[v] /\ d = node_block[v]  BY <1>1
<1>3. Parts(0, n, d)  BY Cut
<1>4. k \in 0..(n - 1) /\ k * d \in Nat  BY <1>2
<1>5. Span(0 + k * d, d) \subseteq Span(0, n * d)  BY <1>3, <1>4 DEF Parts
<1>6. k * d + j \in Span(0 + k * d, d)  BY <1>2, <1>4 DEF Span
<1>7. k * d + j \in Span(0, n * d)  BY <1>5, <1>6
<1>8. n * d \in Nat  BY <1>2
<1>9. Span(0, n * d) = 0..(n * d - 1)  BY <1>8 DEF Span
<1>10. QED  BY <1>1, <1>2, <1>7, <1>9

\* The samples until the end of call k: those before, and its own.
LEMMA OneCallMore ==
  ASSUME NEW k \in Nat, NEW d \in Nat \ {0}, NEW i \in 0..((k + 1) * d - 1)
  PROVE  i \in 0..(k * d - 1) \/ \E j \in 0..(d - 1) : i = k * d + j
<1>1. PICK x \in Nat : x = k * d  OBVIOUS
<1>2. (k + 1) * d = x + d  BY <1>1
<1>3. i \in Nat /\ i < x + d  BY <1>1, <1>2
<1>4. CASE i < x  BY <1>1, <1>3, <1>4
<1>5. CASE ~(i < x)
  <2>1. i - x \in 0..(d - 1) /\ i = x + (i - x)  BY <1>1, <1>3, <1>5
  <2>2. QED  BY <2>1, <1>1
<1>6. QED  BY <1>4, <1>5

\* The time of a sample, and where a call's write puts it.
LEMMA Timed ==
  ASSUME Finished, Octaves, NoTinyDoubling, cycle \in Nat \ {0}, NEW v \in Nodes,
         NEW k \in 0..(calls[v] - 1), NEW j \in 0..(node_block[v] - 1), NEW o \in 0..(Node(v).outs - 1),
         NEW i, i = k * node_block[v] + j
  PROVE  /\ (cycle - 1) * out_stride(v) + k * node_block[v] \in Nat
         /\ Now(v, i) = ((cycle - 1) * out_stride(v) + k * node_block[v]) + j
         /\ Now(v, i) % node_block[v] = j
         /\ ChannelAt(v, OutOffset(v, o) + i) = o /\ Elapsed(v, OutOffset(v, o) + i) = Now(v, i)
<1>1. calls[v] \in Nat \ {0} /\ node_block[v] \in Nat \ {0} /\ calls[v] * node_block[v] = out_stride(v)
  BY Ratios
<1>2. out_stride(v) \in Nat \ {0} /\ i \in 0..(out_stride(v) - 1)
  BY InCycle, Facts DEF Finished, CompileInv
<1>3. PICK n \in Nat \ {0}, d \in Nat \ {0}, S \in Nat \ {0}, c \in Nat :
        n = calls[v] /\ d = node_block[v] /\ S = out_stride(v) /\ c = cycle - 1
  BY <1>1, <1>2
<1>4. n * d = S /\ k \in Nat /\ i = k * d + j /\ j \in 0..(d - 1) /\ i \in 0..(S - 1)
  BY <1>1, <1>2, <1>3
<1>5. c * S \in Nat /\ k * d \in Nat  BY <1>3, <1>4
<1>6. Now(v, i) = c * S + i  BY <1>3 DEF Now
<1>7. (c * S + i) % d = j
  <2>1. PICK q \in Nat : q = c * n + k
    <3>1. c * n \in Nat  OBVIOUS
    <3>2. QED  BY <3>1, <1>4
  <2>2. d * q = c * S + k * d
    <3>1. d * (c * n + k) = c * (n * d) + k * d  BY <1>3, <1>4
    <3>2. QED  BY <3>1, <2>1, <1>4
  <2>3. c * S + i = d * q + j
    <3>1. PICK a \in Nat, x \in Nat, y \in Nat : a = c * S /\ x = k * d /\ y = d * q
      <4>1. d * q \in Nat  BY <2>1
      <4>2. QED  BY <4>1, <1>5
    <3>2. j \in Int /\ y = a + x /\ i = x + j  BY <3>1, <2>2, <1>4
    <3>3. QED  BY <3>1, <3>2
  <2>4. (d * q + j) % d = j  BY <2>1, <1>4, Rest
  <2>5. QED  BY <2>3, <2>4
<1>8. out_base_sample[v] \in Int
  <2>1. out_base_sample \in Seq(Nat) /\ Len(out_base_sample) = next - 1 /\ next = Len(bp.nodes) + 1
    BY DEF Finished, CompileInv, LaidOut, AllOffsets
  <2>2. v \in 1..Len(out_base_sample)  BY <2>1, Facts DEF Finished, CompileInv
  <2>3. QED  BY <2>1, <2>2, ElementOfSeq
<1>9. PICK b \in Int : b = out_base_sample[v]  BY <1>8
<1>10. o \in Nat
  BY Facts DEF Finished, CompileInv, NodeType
<1>11. (OutOffset(v, o) + i) - out_base_sample[v] = S * o + i
  <2>1. o * S = S * o /\ S * o \in Int /\ i \in Int  BY <1>3, <1>4, <1>10
  <2>2. QED  BY <2>1, <1>3, <1>9 DEF OutOffset
<1>12. (S * o + i) % S = i /\ (S * o + i) \div S = o  BY <1>3, <1>4, <1>10, Rest
<1>13. ChannelAt(v, OutOffset(v, o) + i) = o  BY <1>3, <1>11, <1>12 DEF ChannelAt
<1>14. Elapsed(v, OutOffset(v, o) + i) = c * S + i  BY <1>3, <1>11, <1>12 DEF Elapsed
<1>15. c * S + i = (c * S + k * d) + j /\ c * S + k * d \in Nat
  <2>1. PICK a \in Nat, x \in Nat : a = c * S /\ x = k * d  BY <1>5
  <2>2. j \in Int /\ i = x + j  BY <2>1, <1>4
  <2>3. QED  BY <2>1, <2>2
<1>16. (cycle - 1) * out_stride(v) + k * node_block[v] = c * S + k * d  BY <1>3
<1>17. Now(v, i) % node_block[v] = j  BY <1>3, <1>6, <1>7
<1>18. QED  BY <1>16, <1>17, <1>6, <1>13, <1>14, <1>15

\* A call leaves what it computed in its samples,
LEMMA CallHears ==
  ASSUME Finished, Octaves, NoTinyDoubling, cycle \in Nat \ {0}, DOMAIN buffer_pool = 0..(off.out - 1),
         NEW v \in Nodes, call \in 0..(calls[v] - 1), Process(v), UNCHANGED vars,
         NEW o \in 0..(Node(v).outs - 1), NEW j \in 0..(node_block[v] - 1),
         NEW i, i = call * node_block[v] + j
  PROVE  Heard(v, o, i)' = IF Known(v) THEN Computed(v, call).outs[o + 1][j + 1]
                           ELSE Signal(v, o, Now(v, i))
<1> DEFINE s == OutOffset(v, o) + i
<1>1. i \in 0..(out_stride(v) - 1) /\ node_block[v] \in Nat \ {0} /\ Produced(v) = node_block[v]
  BY InCycle, Ratios, ProducesABlock
<1>2. OutOffset(v, o) \in Nat /\ Span(OutOffset(v, o), out_stride(v)) \subseteq 0..(off.out - 1)
  BY Owned
<1>3. s \in DOMAIN buffer_pool
  <2>1. s \in Span(OutOffset(v, o), out_stride(v))
    <3>1. out_stride(v) \in Nat  BY Facts DEF Finished, CompileInv
    <3>2. QED  BY SMTT(30), <3>1, <1>1, <1>2 DEF Span
  <2>2. QED  BY <2>1, <1>2
<1>4. s \in Writes(v, call)
  <2>1. call * node_block[v] \in Int  BY <1>1
  <2>2. s \in Span(OutOffset(v, o) + call * node_block[v], node_block[v])
    <3>1. PICK a \in Int, x \in Int, d \in Nat : a = OutOffset(v, o) /\ x = call * node_block[v] /\ d = node_block[v]
      BY <2>1, <1>1, <1>2
    <3>2. s = a + (x + j) /\ j \in 0..(d - 1)  BY <3>1
    <3>3. \A q \in 0..(d - 1) : a + (x + q) \in (a + x)..((a + x) + d - 1)  OBVIOUS
    <3>4. s \in (a + x)..((a + x) + d - 1)  BY <3>2, <3>3
    <3>5. QED  BY <3>1, <3>4 DEF Span
  <2>3. QED  BY <2>2, <1>1 DEF Writes
<1>5. ChannelAt(v, s) = o /\ Elapsed(v, s) = Now(v, i) /\ Elapsed(v, s) % node_block[v] = j
  BY Timed
<1>6. Heard(v, o, i)' = buffer_pool'[s].x
  BY DEF vars, Heard, OutOffset, out_stride
<1> HIDE DEF s
<1>7. CASE Known(v)
  <2> DEFINE y(u) == Computed(v, call).outs[ChannelAt(v, u) + 1][(Elapsed(v, u) % node_block[v]) + 1]
  <2>1. buffer_pool' = [u \in DOMAIN buffer_pool |->
          IF u \in Writes(v, call) THEN [node |-> v, cycle |-> cycle, x |-> y(u)] ELSE buffer_pool[u]]
    BY <1>7 DEF Process, Written
  <2>2. y(s) = Computed(v, call).outs[o + 1][j + 1]  BY <1>5
  <2> HIDE DEF y
  <2>3. buffer_pool'[s].x = y(s)  BY <2>1, <1>3, <1>4
  <2>4. QED  BY <2>2, <2>3, <1>6, <1>7
<1>8. CASE ~Known(v)
  <2> DEFINE y(u) == Signal(v, ChannelAt(v, u), Elapsed(v, u))
  <2>1. buffer_pool' = [u \in DOMAIN buffer_pool |->
          IF u \in Writes(v, call) THEN [node |-> v, cycle |-> cycle, x |-> y(u)] ELSE buffer_pool[u]]
    BY <1>8 DEF Process, Written
  <2>2. y(s) = Signal(v, o, Now(v, i))  BY <1>5
  <2> HIDE DEF y
  <2>3. buffer_pool'[s].x = y(s)  BY <2>1, <1>3, <1>4
  <2>4. QED  BY <2>2, <2>3, <1>6, <1>8
<1>9. QED  BY <1>7, <1>8

\* and every other sample as it was.
LEMMA CallKeeps ==
  ASSUME Finished, Octaves, NoTinyDoubling, DOMAIN buffer_pool = 0..(off.out - 1),
         NEW v \in Nodes, call \in 0..(calls[v] - 1), Process(v), UNCHANGED vars,
         NEW w \in Nodes, NEW o \in 0..(Node(w).outs - 1), NEW i \in 0..(out_stride(w) - 1),
         w # v \/ i \in 0..(call * node_block[v] - 1)
  PROVE  Heard(w, o, i)' = Heard(w, o, i)
<1> DEFINE s == OutOffset(w, o) + i
<1>1. OutOffset(w, o) \in Nat /\ Span(OutOffset(w, o), out_stride(w)) \subseteq Own(w)
      /\ Own(w) \subseteq DOMAIN buffer_pool
  BY Owned
<1>2. s \in Own(w)
  <2>1. out_stride(w) \in Nat  BY Facts DEF Finished, CompileInv
  <2>2. s \in Span(OutOffset(w, o), out_stride(w))  BY <2>1, <1>1 DEF Span
  <2>3. QED  BY <2>2, <1>1
<1>3. s \notin Writes(v, call)
  <2>1. CASE w # v
    <3>1. Writes(v, call) \subseteq Own(v) /\ Own(v) \cap Own(w) = {}  BY <2>1, Filling, Owned
    <3>2. QED  BY <3>1, <1>2
  <2>2. CASE w = v
    <3> SUFFICES ASSUME w = v, i \in 0..(call * node_block[v] - 1), s \in Writes(v, call) PROVE FALSE
      BY <2>2
    <3>1. /\ calls[v] \in Nat \ {0} /\ node_block[v] \in Nat \ {0} /\ calls[v] * node_block[v] = out_stride(v)
          /\ Produced(v) = node_block[v] /\ out_base_sample[v] \in Nat /\ Node(v).outs \in Nat
      <4>1. Node(v) \in NodeType  BY Facts DEF Finished, CompileInv
      <4>2. out_base_sample \in Seq(Nat) /\ Len(out_base_sample) = next - 1 /\ next = Len(bp.nodes) + 1
        BY DEF Finished, CompileInv, LaidOut, AllOffsets
      <4>3. v \in 1..Len(out_base_sample)  BY <4>2, Facts DEF Finished, CompileInv
      <4>4. QED  BY <4>1, <4>2, <4>3, Ratios, ProducesABlock, ElementOfSeq DEF NodeType
    <3>2. PICK ch \in 0..(Node(v).outs - 1) : s \in Span(OutOffset(v, ch) + call * node_block[v], node_block[v])
      BY <3>1 DEF Writes
    <3>3. PICK n \in Nat, d \in Nat \ {0}, b \in Nat, S \in Nat \ {0}, m \in Nat :
            n = calls[v] /\ d = node_block[v] /\ b = out_base_sample[v] /\ S = out_stride(v) /\ m = Node(v).outs
      <4>1. out_stride(v) \in Nat \ {0}  BY Facts DEF Finished, CompileInv
      <4>2. QED  BY <4>1, <3>1
    <3>4. n * d = S /\ call \in 0..(n - 1) /\ call * d \in Nat /\ o \in Nat /\ ch \in Nat  BY SMTT(30), <3>1, <3>3
    <3>5. /\ Span(OutOffset(v, ch) + call * d, d) \subseteq Span(OutOffset(v, ch), S)
      <4>1. OutOffset(v, ch) \in Nat  BY Owned
      <4>2. PICK a \in Nat : a = OutOffset(v, ch)  BY <4>1
      <4>3. Parts(a, n, d)  BY Cut
      <4>4. QED  BY <4>2, <4>3, <3>4 DEF Parts
    <3>6. s \in Span(b + o * S, S) /\ s \in Span(b + ch * S, S)
      <4>1. OutOffset(v, ch) = b + ch * S /\ OutOffset(v, o) = b + o * S  BY <3>3 DEF OutOffset
      <4>2. i \in 0..(S - 1)  BY <3>3
      <4>3. s \in Span(OutOffset(v, o), S)
        <5>1. PICK a \in Nat : a = OutOffset(v, o)  BY Owned
        <5>2. s = a + i  BY <5>1
        <5>3. a + i \in a..(a + S - 1)  BY <5>1, <4>2
        <5>4. QED  BY <5>1, <5>2, <5>3 DEF Span
      <4>4. QED  BY <4>1, <4>3, <3>2, <3>3, <3>5
    <3>7. o = ch
      <4>1. Parts(b, m, S)  BY Cut
      <4>2. QED  BY <4>1, <3>4, <3>6 DEF Parts
    <3>8. QED  BY <3>2, <3>3, <3>4, <3>7, <1>1 DEF Span
  <2>3. QED  BY <2>1, <2>2
<1>4. buffer_pool'[s] = buffer_pool[s]  BY <1>1, <1>2, <1>3, Writing
<1>5. Heard(w, o, i)' = buffer_pool'[s].x /\ Heard(w, o, i) = buffer_pool[s].x
  BY DEF vars, Heard, OutOffset, out_stride
<1>6. QED  BY <1>4, <1>5

-----------------------------------------------------------------------------
(* What a call is handed.                                                   *)

\* A port has one connection at most.
LEMMA Wires ==
  ASSUME Finished, NEW v \in Nodes, NEW param, NEW port, NEW c \in Wire(v, param, port)
  PROVE  /\ c \in Connections(v) /\ c.src \in Sources(v) /\ c.src \in Nodes
         /\ c.src \in Nat /\ c.out \in Nat /\ c.out \in 0..(Node(c.src).outs - 1)
         /\ \A d \in Wire(v, param, port) : d = c
         /\ (CHOOSE d \in Wire(v, param, port) : TRUE) = c
<1>1. PICK i \in Into(bp, v) : c = bp.conns[i] /\ c.param = param /\ c.port = port  BY DEF Wire
<1>2. WellFormed(bp) /\ Nodes \subseteq Nat  BY Facts DEF Finished, CompileInv
<1>3. /\ bp.conns \in Seq(Connection) /\ i \in DOMAIN bp.conns /\ c.dst = v
      /\ c.src \in DOMAIN bp.nodes /\ c.out \in 0..(bp.nodes[c.src].outs - 1)
      /\ \A j \in DOMAIN bp.conns : [bp.conns[j] EXCEPT !.src = c.src, !.out = c.out] = c => i = j
  BY <1>1, <1>2 DEF WellFormed, Into
<1>4. \A j \in DOMAIN bp.conns : bp.conns[j] \in Connection
  <2>1. DOMAIN bp.conns = 1..Len(bp.conns)  BY <1>3, LenProperties
  <2>2. QED  BY <2>1, <1>3, ElementOfSeq
<1>5. c \in Connection  BY <1>1, <1>3, <1>4
<1>6. ASSUME NEW d \in Wire(v, param, port) PROVE d = c
  <2>1. PICK j \in Into(bp, v) : d = bp.conns[j] /\ d.param = param /\ d.port = port  BY DEF Wire
  <2>2. j \in DOMAIN bp.conns /\ d \in Connection /\ d.dst = v  BY <2>1, <1>4 DEF Into
  <2>3. [d EXCEPT !.src = c.src, !.out = c.out] = c
    BY ZenonT(30), <2>1, <2>2, <1>1, <1>3, <1>5 DEF Connection
  <2>4. i = j  BY <2>1, <2>2, <2>3, <1>3
  <2>5. QED  BY <2>1, <2>4, <1>1
<1>7. c \in Connections(v) /\ c.src \in Sources(v)  BY <1>1 DEF Connections, Sources
<1>8. (CHOOSE d \in Wire(v, param, port) : TRUE) = c  BY <1>6
<1>9. c.src \in Nat /\ c.out \in Nat  BY <1>5 DEF Connection
<1>10. QED  BY <1>3, <1>6, <1>7, <1>8, <1>9 DEF Nodes, Node

\* Away from rate boundaries a source's cycle is as long as the node's.
LEMMA InStep ==
  ASSUME Finished, Octaves, NoTinyDoubling, NEW v \in Nodes, ~Boundary(v), NEW u \in Sources(v)
  PROVE  u \in Nodes /\ PerCall(v, u) = node_block[v] /\ out_stride(u) = out_stride(v)
BY Slicing, Ratios

\* Sample j of what call k is handed is the one its source has at that moment,
LEMMA Handed ==
  ASSUME Finished, Octaves, NoTinyDoubling, NEW v \in Nodes, ~Boundary(v), NEW port,
         NEW k \in 0..(calls[v] - 1), NEW j \in 0..(node_block[v] - 1), NEW i, i = k * node_block[v] + j
  PROVE  Input(v, port, k, j + 1) = Fed(v, FALSE, port, i, 0)
<1>1. CASE Wire(v, FALSE, port) = {}  BY <1>1 DEF Input, Fed
<1>2. CASE Wire(v, FALSE, port) # {}
  <2>1. PICK c : c = CHOOSE d \in Wire(v, FALSE, port) : TRUE  OBVIOUS
  <2>2. c \in Wire(v, FALSE, port)  BY <2>1, <1>2
  <2>3. c.src \in Sources(v) /\ c.src \in Nodes /\ c.out \in 0..(Node(c.src).outs - 1)  BY <2>2, Wires
  <2>4. PerCall(v, c.src) = node_block[v] /\ OutOffset(c.src, c.out) \in Nat  BY <2>3, InStep, Owned
  <2>5. View(v, c, k).at + (j + 1) - 1 = OutOffset(c.src, c.out) + i
    <3>1. k * node_block[v] \in Int  BY Ratios
    <3>2. PICK a \in Int, x \in Int : a = OutOffset(c.src, c.out) /\ x = k * node_block[v]  BY <3>1, <2>4
    <3>3. View(v, c, k).at = a + x  BY <3>2, <2>4 DEF View
    <3>4. QED  BY <3>2, <3>3
  <2>6. Input(v, port, k, j + 1) = buffer_pool[View(v, c, k).at + (j + 1) - 1].x
    BY <2>1, <1>2 DEF Input
  <2>7. Fed(v, FALSE, port, i, 0) = Heard(c.src, c.out, i)  BY <2>1, <1>2 DEF Fed
  <2>8. QED  BY <2>5, <2>6, <2>7 DEF Heard
<1>3. QED  BY <1>1, <1>2

\* and of a port its preset, or the source's sample if it is driven at audio rate.
LEMMA HandedPort ==
  ASSUME Finished, Octaves, NoTinyDoubling, PresetsStay, NEW v \in Nodes, ~Boundary(v), Untuned(v),
         NEW p \in PortsOf(v), NEW k \in 0..(calls[v] - 1), NEW j \in 0..(node_block[v] - 1),
         NEW i, i = k * node_block[v] + j
  PROVE  PortAt(v, p, k, j + 1) = Fed(v, TRUE, p, i, Node(v).preset)
<1>1. CASE Wire(v, TRUE, p) = {}
  <2>1. Node(v).preset \in Int /\ node_block[v] \in Nat \ {0}
    BY Facts, Ratios DEF Finished, CompileInv, NodeType
  <2>2. PICK x \in Int, d \in Nat \ {0} : x = Node(v).preset /\ d = node_block[v]  BY <2>1
  <2>3. controls[v][p] = [current |-> x, target |-> x]  BY <2>2 DEF PresetsStay
  <2>4. (x - x) \div d = 0  BY <2>2
  <2>5. Ramp(v, p) = [base |-> x, inc |-> 0]  BY <2>2, <2>3, <2>4 DEF Ramp
  <2>6. PortAt(v, p, k, j + 1) = x + 0 * ((j + 1) - 1)  BY <2>5, <1>1 DEF PortAt, Controlled
  <2>7. x + 0 * ((j + 1) - 1) = x  OBVIOUS
  <2>8. QED  BY <2>2, <2>6, <2>7, <1>1 DEF Fed
<1>2. CASE Wire(v, TRUE, p) # {}
  <2>1. PICK c : c = CHOOSE d \in Wire(v, TRUE, p) : TRUE  OBVIOUS
  <2>2. c \in Wire(v, TRUE, p)  BY <2>1, <1>2
  <2>3. c.src \in Sources(v) /\ c.src \in Nodes /\ c.out \in 0..(Node(c.src).outs - 1)  BY <2>2, Wires
  <2>4. PerCall(v, c.src) = node_block[v] /\ OutOffset(c.src, c.out) \in Nat  BY <2>3, InStep, Owned
  <2>5. View(v, c, k).at + (j + 1) - 1 = OutOffset(c.src, c.out) + i
    <3>1. k * node_block[v] \in Int  BY Ratios
    <3>2. PICK a \in Int, x \in Int : a = OutOffset(c.src, c.out) /\ x = k * node_block[v]  BY <3>1, <2>4
    <3>3. View(v, c, k).at = a + x  BY <3>2, <2>4 DEF View
    <3>4. QED  BY <3>2, <3>3
  <2>6. PortAt(v, p, k, j + 1) = buffer_pool[View(v, c, k).at + (j + 1) - 1].x
    BY <2>1, <1>2 DEF PortAt, Controlled
  <2>7. Fed(v, TRUE, p, i, Node(v).preset) = Heard(c.src, c.out, i)  BY <2>1, <1>2 DEF Fed
  <2>8. QED  BY <2>5, <2>6, <2>7 DEF Heard
<1>3. QED  BY <1>1, <1>2

\* A signal without a known meaning is one of even numbers.
LEMMA Signals ==
  ASSUME NEW c, c.src \in Nat, c.out \in Nat
  PROVE  SignalOf(c) \in [Nat -> Int] /\ \A t \in Nat : \E a \in Int : SignalOf(c)[t] = 2 * a
<1>1. ASSUME NEW t \in Nat PROVE \E a \in Int : Signal(c.src, c.out, t) = 2 * a
  <2>1. (t * t + 3 * t + c.src + c.out) % 5 \in Int
    <3>1. t * t \in Int  OBVIOUS
    <3>2. PICK x \in Int : x = t * t + 3 * t + c.src + c.out  BY <3>1
    <3>3. QED  BY <3>2
  <2>2. QED  BY <2>1 DEF Signal
<1>2. \A t \in Nat : Signal(c.src, c.out, t) \in Int  BY <1>1
<1>3. QED  BY <1>1, <1>2 DEF SignalOf

\* The nodes whose samples are known.
LEMMA Registered ==
  ASSUME Finished, Declared, NEW v \in Nodes, Known(v)
  PROVE  /\ ~Boundary(v) /\ Node(v).bnum = Node(v).bden
         /\ Node(v).dsp \notin N!Stateless => Node(v).outs >= 1
         /\ Node(v).dsp = "sah" => Node(v).params >= 1
         /\ Node(v).dsp \in {"stft", "stft_fwd", "stft_bwd"} => Node(v).size \in F!Sizes
         /\ Node(v).dsp \in {"stft", "stft_fwd", "stft_bwd", "counter", "sah"} \cup N!Stateless
         /\ Node(v).outs \in Nat /\ Node(v).preset \in Int
<1>1. bp \in Blueprints
  <2>1. Empty.nodes = << >> /\ DOMAIN << >> = {}  BY DEF Empty
  <2>2. QED  BY <2>1 DEF Finished, CompileInv, Typed, Nodes
<1>2. Node(v) \in NodeType  BY Facts DEF Finished, CompileInv
<1>3. QED  BY <1>1, <1>2 DEF Declared, Node, Nodes, Known, NodeType, Boundary

\* While node v = topo_order[pos] is called.
Called(v) == Ready /\ Running /\ v \in Nodes /\ v = Current

LEMMA CalledFacts ==
  ASSUME NEW v, Called(v)
  PROVE  /\ Finished /\ Octaves /\ NoTinyDoubling /\ built /\ cycle \in Nat \ {0}
         /\ pos \in DOMAIN topo_order /\ v = topo_order[pos] /\ v \in Nodes
         /\ call \in 0..(calls[v] - 1) /\ calls[v] \in Nat \ {0} /\ node_block[v] \in Nat \ {0}
         /\ calls[v] * node_block[v] = out_stride(v) /\ out_stride(v) \in Nat \ {0}
         /\ CallsMade(pos) = call /\ Kept(v, node_state[v], call)
         /\ PresetsStay /\ DOMAIN node_state = Nodes /\ DOMAIN buffer_pool = 0..(off.out - 1)
<1>1. built /\ pos \in 1..Len(topo_order) /\ CompileInv /\ Octaves /\ NoTinyDoubling /\ Playing /\ Sounding
  BY DEF Called, Ready, Running
<1>2. pass = "ok" /\ Finished  BY <1>1 DEF Playing, Looping, Finished
<1>3. pos \in DOMAIN topo_order /\ v = topo_order[pos] /\ v \in Nodes
  BY <1>1, Facts DEF CompileInv, Called, Current
<1>4. call \in 0..(calls[v] - 1) /\ DOMAIN buffer_pool = 0..(off.out - 1)
  BY <1>1 DEF Called, Playing, Looping
<1>5. /\ calls[v] \in Nat \ {0} /\ node_block[v] \in Nat \ {0}
      /\ calls[v] * node_block[v] = out_stride(v)
  BY <1>1, <1>2, <1>3, Ratios
<1>6. out_stride(v) \in Nat \ {0}  BY <1>1, <1>3, Facts DEF CompileInv
<1>7. cycle \in Nat \ {0} /\ PresetsStay /\ DOMAIN node_state = Nodes  BY <1>1 DEF Sounding
<1>8. CallsMade(pos) = call  BY <1>1 DEF CallsMade
<1>9. Kept(v, node_state[v], call)  BY <1>1, <1>3, <1>8 DEF Sounding
<1>10. QED  BY <1>1, <1>2, <1>3, <1>4, <1>5, <1>6, <1>7, <1>8, <1>9

\* Its sources have made their cycle, and made it right.
LEMMA CalledSources ==
  ASSUME NEW v, Called(v), ~Boundary(v), NEW u \in Sources(v)
  PROVE  /\ u \in Nodes /\ u # v /\ out_stride(u) = out_stride(v)
         /\ \A i \in 0..(out_stride(v) - 1) : IsRight(u, i)
<1>1. /\ Finished /\ Octaves /\ NoTinyDoubling /\ built /\ pos \in DOMAIN topo_order
      /\ v = topo_order[pos] /\ v \in Nodes
  BY CalledFacts
<1>2. u \in Nodes /\ out_stride(u) = out_stride(v)  BY <1>1, InStep
<1>3. PICK m \in 1..pos - 1 : topo_order[m] = u  BY <1>1 DEF Finished, CompileInv, Sorting
<1>4. Len(topo_order) \in Nat /\ DOMAIN topo_order = 1..Len(topo_order)
  BY <1>1, Facts DEF Finished, CompileInv
<1>5. m \in DOMAIN topo_order /\ m # pos /\ m < pos /\ pos > 0  BY <1>1, <1>3, <1>4
<1>6. u # v  BY <1>1, <1>3, <1>5 DEF Finished, CompileInv, Sorting
<1>7. CallsMade(m) * node_block[u] = out_stride(u)  BY <1>1, <1>2, <1>3, <1>5, Ratios DEF CallsMade
<1>8. \A i \in 0..(out_stride(u) - 1) : IsRight(u, i)
  <2>1. \A i \in 0..(CallsMade(m) * node_block[topo_order[m]] - 1) : IsRight(topo_order[m], i)
    BY <1>1, <1>5 DEF Called, Ready, Sounding
  <2>2. QED  BY <2>1, <1>3, <1>7
<1>9. QED  BY <1>2, <1>6, <1>8

\* The signal of a source without a known meaning arrives as it is.
LEMMA PlainInput ==
  ASSUME NEW v, Called(v), ~Boundary(v), NEW port, NEW c \in Plain(v, port),
         NEW t, t = (cycle - 1) * out_stride(v) + call * node_block[v],
         NEW j \in 0..(node_block[v] - 1)
  PROVE  t \in Nat /\ t + j \in Nat /\ Input(v, port, call, j + 1) = SignalOf(c)[t + j]
<1>1. /\ Finished /\ Octaves /\ NoTinyDoubling /\ v \in Nodes /\ call \in 0..(calls[v] - 1)
      /\ cycle \in Nat \ {0} /\ node_block[v] \in Nat \ {0} /\ out_stride(v) \in Nat \ {0}
  BY CalledFacts
<1>2. c \in Wire(v, FALSE, port) /\ ~Known(c.src)  BY DEF Plain
<1>3. /\ c.src \in Sources(v) /\ c.src \in Nodes /\ c.out \in 0..(Node(c.src).outs - 1)
      /\ (CHOOSE d \in Wire(v, FALSE, port) : TRUE) = c
  BY <1>1, <1>2, Wires
<1>4. PICK i : i = call * node_block[v] + j  OBVIOUS
<1>5. i \in 0..(out_stride(v) - 1)  BY <1>1, <1>4, InCycle
<1>6. Input(v, port, call, j + 1) = Fed(v, FALSE, port, i, 0)  BY <1>1, <1>4, Handed
<1>7. Fed(v, FALSE, port, i, 0) = Heard(c.src, c.out, i)  BY <1>2, <1>3 DEF Fed
<1>8. Heard(c.src, c.out, i) = Signal(c.src, c.out, Now(c.src, i))
  <2>1. IsRight(c.src, i)  BY <1>3, <1>5, CalledSources
  <2>2. QED  BY <2>1, <1>2, <1>3 DEF IsRight
<1>9. Now(c.src, i) = t + j /\ t \in Nat /\ t + j \in Nat
  <2>1. out_stride(c.src) = out_stride(v)  BY <1>3, CalledSources
  <2>2. call \in Nat /\ cycle - 1 \in Nat  BY <1>1
  <2>3. (cycle - 1) * out_stride(v) \in Nat /\ call * node_block[v] \in Nat
    <3>1. \A a, b \in Nat : a * b \in Nat  OBVIOUS
    <3>2. QED  BY <3>1, <2>2, <1>1
  <2>4. PICK a \in Nat, b \in Nat : a = (cycle - 1) * out_stride(v) /\ b = call * node_block[v]  BY <2>3
  <2>5. Now(c.src, i) = a + (b + j) /\ t = a + b  BY <2>1, <2>4, <1>4 DEF Now
  <2>6. QED  BY <2>5
<1>10. QED  BY <1>6, <1>7, <1>8, <1>9 DEF SignalOf

-----------------------------------------------------------------------------
(* What a call makes, node by node.                                         *)

LEMMA Slices ==
  ASSUME NEW v, node_block[v] \in Nat, NEW port, NEW k
  PROVE  /\ Len(Slice(v, port, k)) = node_block[v] /\ DOMAIN Slice(v, port, k) = 1..node_block[v]
         /\ \A i \in 1..node_block[v] : Slice(v, port, k)[i] = Input(v, port, k, i)
<1> DEFINE S == {Input(v, port, k, i) : i \in 1..node_block[v]}
           xs == Slice(v, port, k)
<1>1. xs = [i \in 1..node_block[v] |-> Input(v, port, k, i)]  BY DEF Slice
<1>2. xs \in Seq(S)
  <2>1. \A i \in 1..node_block[v] : Input(v, port, k, i) \in S  OBVIOUS
  <2> HIDE DEF S
  <2>2. [i \in 1..node_block[v] |-> Input(v, port, k, i)] \in Seq(S)  BY <2>1, IsASeq
  <2>3. QED  BY <2>2, <1>1
<1> HIDE DEF S, xs
<1>3. Len(xs) \in Nat /\ DOMAIN xs = 1..Len(xs)  BY <1>2, LenProperties
<1>4. DOMAIN xs = 1..node_block[v]  BY <1>1
<1>5. Len(xs) = node_block[v]  BY <1>3, <1>4
<1>6. QED  BY <1>1, <1>4, <1>5 DEF xs

\* A stateless node.
LEMMA MakesASample ==
  ASSUME NEW v, Called(v), ~Boundary(v), Node(v).dsp \in N!Stateless, Untuned(v),
         NEW o \in 0..(Node(v).outs - 1), NEW j \in 0..(node_block[v] - 1), NEW i, i = call * node_block[v] + j
  PROVE  Computed(v, call).outs[o + 1][j + 1] =
           N!Sample(Node(v).dsp, Node(v).outs, o, [p \in 0..(Node(v).ins - 1) |-> Fed(v, FALSE, p, i, 0)],
                    [p \in PortsOf(v) |-> Fed(v, TRUE, p, i, Node(v).preset)])
<1>1. /\ Finished /\ Octaves /\ NoTinyDoubling /\ v \in Nodes /\ call \in 0..(calls[v] - 1)
      /\ node_block[v] \in Nat \ {0} /\ PresetsStay
  BY CalledFacts
<1>2. Node(v).outs \in Nat  BY <1>1, Facts DEF Finished, CompileInv, NodeType
<1> DEFINE moments == [m \in 1..node_block[v] |-> Moment(v, call, m)]
<1>3. Computed(v, call).outs = [q \in 1..Node(v).outs |-> [m \in 1..node_block[v] |-> moments[m][q - 1]]]
  BY DEF Computed, N!Stateless
<1>4. o + 1 \in 1..Node(v).outs /\ j + 1 \in 1..node_block[v] /\ (o + 1) - 1 = o  BY <1>1, <1>2
<1>5. Computed(v, call).outs[o + 1][j + 1] = moments[j + 1][o]
  <2> HIDE DEF moments
  <2>1. QED  BY <1>3, <1>4
<1>6. moments[j + 1] = Moment(v, call, j + 1)  BY <1>4
<1>7. Moment(v, call, j + 1)[o] =
        N!Sample(Node(v).dsp, Node(v).outs, o, [p \in 0..(Node(v).ins - 1) |-> Input(v, p, call, j + 1)],
                 [p \in PortsOf(v) |-> PortAt(v, p, call, j + 1)])
  BY DEF Moment
<1>8. \A p : Input(v, p, call, j + 1) = Fed(v, FALSE, p, i, 0)  BY <1>1, Handed
<1>9. \A p \in PortsOf(v) : PortAt(v, p, call, j + 1) = Fed(v, TRUE, p, i, Node(v).preset)
  BY <1>1, HandedPort
<1>10. /\ [p \in 0..(Node(v).ins - 1) |-> Input(v, p, call, j + 1)]
            = [p \in 0..(Node(v).ins - 1) |-> Fed(v, FALSE, p, i, 0)]
       /\ [p \in PortsOf(v) |-> PortAt(v, p, call, j + 1)]
            = [p \in PortsOf(v) |-> Fed(v, TRUE, p, i, Node(v).preset)]
  BY <1>8, <1>9
<1>11. QED  BY <1>5, <1>6, <1>7, <1>10

\* A counter.
LEMMA MakesACount ==
  ASSUME NEW v, Called(v), ~Boundary(v), Node(v).dsp = "counter"
  PROVE  /\ Computed(v, call).s = [calls |-> node_state[v].calls + 1]
         /\ \A j \in 0..(node_block[v] - 1) :
              Computed(v, call).outs[1][j + 1] = Fed(v, FALSE, 0, call * node_block[v] + j, 0)
<1>1. /\ Finished /\ Octaves /\ NoTinyDoubling /\ v \in Nodes /\ call \in 0..(calls[v] - 1)
      /\ node_block[v] \in Nat \ {0}
  BY CalledFacts
<1>2. Computed(v, call) = [outs |-> <<Slice(v, 0, call)>>, s |-> [calls |-> node_state[v].calls + 1]]
  BY DEF Computed, N!Count, N!Stateless
<1>3. ASSUME NEW j \in 0..(node_block[v] - 1)
      PROVE  Slice(v, 0, call)[j + 1] = Fed(v, FALSE, 0, call * node_block[v] + j, 0)
  <2>1. j + 1 \in 1..node_block[v]  BY <1>1
  <2>2. Slice(v, 0, call)[j + 1] = Input(v, 0, call, j + 1)  BY <1>1, <2>1, Slices
  <2>3. QED  BY <2>2, <1>1, Handed
<1>4. Computed(v, call).s = [calls |-> node_state[v].calls + 1] /\ Computed(v, call).outs[1] = Slice(v, 0, call)
  BY <1>2
<1>5. QED  BY <1>3, <1>4

\* What a node with a memory is handed of a signal.
LEMMA PlainSlice ==
  ASSUME NEW v, Called(v), ~Boundary(v), NEW port, NEW c \in Plain(v, port),
         NEW t, t = (cycle - 1) * out_stride(v) + call * node_block[v]
  PROVE  /\ t \in Nat /\ Len(Slice(v, port, call)) = node_block[v] /\ node_block[v] \in Nat \ {0}
         /\ \A i \in 1..node_block[v] : Slice(v, port, call)[i] = SignalOf(c)[t + (i - 1)]
         /\ c.src \in Nat /\ c.out \in Nat
<1>1. node_block[v] \in Nat \ {0} /\ Finished /\ v \in Nodes  BY CalledFacts
<1>2. Len(Slice(v, port, call)) = node_block[v]  BY <1>1, Slices
<1>3. ASSUME NEW i \in 1..node_block[v] PROVE Slice(v, port, call)[i] = SignalOf(c)[t + (i - 1)]
  <2>1. i - 1 \in 0..(node_block[v] - 1) /\ (i - 1) + 1 = i  BY <1>1
  <2>2. Input(v, port, call, (i - 1) + 1) = SignalOf(c)[t + (i - 1)]  BY <2>1, PlainInput
  <2>3. QED  BY <2>1, <2>2, <1>1, Slices
<1>4. t \in Nat
  <2>1. 0 \in 0..(node_block[v] - 1)  BY <1>1
  <2>2. QED  BY <2>1, PlainInput
<1>5. c.src \in Nat /\ c.out \in Nat  BY <1>1, Wires DEF Plain
<1>6. QED  BY <1>1, <1>2, <1>3, <1>4, <1>5

\* ola_stft.
LEMMA MakesAnOverlap ==
  ASSUME NEW v, Called(v), ~Boundary(v), Node(v).dsp = "stft", NEW n \in F!Sizes, n = Node(v).size,
         NEW c \in Plain(v, 0), NEW t, t = (cycle - 1) * out_stride(v) + call * node_block[v]
  PROVE  /\ t \in Nat /\ Overlapping(Computed(v, call).s, SignalOf(c), t + node_block[v], n)
         /\ \A j \in 0..(node_block[v] - 1) :
              Computed(v, call).outs[1][j + 1] = Late(SignalOf(c), t + j, n)
<1> DEFINE r == F!Stft(node_state[v], Slice(v, 0, call), n)
<1>1. Computed(v, call) = [outs |-> <<r.out>>, s |-> r.s]  BY DEF Computed, N!Stateless
<1>2. /\ t \in Nat /\ Len(Slice(v, 0, call)) = node_block[v] /\ node_block[v] \in Nat \ {0}
      /\ \A i \in 1..node_block[v] : Slice(v, 0, call)[i] = SignalOf(c)[t + (i - 1)]
      /\ SignalOf(c) \in [Nat -> Int]
  BY PlainSlice, Signals
<1>3. Overlapping(node_state[v], SignalOf(c), t, n)  BY CalledFacts DEF Kept
<1>4. PICK x \in [Nat -> Int], m \in Nat : x = SignalOf(c) /\ m = node_block[v]  BY <1>2
<1>0. PICK xs, s, g : xs = Slice(v, 0, call) /\ s = node_state[v] /\ g = r  OBVIOUS
<1>5. t \in Nat /\ Overlapping(s, x, t, n) /\ g = F!Stft(s, xs, n) /\ SliceOf(xs, x, t, m)
  BY <1>0, <1>2, <1>3, <1>4 DEF SliceOf
<1> HIDE DEF r
<1>6. Overlapping(g.s, x, t + m, n) /\ \A i \in 1..m : g.out[i] = Late(x, t + (i - 1), n)
  BY <1>5, StftBlock
<1>7. ASSUME NEW j \in 0..(node_block[v] - 1) PROVE g.out[j + 1] = Late(x, t + j, n)
  <2>1. j + 1 \in 1..m /\ t + ((j + 1) - 1) = t + j  BY <1>2, <1>4
  <2>2. QED  BY <2>1, <1>6
<1>8. QED  BY <1>0, <1>1, <1>2, <1>4, <1>6, <1>7

\* The samples a value is held for.
LEMMA Intervals ==
  ASSUME Finished, NEW v \in Nodes, Node(v).preset \in Int, Node(v).preset > 0
  PROVE  HeldTo(v) \in Nat \ {0} /\ HeldTo(v) = N!Interval(Node(v).preset, SampleRate * region_rate[v])
<1> DEFINE sr == SampleRate * region_rate[v]
<1>1. sr \in Nat
  <2>1. region_rate[v] \in Nat  BY Facts DEF Finished, CompileInv
  <2>2. QED  BY <2>1 DEF SampleRate
<1>2. PICK rate \in Nat \ {0} : rate = Node(v).preset  OBVIOUS
<1>3. PICK q \in Nat : q = sr \div rate
  <2>1. PICK a \in Nat : a = sr  BY <1>1
  <2>2. a \div rate \in Nat  OBVIOUS
  <2>3. QED  BY <2>1, <2>2
<1>4. HeldTo(v) = IF q = 0 THEN 1 ELSE q  BY <1>2, <1>3 DEF HeldTo
<1>5. N!Interval(Node(v).preset, sr) = N!Max({1, q})  BY <1>2, <1>3 DEF N!Interval
<1>6. N!Max({1, q}) = CHOOSE m \in {1, q} : \A k \in {1, q} : m >= k  BY DEF N!Max
<1>7. \E m \in {1, q} : \A k \in {1, q} : m >= k
  <2>1. CASE q >= 1  BY <2>1
  <2>2. CASE ~(q >= 1)  BY <2>2
  <2>3. QED  BY <2>1, <2>2
<1>8. PICK m : m = N!Max({1, q})  OBVIOUS
<1>9. m \in {1, q} /\ m >= 1 /\ m >= q  BY <1>6, <1>7, <1>8
<1>10. m = IF q = 0 THEN 1 ELSE q  BY <1>9
<1>11. QED  BY <1>4, <1>5, <1>8, <1>9, <1>10

\* sample_and_hold: what it keeps and makes of a signal from t on.
HeldSo(v, c, t) ==
  /\ IF Node(v).preset > 0
       THEN HeldTo(v) \in Nat \ {0} /\ Holds(Computed(v, call).s, SignalOf(c), t + node_block[v], HeldTo(v))
       ELSE /\ Computed(v, call).s = [held |-> Computed(v, call).s.held, counter |-> Computed(v, call).s.counter]
            /\ Node(v).preset = 0 => Computed(v, call).s.held = 0
  /\ \A j \in 0..(node_block[v] - 1) :
       Computed(v, call).outs[1][j + 1] =
         CASE Node(v).preset = 0 -> 0
           [] Node(v).preset > 0 -> SignalOf(c)[(t + j) - ((t + j) % HeldTo(v))]
           [] OTHER -> SignalOf(c)[t]
LEMMA MakesAHold ==
  ASSUME NEW v, Called(v), ~Boundary(v), Node(v).dsp = "sah", Node(v).params >= 1, Node(v).preset \in Int,
         Untuned(v), Controlled(v, 0),
         NEW c \in Plain(v, 0), NEW t, t = (cycle - 1) * out_stride(v) + call * node_block[v]
  PROVE  t \in Nat /\ HeldSo(v, c, t)
<1> DEFINE rate == PortAt(v, 0, call, 1)
           sr == SampleRate * region_rate[v]
           xs == Slice(v, 0, call)
           r == N!Hold(node_state[v], xs, rate, sr)
           nb == node_block[v]
<1>1. Computed(v, call) = [outs |-> <<r.out>>, s |-> r.s]  BY DEF Computed, N!Stateless
<1>2. /\ t \in Nat /\ Len(xs) = nb /\ nb \in Nat \ {0} /\ DOMAIN xs = 1..nb
      /\ \A i \in 1..nb : xs[i] = SignalOf(c)[t + (i - 1)]
  BY PlainSlice, Slices
<1>3. /\ Finished /\ Octaves /\ NoTinyDoubling /\ v \in Nodes /\ call \in 0..(calls[v] - 1)
      /\ PresetsStay /\ Kept(v, node_state[v], call)
  BY CalledFacts
<1>4. rate = Node(v).preset
  <2>1. 0 \in PortsOf(v)  BY SMTT(30), Facts, <1>3 DEF PortsOf, Finished, CompileInv, NodeType
  <2>2. 0 \in 0..(nb - 1) /\ 0 + 1 = 1  BY <1>2
  <2>3. PICK i : i = call * node_block[v] + 0  OBVIOUS
  <2>4. PortAt(v, 0, call, 0 + 1) = Fed(v, TRUE, 0, i, Node(v).preset)
    BY <2>1, <2>2, <2>3, <1>3, HandedPort
  <2>5. QED  BY <2>2, <2>4 DEF Fed, Controlled
<1>5. IF Node(v).preset > 0 THEN Holds(node_state[v], SignalOf(c), t, HeldTo(v))
      ELSE /\ node_state[v] = [held |-> node_state[v].held, counter |-> node_state[v].counter]
           /\ Node(v).preset = 0 => node_state[v].held = 0
  BY <1>3 DEF Kept
<1> HIDE DEF rate
<1>6. CASE Node(v).preset > 0
  <2>1. HeldTo(v) \in Nat \ {0} /\ HeldTo(v) = N!Interval(rate, sr)
    <3>1. HeldTo(v) = N!Interval(rate, sr)  BY <1>3, <1>4, <1>6, Intervals
    <3>2. QED  BY <3>1, <1>3, <1>6, Intervals
  <2>2. r = N!Resampled(node_state[v], xs, HeldTo(v))  BY <2>1, <1>4, <1>6 DEF N!Hold
  <2>3. PICK m \in Nat, h \in Nat \ {0} : m = nb /\ h = HeldTo(v)  BY <1>2, <2>1
  <2>0. PICK x, s, ys, g : x = SignalOf(c) /\ s = node_state[v] /\ ys = xs /\ g = r  OBVIOUS
  <2> HIDE DEF r, xs, nb
  <2>4. t \in Nat /\ Holds(s, x, t, h) /\ g = N!Resampled(s, ys, h) /\ SliceOf(ys, x, t, m)
    BY <2>0, <2>2, <2>3, <1>2, <1>5, <1>6 DEF SliceOf
  <2>5. Holds(g.s, x, t + m, h) /\ \A i \in 1..m : g.out[i] = x[(t + (i - 1)) - ((t + (i - 1)) % h)]
    BY <2>4, HoldBlock
  <2>6. ASSUME NEW j \in 0..(nb - 1) PROVE g.out[j + 1] = x[(t + j) - ((t + j) % h)]
    <3>1. j + 1 \in 1..m /\ t + ((j + 1) - 1) = t + j  BY <1>2, <2>3
    <3>2. QED  BY <3>1, <2>5
  <2>7. Node(v).preset # 0  BY <1>6
  <2>8. QED  BY <1>1, <1>2, <1>6, <2>0, <2>1, <2>3, <2>5, <2>6, <2>7 DEF nb, HeldSo
<1>7. CASE Node(v).preset = 0
  <2>1. ~(Node(v).preset > 0) /\ ~(Node(v).preset < 0)  BY <1>7
  <2>2. r = [s |-> node_state[v], out |-> [i \in DOMAIN xs |-> node_state[v].held]]
    BY <2>1, <1>4 DEF N!Hold, N!Holding
  <2>3. \A j \in 0..(nb - 1) : j + 1 \in 1..nb  BY <1>2
  <2> HIDE DEF r, xs, nb
  <2>4. \A j \in 0..(nb - 1) : r.out[j + 1] = 0  BY <2>1, <2>2, <2>3, <1>2, <1>5, <1>7
  <2>5. r.s = node_state[v]  BY <2>2
  <2>6. QED  BY <1>1, <1>2, <1>5, <1>7, <2>1, <2>4, <2>5 DEF nb, HeldSo
<1>8. CASE Node(v).preset < 0
  <2>1. ~(Node(v).preset > 0) /\ Node(v).preset # 0  BY <1>8
  <2>2. r = [s |-> [node_state[v] EXCEPT !.held = xs[1]],
             out |-> [i \in DOMAIN xs |-> [node_state[v] EXCEPT !.held = xs[1]].held]]
    BY <2>1, <1>8, <1>4 DEF N!Hold, N!Holding
  <2>3. PICK a, b : node_state[v] = [held |-> a, counter |-> b]  BY <2>1, <1>5
  <2>4. [node_state[v] EXCEPT !.held = xs[1]] = [held |-> xs[1], counter |-> b]  BY <2>3
  <2>5. xs[1] = SignalOf(c)[t]
    <3>1. 1 \in 1..nb /\ t + (1 - 1) = t  BY <1>2
    <3>2. QED  BY <3>1, <1>2
  <2>6. \A j \in 0..(nb - 1) : j + 1 \in 1..nb  BY <1>2
  <2> HIDE DEF r, xs, nb
  <2>7. r = [s |-> [held |-> xs[1], counter |-> b], out |-> [i \in DOMAIN xs |-> xs[1]]]
    <3>1. [held |-> xs[1], counter |-> b].held = xs[1]  OBVIOUS
    <3>2. QED  BY <2>2, <2>4, <3>1
  <2>8. \A j \in 0..(nb - 1) : r.out[j + 1] = SignalOf(c)[t]  BY <2>5, <2>6, <2>7, <1>2
  <2>9. r.s = [held |-> r.s.held, counter |-> r.s.counter]  BY <2>7
  <2>10. QED  BY <1>1, <1>2, <2>1, <2>8, <2>9 DEF nb, HeldSo
<1>9. QED  BY <1>6, <1>7, <1>8

\* A node with a block of its sources' size is called as often as they are.
LEMMA SameBlock ==
  ASSUME Finished, NEW v \in Nodes, Node(v).bnum = Node(v).bden, NEW u \in Sources(v)
  PROVE  node_block[u] = node_block[v]
<1> USE DEF Finished, CompileInv
<1>1. u \in Nodes /\ Follows(v) /\ Follows(u)  BY Facts DEF Rated, Reached
<1>2. <<region_rate[u], blk_exp[u]>> \in Arriving(v) /\ Sources(v) # {}  BY DEF Arriving
<1>3. (\E d \in Delta(v) : blk_exp[v] = <<region_rate[u], blk_exp[u]>>[2] + d) /\ node_block[v] \in Block(blk_exp[v])
  BY <1>1, <1>2 DEF Follows
<1>4. Delta(v) \subseteq {0}
  <2>1. Node(v).bnum \in Nat /\ Node(v).bden \in Nat  BY Facts DEF NodeType
  <2>2. QED  BY <2>1 DEF Delta
<1>5. blk_exp[v] = blk_exp[u]
  <2>1. blk_exp[u] \in Int  BY <1>1 DEF Typed
  <2>2. blk_exp[v] = blk_exp[u] + 0  BY <1>3, <1>4
  <2>3. QED  BY <2>1, <2>2
<1>6. node_block[u] \in Block(blk_exp[u])
  <2> DEFINE from == IF Sources(u) = {} THEN {<<1, 0>>} ELSE Arriving(u)
  <2>1. from # {}  BY DEF Arriving
  <2>2. QED  BY <2>1, <1>1 DEF Follows
<1>7. \A e : \A x, y \in Block(e) : x = y  BY DEF Block
<1>8. QED  BY <1>3, <1>5, <1>6, <1>7

LEMMA Channelled ==
  ASSUME NEW w, NEW n \in Nat, NEW j \in 0..(n - 1)
  PROVE  F!Channels(w, n)[1][j + 1] = w[j][1] /\ F!Channels(w, n)[2][j + 1] = w[j][2]
<1>1. j + 1 \in 1..n /\ (j + 1) - 1 = j  OBVIOUS
<1>2. /\ F!Channels(w, n)[1] = [i \in 1..n |-> w[i - 1][1]]
      /\ F!Channels(w, n)[2] = [i \in 1..n |-> w[i - 1][2]]
  BY DEF F!Channels
<1>3. QED  BY <1>1, <1>2

\* The forward half of the split transform: a frame per block of its size, else silence.
Spectral(v, n, t) ==
  /\ node_block[v] # n => \A j \in 0..(node_block[v] - 1) : Computed(v, call).outs[1][j + 1] = 0
  /\ node_block[v] = n =>
       \A c \in Plain(v, 0), o \in 0..1, j \in 0..(n - 1) :
         Computed(v, call).outs[o + 1][j + 1] = F!Transform(FrameOf(SignalOf(c), t, n), n, FALSE)[j][o + 1]
LEMMA MakesASpectrum ==
  ASSUME NEW v, Called(v), ~Boundary(v), Node(v).dsp = "stft_fwd", NEW n \in F!Sizes, n = Node(v).size,
         NEW t, t = (cycle - 1) * out_stride(v) + call * node_block[v]
  PROVE  Spectral(v, n, t)
<1> DEFINE xs == Slice(v, 0, call)
           z == [i \in 0..(n - 1) |-> F!Real(xs[i + 1])]
<1>1. Computed(v, call).outs = F!Forward(xs, n, node_block[v])  BY DEF Computed, N!Stateless
<1>2. node_block[v] \in Nat \ {0} /\ n \in Nat \ {0}  BY CalledFacts DEF F!Sizes
<1>3. ASSUME node_block[v] # n, NEW j \in 0..(node_block[v] - 1)
      PROVE  Computed(v, call).outs[1][j + 1] = 0
  <2>1. j + 1 \in 1..node_block[v] /\ 1 \in 1..2  BY <1>2
  <2>2. Computed(v, call).outs = F!Mute(2, node_block[v])  BY <1>1, <1>3 DEF F!Forward
  <2>3. QED  BY <2>1, <2>2 DEF F!Mute
<1>4. ASSUME node_block[v] = n, NEW c \in Plain(v, 0), NEW o \in 0..1, NEW j \in 0..(n - 1)
      PROVE  Computed(v, call).outs[o + 1][j + 1] = F!Transform(FrameOf(SignalOf(c), t, n), n, FALSE)[j][o + 1]
  <2>1. t \in Nat /\ \A i \in 1..n : xs[i] = SignalOf(c)[t + (i - 1)]  BY <1>4, PlainSlice
  <2>2. \A i \in 0..(n - 1) : i + 1 \in 1..n /\ t + ((i + 1) - 1) = t + i  BY <1>2, <2>1
  <2>3. \A i \in 0..(n - 1) : xs[i + 1] = SignalOf(c)[t + i]
    <3> SUFFICES ASSUME NEW i \in 0..(n - 1) PROVE xs[i + 1] = SignalOf(c)[t + i]  OBVIOUS
    <3>1. PICK k \in 1..n : k = i + 1 /\ t + (k - 1) = t + i  BY <2>2
    <3>2. QED  BY <3>1, <2>1
  <2> HIDE DEF xs
  <2>4. z = FrameOf(SignalOf(c), t, n)  BY <2>3 DEF FrameOf
  <2>5. Computed(v, call).outs = F!Channels(F!Transform(z, n, FALSE), n)
    BY <1>1, <1>4 DEF F!Forward
  <2> HIDE DEF z
  <2>6. j + 1 \in 1..n /\ (j + 1) - 1 = j  BY <1>2
  <2>7. o = 0 \/ o = 1  OBVIOUS
  <2>8. PICK w : w = F!Transform(z, n, FALSE)  OBVIOUS
  <2>9. F!Channels(w, n)[1][j + 1] = w[j][1] /\ F!Channels(w, n)[2][j + 1] = w[j][2]
    BY <1>2, Channelled
  <2>10. Computed(v, call).outs[o + 1][j + 1] = w[j][o + 1]
    <3>1. Computed(v, call).outs = F!Channels(w, n)  BY <2>5, <2>8
    <3>2. CASE o = 0
      <4>1. o + 1 = 1  BY <3>2
      <4>2. QED  BY <4>1, <3>1, <2>9
    <3>3. CASE o = 1
      <4>1. o + 1 = 2  BY <3>3
      <4>2. QED  BY <4>1, <3>1, <2>9
    <3>4. QED  BY <3>2, <3>3, <2>7
  <2>11. QED  BY <2>4, <2>8, <2>10
<1>5. QED  BY <1>3, <1>4 DEF Spectral

\* A frame of a signal.
LEMMA Frames ==
  ASSUME NEW c, c.src \in Nat, c.out \in Nat, NEW t \in Nat, NEW n \in F!Sizes
  PROVE  /\ FrameOf(SignalOf(c), t, n) \in [0..(n - 1) -> Complex]
         /\ \A j \in 0..(n - 1) : FrameOf(SignalOf(c), t, n)[j] = <<SignalOf(c)[t + j], 0>>
<1>1. n \in Nat /\ SignalOf(c) \in [Nat -> Int]  BY Signals DEF F!Sizes
<1>2. \A j \in 0..(n - 1) : t + j \in Nat  BY <1>1
<1>3. \A j \in 0..(n - 1) : FrameOf(SignalOf(c), t, n)[j] = <<SignalOf(c)[t + j], 0>>
  BY DEF FrameOf, F!Real
<1>4. \A j \in 0..(n - 1) : FrameOf(SignalOf(c), t, n)[j] \in Complex
  BY <1>1, <1>2, <1>3 DEF Complex
<1>5. FrameOf(SignalOf(c), t, n) = [j \in 0..(n - 1) |-> FrameOf(SignalOf(c), t, n)[j]]  BY DEF FrameOf
<1>6. QED  BY <1>3, <1>4, <1>5

\* The backward half: the signal that was transformed, at once.
GivenBack(v, n, x, t) ==
  /\ node_block[v] # n => x = 0
  /\ node_block[v] = n =>
       \A re \in Wire(v, FALSE, 0), im \in Wire(v, FALSE, 1) : \A c \in Plain(re.src, 0) :
         Paired(v, re, im) => x = SignalOf(c)[t]
LEMMA MakesItBack ==
  ASSUME NEW v, Called(v), ~Boundary(v), Node(v).dsp = "stft_bwd", Node(v).bnum = Node(v).bden,
         NEW n \in F!Sizes, n = Node(v).size, NEW t, t = (cycle - 1) * out_stride(v) + call * node_block[v],
         NEW j \in 0..(node_block[v] - 1)
  PROVE  GivenBack(v, n, Computed(v, call).outs[1][j + 1], t + j)
<1> DEFINE xs == Slice(v, 0, call)
           ys == Slice(v, 1, call)
           z == [i \in 0..(n - 1) |-> <<xs[i + 1], ys[i + 1]>>]
<1>1. Computed(v, call).outs = F!Backward(xs, ys, n, node_block[v])  BY DEF Computed, N!Stateless
<1>2. node_block[v] \in Nat \ {0} /\ n \in Nat \ {0}  BY SMTT(30), CalledFacts DEF F!Sizes
<1>3. ASSUME node_block[v] # n PROVE Computed(v, call).outs[1][j + 1] = 0
  <2>1. j + 1 \in 1..node_block[v] /\ 1 \in 1..1  BY <1>2
  <2>2. Computed(v, call).outs = F!Mute(1, node_block[v])  BY <1>1, <1>3 DEF F!Backward
  <2>3. QED  BY <2>1, <2>2 DEF F!Mute
<1>4. ASSUME node_block[v] = n, NEW re \in Wire(v, FALSE, 0), NEW im \in Wire(v, FALSE, 1),
             NEW c \in Plain(re.src, 0), Paired(v, re, im)
      PROVE  Computed(v, call).outs[1][j + 1] = SignalOf(c)[t + j]
  <2>1. /\ Finished /\ Octaves /\ NoTinyDoubling /\ v \in Nodes /\ call \in 0..(calls[v] - 1)
        /\ cycle \in Nat \ {0} /\ out_stride(v) \in Nat \ {0}
    BY CalledFacts
  <2>2. PICK u : u = re.src /\ u = im.src  BY <1>4 DEF Paired
  <2>3. /\ u \in Sources(v) /\ u \in Nodes /\ (CHOOSE d \in Wire(v, FALSE, 0) : TRUE) = re
        /\ (CHOOSE d \in Wire(v, FALSE, 1) : TRUE) = im
        /\ re.out \in 0..(Node(u).outs - 1) /\ im.out \in 0..(Node(u).outs - 1)
    <3>1. /\ re.src \in Sources(v) /\ re.src \in Nodes /\ (CHOOSE d \in Wire(v, FALSE, 0) : TRUE) = re
          /\ re.out \in 0..(Node(re.src).outs - 1)
      BY <2>1, Wires
    <3>2. (CHOOSE d \in Wire(v, FALSE, 1) : TRUE) = im /\ im.out \in 0..(Node(im.src).outs - 1)
      BY ZenonT(30), <2>1, Wires
    <3>3. QED  BY <3>1, <3>2, <2>2
  <2>4. re.out = 0 /\ im.out = 1 /\ Node(u).dsp = "stft_fwd" /\ Node(u).size = n
    BY <1>4, <2>2 DEF Paired
  <2>5. node_block[u] = n /\ out_stride(u) = out_stride(v)
    BY <2>1, <2>3, <1>4, SameBlock, CalledSources
  <2>6. Known(u)  BY <2>4 DEF Known
  <2>7. c.src \in Nat /\ c.out \in Nat /\ c \in Plain(u, 0)  BY <2>1, <2>2, <2>3, Wires DEF Plain
  <2> DEFINE x == FrameOf(SignalOf(c), t, n)
             y == F!Transform(x, n, FALSE)
  <2>8. t \in Nat
    <3>1. call \in Nat /\ cycle - 1 \in Nat  BY <2>1
    <3>2. \A a, b \in Nat : a * b \in Nat  OBVIOUS
    <3>3. (cycle - 1) * out_stride(v) \in Nat /\ call * node_block[v] \in Nat  BY <3>1, <3>2, <2>1, <1>2
    <3>4. QED  BY <3>3
  <2>9. /\ x \in [0..(n - 1) -> Complex] /\ \A i \in 0..(n - 1) : x[i] = <<SignalOf(c)[t + i], 0>>
    BY <2>7, <2>8, Frames
  <2>10. y \in [0..(n - 1) -> Complex] /\ F!Transform(y, n, TRUE) = x
    <3> HIDE DEF x
    <3>1. QED  BY <2>9, TurnsBack
\* What arrives is y.
  <2>11. ASSUME NEW i \in 0..(n - 1) PROVE xs[i + 1] = y[i][1] /\ ys[i + 1] = y[i][2]
    <3>1. i + 1 \in 1..n /\ i \in 0..(node_block[v] - 1)  BY <1>2, <1>4
    <3>2. PICK p : p = call * node_block[v] + i  OBVIOUS
    <3>3. p \in 0..(out_stride(v) - 1)  BY <2>1, <3>1, <3>2, InCycle
    <3>4. xs[i + 1] = Fed(v, FALSE, 0, p, 0) /\ ys[i + 1] = Fed(v, FALSE, 1, p, 0)
      <4>1. xs[i + 1] = Input(v, 0, call, i + 1) /\ ys[i + 1] = Input(v, 1, call, i + 1)
        BY <3>1, <1>2, <1>4, Slices
      <4>2. Input(v, 0, call, i + 1) = Fed(v, FALSE, 0, p, 0)  BY <2>1, <3>1, <3>2, Handed
      <4>3. Input(v, 1, call, i + 1) = Fed(v, FALSE, 1, p, 0)  BY ZenonT(30), <2>1, <3>1, <3>2, Handed
      <4>4. QED  BY <4>1, <4>2, <4>3
    <3>5. Fed(v, FALSE, 0, p, 0) = Heard(u, 0, p) /\ Fed(v, FALSE, 1, p, 0) = Heard(u, 1, p)
      BY <2>2, <2>3, <2>4 DEF Fed
    <3>6. Transformed(u, p)
      <4>1. IsRight(u, p)  BY <2>3, <3>3, CalledSources
      <4>2. QED  BY <4>1, <2>4, <2>6 DEF IsRight
    <3>7. Now(u, p) = t + i /\ Now(u, p) % n = i /\ Begun(u, p, n) = t
      <4>1. Now(v, p) = t + i /\ Now(v, p) % node_block[v] = i
        <5>1. PICK o : o \in 0..(Node(v).outs - 1)
          <6>1. Declared /\ Known(v)  BY DEF Called, Ready, Known
          <6>2. Node(v).dsp \notin N!Stateless  BY DEF N!Stateless
          <6>3. Node(v).outs \in Nat /\ Node(v).outs >= 1  BY <2>1, <6>1, <6>2, Registered
          <6>4. 0 \in 0..(Node(v).outs - 1)  BY <6>3
          <6>5. QED  BY <6>4
        <5>2. QED  BY <2>1, <3>1, <3>2, <5>1, Timed
      <4>2. Now(u, p) = Now(v, p)  BY <2>5 DEF Now
      <4>3. Now(u, p) = t + i /\ Now(u, p) % n = i  BY <4>1, <4>2, <1>4
      <4>4. (t + i) - i = t  BY <2>8
      <4>5. QED  BY <4>3, <4>4 DEF Begun
    <3>8. Heard(u, 0, p) = y[i][0 + 1] /\ Heard(u, 1, p) = y[i][1 + 1]
      <4>1. 0 \in (0..1) \cap (0..(Node(u).outs - 1)) /\ 1 \in (0..1) \cap (0..(Node(u).outs - 1))
        BY <2>3, <2>4
      <4>2. \A o \in (0..1) \cap (0..(Node(u).outs - 1)) :
              Heard(u, o, p) = F!Transform(FrameOf(SignalOf(c), Begun(u, p, n), n), n, FALSE)[Now(u, p) % n][o + 1]
        BY ZenonT(30), <3>6, <2>4, <2>5, <2>7 DEF Transformed
      <4>3. \A o \in (0..1) \cap (0..(Node(u).outs - 1)) : Heard(u, o, p) = y[i][o + 1]
        BY <4>2, <3>7
      <4> HIDE DEF y
      <4>4. QED  BY <4>1, <4>3
    <3>9. 0 + 1 = 1 /\ 1 + 1 = 2  OBVIOUS
    <3>10. QED  BY <3>4, <3>5, <3>8, <3>9
  <2>12. z = y
    <3> HIDE DEF xs, ys, y
    <3>1. \A i \in 0..(n - 1) : y[i] = <<y[i][1], y[i][2]>>  BY <2>10, Complexes
    <3>2. y = [i \in 0..(n - 1) |-> y[i]]  BY <2>10
    <3>3. QED  BY <3>1, <3>2, <2>11
  <2>13. Computed(v, call).outs[1] = F!Channels(F!Transform(z, n, TRUE), n)[1]
    BY <1>1, <1>4 DEF F!Backward
  <2>14. F!Transform(z, n, TRUE) = x  BY <2>10, <2>12
  <2> HIDE DEF x, z
  <2>15. j + 1 \in 1..n /\ (j + 1) - 1 = j /\ j \in 0..(n - 1)  BY <1>2, <1>4
  <2>16. Computed(v, call).outs[1][j + 1] = x[j][1]
    <3>1. F!Channels(x, n)[1][j + 1] = x[j][1]  BY <1>2, <2>15, Channelled
    <3>2. QED  BY <3>1, <2>13, <2>14
  <2>17. QED  BY <2>9, <2>15, <2>16
<1>5. QED  BY <1>3, <1>4 DEF GivenBack

-----------------------------------------------------------------------------
(* What is right stays right.                                               *)

\* The diagram, and what else a node's samples depend on, is left alone but for time.
Settled == UNCHANGED <<vars, tunings>>
Steady == Settled /\ UNCHANGED cycle

LEMMA Settles ==
  ASSUME Settled
  PROVE  /\ \A u : Node(u)' = Node(u) /\ Known(u)' = Known(u) /\ out_stride(u)' = out_stride(u)
                   /\ PortsOf(u)' = PortsOf(u) /\ Untuned(u)' = Untuned(u) /\ HeldTo(u)' = HeldTo(u)
         /\ \A u, b, p : Wire(u, b, p)' = Wire(u, b, p)
         /\ \A u, p : Plain(u, p)' = Plain(u, p) /\ Controlled(u, p)' = Controlled(u, p)
         /\ Nodes' = Nodes /\ node_block' = node_block /\ calls' = calls
         /\ region_rate' = region_rate /\ topo_order' = topo_order
<1> USE DEF Settled, vars
<1>1. \A u : Node(u)' = Node(u) /\ Known(u)' = Known(u)  BY DEF Node, Known
<1>2. \A u : out_stride(u)' = out_stride(u)  BY DEF out_stride
<1>3. \A u : PortsOf(u)' = PortsOf(u) /\ Untuned(u)' = Untuned(u)  BY <1>1 DEF PortsOf, Untuned
<1>4. node_block' = node_block /\ calls' = calls /\ region_rate' = region_rate /\ topo_order' = topo_order
      /\ bp' = bp
  OBVIOUS
<1>5. \A u : HeldTo(u)' = HeldTo(u)  BY <1>1, <1>4 DEF HeldTo
<1>6. \A u, b, p : Wire(u, b, p)' = Wire(u, b, p)  BY <1>4 DEF Wire, Into
<1>7. \A u, p : Plain(u, p)' = Plain(u, p)  BY <1>1, <1>6 DEF Plain
<1>8. \A u, p : Controlled(u, p)' = Controlled(u, p)  BY <1>6 DEF Controlled
<1>9. Nodes' = Nodes  BY <1>4 DEF Nodes
<1>10. QED  BY <1>1, <1>2, <1>3, <1>4, <1>5, <1>6, <1>7, <1>8, <1>9

LEMMA Steadies ==
  ASSUME Steady
  PROVE  /\ Settled /\ cycle' = cycle
         /\ \A u, i : Now(u, i)' = Now(u, i)
         /\ \A u, i, m : Begun(u, i, m)' = Begun(u, i, m)
<1>1. Settled /\ cycle' = cycle  BY DEF Steady
<1>2. \A u, i : Now(u, i)' = Now(u, i)  BY <1>1, Settles DEF Now
<1>3. QED  BY <1>1, <1>2 DEF Begun

LEMMA FedKept ==
  ASSUME Finished, Steady, NEW w \in Nodes, NEW i,
         \A c \in Connections(w) : Heard(c.src, c.out, i)' = Heard(c.src, c.out, i),
         NEW b, NEW p, NEW x
  PROVE  Fed(w, b, p, i, x)' = Fed(w, b, p, i, x)
<1>0. Wire(w, b, p)' = Wire(w, b, p)  BY Steadies, Settles
<1>1. CASE Wire(w, b, p) = {}  BY <1>1, <1>0 DEF Fed
<1>2. CASE Wire(w, b, p) # {}
  <2>1. PICK c : c = CHOOSE d \in Wire(w, b, p) : TRUE  OBVIOUS
  <2>2. c \in Wire(w, b, p)  BY <2>1, <1>2
  <2>3. c \in Connections(w)  BY <2>2, Wires
  <2>4. Fed(w, b, p, i, x)' = Heard(c.src, c.out, i)'  BY <2>1, <1>2, <1>0 DEF Fed
  <2>5. Fed(w, b, p, i, x) = Heard(c.src, c.out, i)  BY <2>1, <1>2 DEF Fed
  <2>6. QED  BY <2>3, <2>4, <2>5
<1>3. QED  BY <1>1, <1>2

\* The sample a node makes stays right while that and what it was made of are left alone.
LEMMA RightKept ==
  ASSUME Finished, Declared, Steady, NEW w \in Nodes, NEW i, IsRight(w, i),
         \A o \in 0..(Node(w).outs - 1) : Heard(w, o, i)' = Heard(w, o, i),
         Known(w) => \A c \in Connections(w) : Heard(c.src, c.out, i)' = Heard(c.src, c.out, i)
  PROVE  IsRight(w, i)'
<1>1. CASE ~Known(w)
  <2>1. \A o \in 0..(Node(w).outs - 1) : Heard(w, o, i) = Signal(w, o, Now(w, i))
    BY <1>1 DEF IsRight
  <2>2. \A o, t : Signal(w, o, t)' = Signal(w, o, t)  BY DEF Signal
  <2>3. Node(w)' = Node(w) /\ Now(w, i)' = Now(w, i) /\ ~Known(w)'  BY <1>1, Steadies, Settles
  <2>4. ASSUME NEW o \in 0..(Node(w).outs - 1) PROVE Heard(w, o, i)' = Signal(w, o, Now(w, i))'
    <3>1. Signal(w, o, Now(w, i))' = Signal(w, o, Now(w, i))  BY <2>3 DEF Signal
    <3>2. QED  BY <3>1, <2>1
  <2>5. QED  BY <2>3, <2>4 DEF IsRight
<1>2. CASE Known(w)
  <2>1. /\ Sounds(w, i) /\ (Node(w).dsp = "stft_fwd" => Transformed(w, i))
        /\ \A c \in Connections(w) : Heard(c.src, c.out, i)' = Heard(c.src, c.out, i)
    BY <1>2 DEF IsRight
  <2>2. /\ Node(w)' = Node(w) /\ Known(w)' /\ Now(w, i)' = Now(w, i)
        /\ \A m : Begun(w, i, m)' = Begun(w, i, m)
        /\ PortsOf(w)' = PortsOf(w) /\ Untuned(w)' = Untuned(w) /\ HeldTo(w)' = HeldTo(w)
        /\ \A b, p : Wire(w, b, p)' = Wire(w, b, p)
        /\ \A p : Plain(w, p)' = Plain(w, p) /\ Controlled(w, p)' = Controlled(w, p)
        /\ node_block'[w] = node_block[w]
    BY <1>2, Steadies, Settles
  <2>3. \A b, p, x : Fed(w, b, p, i, x)' = Fed(w, b, p, i, x)  BY <2>1, FedKept
  <2>4. /\ Node(w).dsp \in {"stft", "stft_fwd", "stft_bwd", "counter", "sah"} \cup N!Stateless
        /\ Node(w).outs \in Nat /\ (Node(w).dsp \notin N!Stateless => Node(w).outs >= 1)
    BY <1>2, Registered
  <2>5. Node(w).dsp \notin N!Stateless => Heard(w, 0, i)' = Heard(w, 0, i)
    <3>1. Node(w).dsp \notin N!Stateless => 0 \in 0..(Node(w).outs - 1)  BY <2>4
    <3>2. QED  BY <3>1
  <2>6. CASE Node(w).dsp \in N!Stateless
    <3>1. MadeOfItsInputs(w, i)  BY <2>1, <2>6 DEF Sounds, N!Stateless
    <3>2. MadeOfItsInputs(w, i)'
      <4> SUFFICES ASSUME Untuned(w)', NEW o \in (0..(Node(w).outs - 1))'
                   PROVE  (Heard(w, o, i) =
                            N!Sample(Node(w).dsp, Node(w).outs, o, [p \in 0..(Node(w).ins - 1) |-> Fed(w, FALSE, p, i, 0)],
                                     [p \in PortsOf(w) |-> Fed(w, TRUE, p, i, Node(w).preset)]))'
        BY DEF MadeOfItsInputs
      <4>1. Untuned(w) /\ o \in 0..(Node(w).outs - 1)  BY <2>2
      <4>2. Heard(w, o, i) =
              N!Sample(Node(w).dsp, Node(w).outs, o, [p \in 0..(Node(w).ins - 1) |-> Fed(w, FALSE, p, i, 0)],
                       [p \in PortsOf(w) |-> Fed(w, TRUE, p, i, Node(w).preset)])
        BY <4>1, <3>1 DEF MadeOfItsInputs
      <4>3. /\ [p \in 0..(Node(w).ins - 1) |-> Fed(w, FALSE, p, i, 0)]' = [p \in 0..(Node(w).ins - 1) |-> Fed(w, FALSE, p, i, 0)]
            /\ [p \in PortsOf(w) |-> Fed(w, TRUE, p, i, Node(w).preset)]' = [p \in PortsOf(w) |-> Fed(w, TRUE, p, i, Node(w).preset)]
        BY <2>2, <2>3
      <4>4. QED  BY <4>1, <4>2, <4>3, <2>2
    <3>3. Node(w)'.dsp \in N!Stateless /\ Node(w)'.dsp # "stft_fwd"  BY <2>2, <2>6 DEF N!Stateless
    <3>4. Sounds(w, i)'
      <4>1. Sounds(w, i)' = MadeOfItsInputs(w, i)'  BY <3>3 DEF Sounds, N!Stateless
      <4>2. QED  BY <4>1, <3>2
    <3>5. QED  BY <2>2, <3>3, <3>4 DEF IsRight
  <2>7. CASE Node(w).dsp = "counter"
    <3>1. Heard(w, 0, i) = Fed(w, FALSE, 0, i, 0) /\ Node(w).dsp \notin N!Stateless
      BY <2>1, <2>7 DEF Sounds, N!Stateless
    <3>2. Heard(w, 0, i)' = Fed(w, FALSE, 0, i, 0)'  BY <3>1, <2>3, <2>5
    <3>3. QED  BY <3>2, <2>2, <2>7 DEF IsRight, Sounds, N!Stateless
  <2>8. CASE Node(w).dsp = "sah"
    <3>1. Held(w, i) /\ Node(w).dsp \notin N!Stateless  BY <2>1, <2>8 DEF Sounds, N!Stateless
    <3>2. Held(w, i)'  BY <3>1, <2>2, <2>5 DEF Held, Signal
    <3>3. QED  BY <3>2, <2>2, <2>8 DEF IsRight, Sounds, N!Stateless
  <2>9. CASE Node(w).dsp = "stft"
    <3>1. Reconstructed(w, i) /\ Node(w).dsp \notin N!Stateless  BY <2>1, <2>9 DEF Sounds, N!Stateless
    <3>2. Reconstructed(w, i)'  BY <3>1, <2>2, <2>5 DEF Reconstructed, Signal
    <3>3. QED  BY <3>2, <2>2, <2>9 DEF IsRight, Sounds, N!Stateless
  <2>10. CASE Node(w).dsp = "stft_fwd"
    <3>1. (node_block[w] # Node(w).size => Heard(w, 0, i) = 0) /\ Node(w).dsp \notin N!Stateless
      BY <2>1, <2>10 DEF Sounds, N!Stateless
    <3>2. (node_block[w] # Node(w).size => Heard(w, 0, i) = 0)'  BY <3>1, <2>2, <2>5
    <3>3. Transformed(w, i)'
      <4>1. Transformed(w, i)  BY <2>1, <2>10
      <4> DEFINE z(c, n) == FrameOf(SignalOf(c), Begun(w, i, n), n)
      <4>2. \A c, n : z(c, n)' = z(c, n)  BY <2>2 DEF FrameOf, SignalOf, Signal
      <4>3. node_block[w] = Node(w).size =>
              \A c \in Plain(w, 0) : \A o \in (0..1) \cap (0..(Node(w).outs - 1)) :
                Heard(w, o, i) = F!Transform(z(c, Node(w).size), Node(w).size, FALSE)[Now(w, i) % Node(w).size][o + 1]
        BY <4>1 DEF Transformed
      <4> HIDE DEF z
      <4>4. ASSUME node_block[w] = Node(w).size, NEW c \in Plain(w, 0), NEW o \in (0..1) \cap (0..(Node(w).outs - 1))
            PROVE  Heard(w, o, i)' = F!Transform(z(c, Node(w).size), Node(w).size, FALSE)[Now(w, i) % Node(w).size][o + 1]
        BY <4>3, <4>4
      <4>5. QED  BY <4>2, <4>4, <2>2 DEF Transformed, z
    <3>4. QED  BY <3>2, <3>3, <2>2, <2>10 DEF IsRight, Sounds, N!Stateless
  <2>11. CASE Node(w).dsp = "stft_bwd"
    <3>1. TurnedBack(w, i) /\ Node(w).dsp \notin N!Stateless  BY <2>1, <2>11 DEF Sounds, N!Stateless
    <3>2. TurnedBack(w, i)'
      <4>1. \A u : Node(u)' = Node(u)  BY Steadies, Settles
      <4>2. \A re, im : Paired(w, re, im)' = Paired(w, re, im)  BY <4>1 DEF Paired
      <4>3. \A u : Plain(u, 0)' = Plain(u, 0)  BY Steadies, Settles
      <4>4. QED  BY <3>1, <4>2, <4>3, <2>2, <2>5 DEF TurnedBack, Signal
    <3>3. QED  BY <3>2, <2>2, <2>11 DEF IsRight, Sounds, N!Stateless
  <2>12. QED  BY <2>4, <2>6, <2>7, <2>8, <2>9, <2>10, <2>11
<1>3. QED  BY <1>1, <1>2

-----------------------------------------------------------------------------
(* A call makes its samples right.                                          *)

\* What a call was handed is still there.
LEMMA SourcesKept ==
  ASSUME NEW v, Called(v), Known(v), Process(v), Steady, NEW i \in 0..(out_stride(v) - 1),
         NEW c \in Connections(v)
  PROVE  Heard(c.src, c.out, i)' = Heard(c.src, c.out, i)
<1>1. /\ Finished /\ Octaves /\ NoTinyDoubling /\ v \in Nodes /\ call \in 0..(calls[v] - 1)
      /\ DOMAIN buffer_pool = 0..(off.out - 1) /\ Declared
  BY CalledFacts DEF Called, Ready
<1>2. ~Boundary(v)  BY <1>1, Registered
<1>3. PICK b, p : c \in Wire(v, b, p)  BY DEF Connections, Wire
<1>4. c.src \in Sources(v) /\ c.out \in 0..(Node(c.src).outs - 1)  BY <1>1, <1>3, Wires
<1>5. c.src \in Nodes /\ c.src # v /\ out_stride(c.src) = out_stride(v)  BY <1>2, <1>4, CalledSources
<1>6. UNCHANGED vars  BY DEF Steady, Settled
<1>7. QED  BY <1>1, <1>4, <1>5, <1>6, CallKeeps

\* The samples it makes.
LEMMA CallMakes ==
  ASSUME NEW v, Called(v), Process(v), Steady, NEW j \in 0..(node_block[v] - 1),
         NEW i, i = call * node_block[v] + j, NEW o \in 0..(Node(v).outs - 1)
  PROVE  Heard(v, o, i)' = IF Known(v) THEN Computed(v, call).outs[o + 1][j + 1]
                           ELSE Signal(v, o, Now(v, i))
<1>1. /\ Finished /\ Octaves /\ NoTinyDoubling /\ v \in Nodes /\ call \in 0..(calls[v] - 1)
      /\ cycle \in Nat \ {0} /\ DOMAIN buffer_pool = 0..(off.out - 1)
  BY CalledFacts
<1>2. UNCHANGED vars  BY DEF Steady, Settled
<1>3. QED  BY <1>1, <1>2, CallHears

\* A moment's time.
LEMMA CallTimed ==
  ASSUME NEW v, Called(v), NEW j \in 0..(node_block[v] - 1), NEW i, i = call * node_block[v] + j,
         NEW o \in 0..(Node(v).outs - 1), NEW t, t = (cycle - 1) * out_stride(v) + call * node_block[v]
  PROVE  /\ i \in 0..(out_stride(v) - 1) /\ t \in Nat /\ t + j \in Nat
         /\ Now(v, i) = t + j /\ Now(v, i) % node_block[v] = j /\ Begun(v, i, node_block[v]) = t
<1>1. /\ Finished /\ Octaves /\ NoTinyDoubling /\ v \in Nodes /\ call \in 0..(calls[v] - 1)
      /\ cycle \in Nat \ {0} /\ node_block[v] \in Nat \ {0}
  BY CalledFacts
<1>2. i \in 0..(out_stride(v) - 1)  BY <1>1, InCycle
<1>3. t \in Nat /\ Now(v, i) = t + j /\ Now(v, i) % node_block[v] = j  BY <1>1, Timed
<1>4. (t + j) - j = t /\ t + j \in Nat  BY <1>1, <1>3
<1>5. QED  BY <1>2, <1>3, <1>4 DEF Begun

LEMMA MadeRight ==
  ASSUME NEW v, Called(v), Process(v), Steady, NEW j \in 0..(node_block[v] - 1),
         NEW i, i = call * node_block[v] + j
  PROVE  IsRight(v, i)'
<1>0. /\ Finished /\ Octaves /\ NoTinyDoubling /\ v \in Nodes /\ Declared /\ node_block[v] \in Nat \ {0}
      /\ call \in 0..(calls[v] - 1)
  BY CalledFacts DEF Called, Ready
<1>1. CASE ~Known(v)
  <2>1. Node(v)' = Node(v) /\ Now(v, i)' = Now(v, i) /\ ~Known(v)'  BY <1>1, Steadies, Settles
  <2>2. ASSUME NEW o \in 0..(Node(v).outs - 1) PROVE Heard(v, o, i)' = Signal(v, o, Now(v, i))'
    <3>1. Heard(v, o, i)' = Signal(v, o, Now(v, i))  BY <1>1, CallMakes
    <3>2. Signal(v, o, Now(v, i))' = Signal(v, o, Now(v, i))  BY <2>1 DEF Signal
    <3>3. QED  BY <3>1, <3>2
  <2>3. QED  BY <2>1, <2>2 DEF IsRight
<1>2. CASE Known(v)
  <2>1. /\ ~Boundary(v) /\ Node(v).bnum = Node(v).bden
        /\ Node(v).dsp \notin N!Stateless => Node(v).outs >= 1
        /\ Node(v).dsp = "sah" => Node(v).params >= 1
        /\ Node(v).dsp \in {"stft", "stft_fwd", "stft_bwd"} => Node(v).size \in F!Sizes
        /\ Node(v).dsp \in {"stft", "stft_fwd", "stft_bwd", "counter", "sah"} \cup N!Stateless
        /\ Node(v).outs \in Nat /\ Node(v).preset \in Int
    BY <1>0, <1>2, Registered
  <2>2. PICK t : t = (cycle - 1) * out_stride(v) + call * node_block[v]  OBVIOUS
  <2>3. i \in 0..(out_stride(v) - 1)  BY <1>0, InCycle
  <2>4. \A b, p, x : Fed(v, b, p, i, x)' = Fed(v, b, p, i, x)
    <3>1. \A c \in Connections(v) : Heard(c.src, c.out, i)' = Heard(c.src, c.out, i)
      BY <1>2, <2>3, SourcesKept
    <3>2. QED  BY <1>0, <3>1, FedKept
  <2>5. \A o \in 0..(Node(v).outs - 1) : Heard(v, o, i)' = Computed(v, call).outs[o + 1][j + 1]
    BY <1>2, CallMakes
  <2>6. /\ Node(v)' = Node(v) /\ Known(v)' /\ Now(v, i)' = Now(v, i)
        /\ \A m : Begun(v, i, m)' = Begun(v, i, m)
        /\ PortsOf(v)' = PortsOf(v) /\ Untuned(v)' = Untuned(v) /\ HeldTo(v)' = HeldTo(v)
        /\ \A b, p : Wire(v, b, p)' = Wire(v, b, p)
        /\ \A p : Plain(v, p)' = Plain(v, p) /\ Controlled(v, p)' = Controlled(v, p)
        /\ node_block'[v] = node_block[v]
    BY <1>2, Steadies, Settles
  <2>7. ASSUME Node(v).dsp \notin N!Stateless
        PROVE  /\ Heard(v, 0, i)' = Computed(v, call).outs[1][j + 1] /\ 0 \in 0..(Node(v).outs - 1)
               /\ t \in Nat /\ t + j \in Nat /\ Now(v, i) = t + j /\ Now(v, i) % node_block[v] = j
               /\ Begun(v, i, node_block[v]) = t
    <3>1. 0 \in 0..(Node(v).outs - 1) /\ 0 + 1 = 1  BY <2>1, <2>7
    <3>2. /\ t \in Nat /\ t + j \in Nat /\ Now(v, i) = t + j /\ Now(v, i) % node_block[v] = j
          /\ Begun(v, i, node_block[v]) = t
      BY <2>2, <3>1, CallTimed
    <3>3. QED  BY <2>5, <3>1, <3>2
  <2>8. CASE Node(v).dsp \in N!Stateless
    <3>1. MadeOfItsInputs(v, i)'
      <4> SUFFICES ASSUME Untuned(v)', NEW o \in (0..(Node(v).outs - 1))'
                   PROVE  (Heard(v, o, i) =
                            N!Sample(Node(v).dsp, Node(v).outs, o, [p \in 0..(Node(v).ins - 1) |-> Fed(v, FALSE, p, i, 0)],
                                     [p \in PortsOf(v) |-> Fed(v, TRUE, p, i, Node(v).preset)]))'
        BY DEF MadeOfItsInputs
      <4>1. Untuned(v) /\ o \in 0..(Node(v).outs - 1)  BY <2>6
      <4>2. Heard(v, o, i)' =
              N!Sample(Node(v).dsp, Node(v).outs, o, [p \in 0..(Node(v).ins - 1) |-> Fed(v, FALSE, p, i, 0)],
                       [p \in PortsOf(v) |-> Fed(v, TRUE, p, i, Node(v).preset)])
        <5>1. Computed(v, call).outs[o + 1][j + 1] =
                N!Sample(Node(v).dsp, Node(v).outs, o, [p \in 0..(Node(v).ins - 1) |-> Fed(v, FALSE, p, i, 0)],
                         [p \in PortsOf(v) |-> Fed(v, TRUE, p, i, Node(v).preset)])
          BY <4>1, <2>1, <2>8, MakesASample
        <5>2. QED  BY <5>1, <4>1, <2>5
      <4>3. /\ [p \in 0..(Node(v).ins - 1) |-> Fed(v, FALSE, p, i, 0)]' = [p \in 0..(Node(v).ins - 1) |-> Fed(v, FALSE, p, i, 0)]
            /\ [p \in PortsOf(v) |-> Fed(v, TRUE, p, i, Node(v).preset)]' = [p \in PortsOf(v) |-> Fed(v, TRUE, p, i, Node(v).preset)]
        BY <2>4, <2>6
      <4>4. QED  BY <4>2, <4>3, <2>6
    <3>2. Node(v)'.dsp \in N!Stateless /\ Node(v)'.dsp # "stft_fwd"  BY <2>6, <2>8 DEF N!Stateless
    <3>3. Sounds(v, i)'
      <4>1. Sounds(v, i)' = MadeOfItsInputs(v, i)'  BY <3>2 DEF Sounds, N!Stateless
      <4>2. QED  BY <4>1, <3>1
    <3>4. QED  BY <2>6, <3>2, <3>3 DEF IsRight
  <2>9. CASE Node(v).dsp = "counter"
    <3>1. Node(v).dsp \notin N!Stateless  BY <2>9 DEF N!Stateless
    <3>2. Computed(v, call).outs[1][j + 1] = Fed(v, FALSE, 0, i, 0)  BY <2>1, <2>9, MakesACount
    <3>3. Heard(v, 0, i)' = Fed(v, FALSE, 0, i, 0)'  BY <3>1, <3>2, <2>4, <2>7
    <3>4. QED  BY <3>3, <2>6, <2>9 DEF IsRight, Sounds, N!Stateless
  <2>10. CASE Node(v).dsp = "sah"
    <3>1. Node(v).dsp \notin N!Stateless  BY <2>10 DEF N!Stateless
    <3>2. ASSUME Untuned(v), Controlled(v, 0), NEW c \in Plain(v, 0)
          PROVE  Heard(v, 0, i)' = IF Node(v).preset = 0 THEN 0 ELSE Signal(c.src, c.out, Begun(v, i, HeldTo(v)))
      <4>0. HeldSo(v, c, t)  BY <2>1, <2>2, <2>10, <3>2, MakesAHold
      <4>1. /\ Node(v).preset > 0 => HeldTo(v) \in Nat \ {0}
            /\ Computed(v, call).outs[1][j + 1] =
                 CASE Node(v).preset = 0 -> 0
                   [] Node(v).preset > 0 -> SignalOf(c)[(t + j) - ((t + j) % HeldTo(v))]
                   [] OTHER -> SignalOf(c)[t]
        BY <4>0 DEF HeldSo
      <4>2. CASE Node(v).preset = 0
        <5>1. ~(Node(v).preset > 0)  BY <4>2
        <5>2. QED  BY <5>1, <4>1, <4>2, <2>7, <3>1
      <4>3. CASE Node(v).preset > 0
        <5>1. Node(v).preset # 0  BY <4>3
        <5>2. Computed(v, call).outs[1][j + 1] = SignalOf(c)[(t + j) - ((t + j) % HeldTo(v))]
          BY <4>1, <4>3, <5>1
        <5>3. (t + j) - ((t + j) % HeldTo(v)) \in Nat
          <6>1. PICK q \in Nat, h \in Nat \ {0} : q = t + j /\ h = HeldTo(v)  BY <2>7, <3>1, <4>1, <4>3
          <6>2. q % h \in 0..(h - 1) /\ q % h <= q  BY Round
          <6>3. q - (q % h) \in Nat  BY <6>2
          <6>4. QED  BY <6>1, <6>3
        <5>4. SignalOf(c)[(t + j) - ((t + j) % HeldTo(v))] = Signal(c.src, c.out, (t + j) - ((t + j) % HeldTo(v)))
          BY <5>3 DEF SignalOf
        <5>5. Begun(v, i, HeldTo(v)) = (t + j) - ((t + j) % HeldTo(v))  BY <2>7, <3>1 DEF Begun
        <5>6. QED  BY <5>1, <5>2, <5>4, <5>5, <2>7, <3>1
      <4>4. CASE Node(v).preset < 0
        <5>1. Node(v).preset # 0 /\ ~(Node(v).preset > 0)  BY <4>4, <2>1
        <5>2. Computed(v, call).outs[1][j + 1] = SignalOf(c)[t]  BY <4>1, <5>1
        <5>3. HeldTo(v) = node_block[v]  BY <5>1 DEF HeldTo
        <5>4. SignalOf(c)[t] = Signal(c.src, c.out, t)  BY <2>7, <3>1 DEF SignalOf
        <5>5. QED  BY <5>1, <5>2, <5>3, <5>4, <2>7, <3>1
      <4>5. QED  BY <4>2, <4>3, <4>4, <2>1
    <3>3. Held(v, i)'  BY <3>2, <2>6 DEF Held, Signal
    <3>4. QED  BY <3>3, <2>6, <2>10 DEF IsRight, Sounds, N!Stateless
  <2>11. CASE Node(v).dsp = "stft"
    <3>1. Node(v).dsp \notin N!Stateless  BY <2>11 DEF N!Stateless
    <3>2. PICK n \in F!Sizes : n = Node(v).size  BY <2>1, <2>11
    <3>3. ASSUME NEW c \in Plain(v, 0)
          PROVE  /\ Now(v, i) < n - 1 => Heard(v, 0, i)' = 0
                 /\ Now(v, i) >= (n - 1) + n \div 2 => Heard(v, 0, i)' = Signal(c.src, c.out, Now(v, i) - (n - 1))
      <4>1. Computed(v, call).outs[1][j + 1] = Late(SignalOf(c), t + j, n)
        BY <2>1, <2>2, <2>11, <3>2, MakesAnOverlap
      <4>2. c.src \in Nat /\ c.out \in Nat  BY <1>0, Wires DEF Plain
      <4>3. SignalOf(c) \in [Nat -> Int] /\ \A q \in Nat : \E a \in Int : SignalOf(c)[q] = 2 * a
        BY <4>2, Signals
      <4>4. PICK x : x = SignalOf(c)  OBVIOUS
      <4>10. PICK q \in Nat : q = t + j  BY <2>7, <3>1
      <4>5. x \in [Nat -> Int] /\ \A r \in Nat : \E a \in Int : x[r] = 2 * a  BY <4>3, <4>4
      <4>6. /\ q < n - 1 => Late(x, q, n) = 0
            /\ q >= (n - 1) + (n \div 2) => Late(x, q, n) = x[q - (n - 1)]
        BY <4>5, LateIsTheInput
      <4>7. q >= (n - 1) + (n \div 2) => x[q - (n - 1)] = Signal(c.src, c.out, q - (n - 1))
        <5>1. q >= (n - 1) + (n \div 2) => q - (n - 1) \in Nat
          <6>1. CASE n = 2  BY <6>1
          <6>2. CASE n = 4  BY <6>2
          <6>3. QED  BY <6>1, <6>2 DEF F!Sizes
        <5>2. QED  BY <5>1, <4>4 DEF SignalOf
      <4>8. Heard(v, 0, i)' = Late(x, q, n) /\ Now(v, i) = q  BY <4>1, <4>4, <4>10, <2>7, <3>1
      <4>9. QED  BY <4>6, <4>7, <4>8
    <3>4. Reconstructed(v, i)'  BY <3>2, <3>3, <2>6 DEF Reconstructed, Signal
    <3>5. QED  BY <3>4, <2>6, <2>11 DEF IsRight, Sounds, N!Stateless
  <2>12. CASE Node(v).dsp = "stft_fwd"
    <3>1. Node(v).dsp \notin N!Stateless  BY <2>12 DEF N!Stateless
    <3>2. PICK n \in F!Sizes : n = Node(v).size  BY <2>1, <2>12
    <3>3. Spectral(v, n, t)  BY <2>1, <2>2, <2>12, <3>2, MakesASpectrum
    <3>4. (node_block[v] # Node(v).size => Heard(v, 0, i) = 0)'
      BY <3>1, <3>2, <3>3, <2>6, <2>7 DEF Spectral
    <3>5. Transformed(v, i)'
      <4> DEFINE z(c, m) == FrameOf(SignalOf(c), Begun(v, i, m), m)
      <4>1. \A c, m : z(c, m)' = z(c, m)  BY <2>6 DEF FrameOf, SignalOf, Signal
      <4>2. ASSUME node_block[v] = n, NEW c \in Plain(v, 0), NEW o \in (0..1) \cap (0..(Node(v).outs - 1))
            PROVE  Heard(v, o, i)' = F!Transform(z(c, n), n, FALSE)[Now(v, i) % n][o + 1]
        <5>1. z(c, n) = FrameOf(SignalOf(c), t, n) /\ Now(v, i) % n = j  BY <4>2, <2>7, <3>1
        <5>2. Computed(v, call).outs[o + 1][j + 1] = F!Transform(FrameOf(SignalOf(c), t, n), n, FALSE)[j][o + 1]
          BY <4>2, <3>3 DEF Spectral
        <5> HIDE DEF z
        <5>3. QED  BY <5>1, <5>2, <2>5, <4>2
      <4> HIDE DEF z
      <4>3. ASSUME node_block[v] = Node(v).size, NEW c \in Plain(v, 0), NEW o \in (0..1) \cap (0..(Node(v).outs - 1))
            PROVE  Heard(v, o, i)' = F!Transform(z(c, Node(v).size), Node(v).size, FALSE)[Now(v, i) % Node(v).size][o + 1]
        BY <4>2, <4>3, <3>2
      <4>4. QED  BY ZenonT(30), <4>1, <4>3, <2>6 DEF Transformed, z
    <3>6. QED  BY <3>4, <3>5, <2>6, <2>12 DEF IsRight, Sounds, N!Stateless
  <2>13. CASE Node(v).dsp = "stft_bwd"
    <3>1. Node(v).dsp \notin N!Stateless  BY <2>13 DEF N!Stateless
    <3>2. PICK n \in F!Sizes : n = Node(v).size  BY <2>1, <2>13
    <3>3. GivenBack(v, n, Computed(v, call).outs[1][j + 1], t + j)  BY <2>1, <2>2, <2>13, <3>2, MakesItBack
    <3>4. ASSUME NEW re \in Wire(v, FALSE, 0), NEW im \in Wire(v, FALSE, 1), NEW c \in Plain(re.src, 0),
                 Paired(v, re, im)
          PROVE  Heard(v, 0, i)' = IF node_block[v] = n THEN Signal(c.src, c.out, Now(v, i)) ELSE 0
      <4>1. SignalOf(c)[t + j] = Signal(c.src, c.out, t + j)  BY <2>7, <3>1 DEF SignalOf
      <4>2. QED  BY <4>1, <3>1, <3>3, <3>4, <2>7 DEF GivenBack
    <3>5. TurnedBack(v, i)'
      <4>1. \A u : Node(u)' = Node(u)  BY Steadies, Settles
      <4>2. \A re, im : Paired(v, re, im)' = Paired(v, re, im)  BY <4>1 DEF Paired
      <4>3. \A u : Plain(u, 0)' = Plain(u, 0)  BY Steadies, Settles
      <4>4. QED  BY <3>2, <3>4, <4>2, <4>3, <2>6 DEF TurnedBack, Signal
    <3>6. QED  BY <3>5, <2>6, <2>13 DEF IsRight, Sounds, N!Stateless
  <2>14. QED  BY <2>1, <2>8, <2>9, <2>10, <2>11, <2>12, <2>13
<1>3. QED  BY <1>1, <1>2

-----------------------------------------------------------------------------
(* What a node keeps.                                                       *)

\* Nothing is asked of a node without a memory.
LEMMA NothingKept ==
  ASSUME NEW v, Node(v).dsp \notin {"counter", "sah", "stft"}, NEW s, NEW m PROVE Kept(v, s, m)
BY DEF Kept

\* Between calls it is as right as it was, also if a port is set meanwhile.
LEMMA KeptStays ==
  ASSUME UNCHANGED <<vars, cycle>>, NEW w, Untuned(w)' => Untuned(w), NEW s, NEW m, Kept(w, s, m)
  PROVE  Kept(w, s, m)'
<1>1. bp' = bp /\ cycle' = cycle /\ calls' = calls /\ node_block' = node_block /\ region_rate' = region_rate
  BY DEF vars
<1>2. \A u : Node(u)' = Node(u) /\ out_stride(u)' = out_stride(u) /\ HeldTo(u)' = HeldTo(u) /\ Known(u)' = Known(u)
  BY <1>1 DEF Node, out_stride, HeldTo, vars, Known
<1>3. \A p : Plain(w, p)' = Plain(w, p) /\ Controlled(w, p)' = Controlled(w, p)
  BY <1>1, <1>2 DEF Plain, Wire, Into, Controlled
<1>4. \A c : SignalOf(c)' = SignalOf(c)  BY DEF SignalOf, Signal
<1>5. QED  BY <1>1, <1>2, <1>3, <1>4 DEF Kept

\* The samples of one call more.
LEMMA MoreSamples ==
  ASSUME NEW v, Called(v), NEW t, t = (cycle - 1) * out_stride(v) + call * node_block[v]
  PROVE  t + node_block[v] = (cycle - 1) * out_stride(v) + (call + 1) * node_block[v]
<1>1. /\ call \in 0..(calls[v] - 1) /\ node_block[v] \in Nat \ {0} /\ out_stride(v) \in Nat \ {0}
      /\ cycle \in Nat \ {0}
  BY CalledFacts
<1>2. PICK k \in Nat, d \in Nat, S \in Nat, c \in Nat :
        k = call /\ d = node_block[v] /\ S = out_stride(v) /\ c = cycle - 1
  <2>1. call \in Nat /\ cycle - 1 \in Nat  BY <1>1
  <2>2. QED  BY <2>1, <1>1
<1>3. PICK a \in Nat, x \in Nat : a = c * S /\ x = k * d  OBVIOUS
<1>4. (k + 1) * d = x + d  BY <1>3
<1>5. (a + x) + d = a + (x + d)  OBVIOUS
<1>6. QED  BY <1>2, <1>3, <1>4, <1>5

\* A call leaves what the next one needs,
LEMMA KeptOnward ==
  ASSUME NEW v, Called(v), Known(v) PROVE Kept(v, Computed(v, call).s, call + 1)
<1>0. Finished /\ Declared /\ v \in Nodes /\ Kept(v, node_state[v], call)  BY CalledFacts DEF Called, Ready
<1>1. /\ ~Boundary(v)
      /\ Node(v).dsp = "sah" => Node(v).params >= 1
      /\ Node(v).dsp \in {"stft", "stft_fwd", "stft_bwd"} => Node(v).size \in F!Sizes
      /\ Node(v).preset \in Int
  BY <1>0, Registered
<1>2. PICK t : t = (cycle - 1) * out_stride(v) + call * node_block[v]  OBVIOUS
<1>3. t + node_block[v] = (cycle - 1) * out_stride(v) + (call + 1) * node_block[v]  BY <1>2, MoreSamples
<1>4. CASE Node(v).dsp = "counter"
  <2>1. Computed(v, call).s = [calls |-> node_state[v].calls + 1]  BY <1>1, <1>4, MakesACount
  <2>2. node_state[v] = [calls |-> (cycle - 1) * calls[v] + call]  BY <1>0, <1>4 DEF Kept
  <2>3. node_state[v].calls + 1 = (cycle - 1) * calls[v] + (call + 1)
    <3>1. call \in 0..(calls[v] - 1) /\ calls[v] \in Nat /\ cycle - 1 \in Nat  BY CalledFacts
    <3>2. (cycle - 1) * calls[v] \in Nat
      <4>1. \A a, b \in Nat : a * b \in Nat  OBVIOUS
      <4>2. QED  BY <4>1, <3>1
    <3>3. PICK a \in Nat, k \in Nat : a = (cycle - 1) * calls[v] /\ k = call  BY <3>1, <3>2
    <3>4. node_state[v].calls = a + k  BY <2>2, <3>3
    <3>5. (a + k) + 1 = a + (k + 1)  OBVIOUS
    <3>6. QED  BY <3>3, <3>4, <3>5
  <2>4. QED  BY <2>1, <2>3, <1>4 DEF Kept
<1>5. CASE Node(v).dsp = "sah"
  <2> SUFFICES ASSUME Untuned(v), Controlled(v, 0)
               PROVE  \A c \in Plain(v, 0) :
                        LET s == Computed(v, call).s IN
                        IF Node(v).preset > 0 THEN Holds(s, SignalOf(c), t + node_block[v], HeldTo(v))
                        ELSE s = [held |-> s.held, counter |-> s.counter] /\ (Node(v).preset = 0 => s.held = 0)
    BY <1>3, <1>5 DEF Kept
  <2>1. \A c \in Plain(v, 0) : HeldSo(v, c, t)  BY <1>1, <1>2, <1>5, MakesAHold
  <2>2. QED  BY <2>1 DEF HeldSo
<1>6. CASE Node(v).dsp = "stft"
  <2>1. PICK n \in F!Sizes : n = Node(v).size  BY <1>1, <1>6
  <2>2. \A c \in Plain(v, 0) : Overlapping(Computed(v, call).s, SignalOf(c), t + node_block[v], n)
    BY <1>1, <1>2, <1>6, <2>1, MakesAnOverlap
  <2>3. QED  BY <2>1, <2>2, <1>3, <1>6 DEF Kept
<1>7. QED  BY <1>4, <1>5, <1>6, NothingKept

\* and the ports it was not told to leave where they are.
LEMMA PresetsKept ==
  ASSUME NEW v, UpdateRamps(v), Settled, PresetsStay PROVE PresetsStay'
<1> DEFINE G(p) == IF Controlled(v, p) THEN [controls[v][p] EXCEPT !.current = controls[v][p].target]
                   ELSE controls[v][p]
<1>1. controls' = [controls EXCEPT ![v] = [p \in PortsOf(v) |-> G(p)]]
  BY DEF UpdateRamps
<1> HIDE DEF G
<1>2. DOMAIN controls' = Nodes  BY <1>1 DEF PresetsStay
<1>3. ASSUME NEW w \in Nodes
      PROVE  /\ DOMAIN controls'[w] = PortsOf(w)
             /\ Untuned(w) => \A p \in PortsOf(w) :
                  controls'[w][p] = [current |-> Node(w).preset, target |-> Node(w).preset]
  <2>1. /\ DOMAIN controls[w] = PortsOf(w)
        /\ Untuned(w) => \A p \in PortsOf(w) :
             controls[w][p] = [current |-> Node(w).preset, target |-> Node(w).preset]
    BY DEF PresetsStay
  <2>2. CASE w # v
    <3>1. controls'[w] = controls[w]  BY <1>1, <2>2
    <3>2. QED  BY <3>1, <2>1
  <2>3. CASE w = v
    <3>1. controls'[w] = [p \in PortsOf(w) |-> G(p)]  BY <1>1, <2>3 DEF PresetsStay
    <3>2. ASSUME Untuned(w), NEW p \in PortsOf(w)
          PROVE  controls'[w][p] = [current |-> Node(w).preset, target |-> Node(w).preset]
      <4>1. controls[w][p] = [current |-> Node(w).preset, target |-> Node(w).preset]  BY <2>1, <3>2
      <4>2. G(p) = [current |-> Node(w).preset, target |-> Node(w).preset]  BY <4>1, <2>3 DEF G
      <4>3. QED  BY <3>1, <3>2, <4>2
    <3>3. QED  BY <3>1, <3>2
  <2>4. QED  BY <2>2, <2>3
<1>4. /\ Nodes' = Nodes /\ \A w : PortsOf(w)' = PortsOf(w) /\ Untuned(w)' = Untuned(w) /\ Node(w)' = Node(w)
  BY Settles
<1>5. QED  BY <1>2, <1>3, <1>4 DEF PresetsStay

-----------------------------------------------------------------------------
(* Every step.                                                              *)

\* One call of one node counts as that.
LEMMA CallCounts ==
  ASSUME Ready, Call, NEW k \in DOMAIN topo_order
  PROVE  CallsMade(k)' = IF k = pos THEN call + 1 ELSE CallsMade(k)
<1>1. /\ topo_order' = topo_order /\ calls' = calls /\ Running
      /\ IF call + 1 < calls[Current] THEN call' = call + 1 /\ pos' = pos ELSE call' = 0 /\ pos' = pos + 1
  BY DEF Call, vars
<1>2. PICK v : v = Current  OBVIOUS
<1>3. v \in Nodes
  <2>1. pos \in 1..Len(topo_order) /\ Typed  BY <1>1 DEF Running, Ready, CompileInv
  <2>2. QED  BY <2>1, <1>2, Facts, ElementOfSeq DEF Current
<1>4. /\ pos \in DOMAIN topo_order /\ call \in 0..(calls[v] - 1) /\ calls[v] \in Nat \ {0} /\ v = topo_order[pos]
      /\ Finished
  BY <1>1, <1>2, <1>3, CalledFacts DEF Called
<1>5. DOMAIN topo_order = 1..Len(topo_order) /\ Len(topo_order) \in Nat  BY <1>4, Facts DEF Finished, CompileInv
<1>6. CASE call + 1 < calls[v]
  <2>1. call' = call + 1 /\ pos' = pos  BY <1>1, <1>2, <1>6
  <2>2. CASE k = pos  BY <2>1, <2>2, <1>1, <1>4, <1>5 DEF CallsMade
  <2>3. CASE k # pos  BY <2>1, <2>3, <1>1, <1>4, <1>5 DEF CallsMade
  <2>4. QED  BY <2>2, <2>3
<1>7. CASE ~(call + 1 < calls[v])
  <2>1. call' = 0 /\ pos' = pos + 1 /\ call + 1 = calls[v]  BY <1>1, <1>2, <1>4, <1>7
  <2>2. CASE k = pos
    <3>1. k < pos' /\ pos' # 0  BY <2>1, <2>2, <1>4, <1>5
    <3>2. CallsMade(k)' = calls[v]  BY <3>1, <2>2, <1>1, <1>4 DEF CallsMade
    <3>3. QED  BY <3>2, <2>1, <2>2
  <2>3. CASE k < pos
    <3>1. k < pos' /\ k # pos  BY <2>1, <2>3, <1>4, <1>5
    <3>2. QED  BY <3>1, <2>3, <1>1 DEF CallsMade
  <2>4. CASE k > pos
    <3>1. ~(k < pos') /\ ~(k < pos) /\ k # pos /\ pos' # 0 /\ pos # 0  BY <2>1, <2>4, <1>4, <1>5
    <3>2. CallsMade(k) = 0 /\ CallsMade(k)' = 0  BY <3>1, <2>1 DEF CallsMade
    <3>3. QED  BY <3>1, <3>2
  <2>5. QED  BY <2>2, <2>3, <2>4, <1>4, <1>5
<1>8. QED  BY <1>6, <1>7

LEMMA CallSounding == ASSUME Ready, Call PROVE Sounding'
<1>1. PICK v : v = Current  OBVIOUS
<1>2. Called(v)
  <2>1. Running /\ Typed  BY DEF Call, Ready, CompileInv
  <2>2. pos \in 1..Len(topo_order)  BY <2>1 DEF Running
  <2>3. v \in Nodes  BY <1>1, <2>1, <2>2, Facts, ElementOfSeq DEF Current
  <2>4. QED  BY <1>1, <2>1, <2>3 DEF Called
<1>3. /\ UpdateRamps(v) /\ Process(v) /\ UNCHANGED <<vars, built, cycle>> /\ UNCHANGED tunings
  BY <1>1 DEF Call, UpdateRamps
<1>4. Steady /\ Settled /\ UNCHANGED vars  BY <1>3 DEF Steady, Settled
<1>5. /\ Finished /\ Octaves /\ NoTinyDoubling /\ built /\ cycle \in Nat \ {0} /\ Declared
      /\ pos \in DOMAIN topo_order /\ v = topo_order[pos] /\ v \in Nodes
      /\ call \in 0..(calls[v] - 1) /\ calls[v] \in Nat \ {0} /\ node_block[v] \in Nat \ {0}
      /\ calls[v] * node_block[v] = out_stride(v) /\ out_stride(v) \in Nat \ {0}
      /\ CallsMade(pos) = call /\ PresetsStay /\ DOMAIN node_state = Nodes
      /\ DOMAIN buffer_pool = 0..(off.out - 1) /\ tunings \in Seq(TunedNodes)
  BY <1>2, CalledFacts DEF Ready, Sounding
<1>6. /\ topo_order' = topo_order /\ node_block' = node_block /\ Nodes' = Nodes /\ built' = built
      /\ cycle' = cycle /\ tunings' = tunings
  BY <1>3, <1>4, Settles
<1>7. DOMAIN topo_order = 1..Len(topo_order) /\ Len(topo_order) \in Nat
      /\ \A k \in DOMAIN topo_order : topo_order[k] \in Nodes
  <2>1. topo_order \in Seq(Nodes)  BY <1>5, Facts DEF Finished, CompileInv
  <2>2. DOMAIN topo_order = 1..Len(topo_order) /\ Len(topo_order) \in Nat  BY <1>5, Facts DEF Finished, CompileInv
  <2>3. QED  BY <2>1, <2>2, ElementOfSeq
<1>8. /\ node_state' = IF Known(v) THEN [node_state EXCEPT ![v] = Computed(v, call).s] ELSE node_state
  BY <1>3 DEF Process
<1>9. ASSUME NEW k \in DOMAIN topo_order, NEW w, w = topo_order[k],
             NEW s, s = node_state'[w], NEW m, m = CallsMade(k)'
      PROVE  Kept(w, s, m)'
  <2>0. w \in Nodes  BY <1>7, <1>9
  <2>1. s = node_state'[w] /\ m = CallsMade(k)'  BY <1>9
  <2>2. Kept(w, s, m)
    <3>1. CASE w = v
      <4>1. k = pos  BY <3>1, <1>5, <1>9 DEF Finished, CompileInv, Sorting
      <4>2. m = call + 1  BY <4>1, <2>1, CallCounts
      <4>3. CASE Known(v)
        <5>1. s = Computed(v, call).s  BY <4>3, <3>1, <2>1, <1>5, <1>8
        <5>2. QED  BY <5>1, <4>2, <4>3, <3>1, <1>2, KeptOnward
      <4>4. CASE ~Known(v)
        <5>1. Node(v).dsp \notin {"counter", "sah", "stft"}  BY <4>4 DEF Known
        <5>2. QED  BY <5>1, <3>1, NothingKept
      <4>5. QED  BY <4>3, <4>4
    <3>2. CASE w # v
      <4>1. k # pos  BY <3>2, <1>5, <1>9
      <4>2. m = CallsMade(k)  BY <4>1, <2>1, CallCounts
      <4>3. s = node_state[w]  BY <3>2, <2>1, <1>8
      <4>4. Kept(topo_order[k], node_state[topo_order[k]], CallsMade(k))  BY <1>5 DEF Ready, Sounding
      <4>5. QED  BY <4>2, <4>3, <4>4, <1>9
    <3>3. QED  BY <3>1, <3>2
  <2>3. Untuned(w)' => Untuned(w)  BY <1>4, Settles
  <2>4. QED  BY <2>2, <2>3, <1>3, KeptStays
<1>10. ASSUME NEW k \in DOMAIN topo_order, NEW w, w = topo_order[k],
              NEW i \in 0..(CallsMade(k)' * node_block[w] - 1)
       PROVE  IsRight(w, i)'
  <2>0. w \in Nodes  BY <1>7, <1>10
  <2>1. CASE k = pos
    <3>1. w = v /\ CallsMade(k)' = call + 1  BY <2>1, <1>5, <1>10, CallCounts
    <3>2. call \in Nat  BY <1>5
    <3>3. i \in 0..((call + 1) * node_block[v] - 1)  BY <3>1
    <3>4. CASE \E j \in 0..(node_block[v] - 1) : i = call * node_block[v] + j
      <4>1. PICK j \in 0..(node_block[v] - 1) : i = call * node_block[v] + j  BY <3>4
      <4>2. QED  BY <4>1, <3>1, <1>2, <1>3, <1>4, MadeRight
    <3>5. CASE i \in 0..(call * node_block[v] - 1)
      <4>1. IsRight(v, i)
        <5>1. \A n \in 0..(CallsMade(pos) * node_block[topo_order[pos]] - 1) : IsRight(topo_order[pos], n)
          BY <1>2, <1>5 DEF Ready, Sounding, Called, Running
        <5>2. QED  BY <5>1, <3>5, <1>5
      <4>2. i \in 0..(out_stride(v) - 1)
        <5>1. PICK n \in Nat, d \in Nat \ {0}, q \in Nat : n = calls[v] /\ d = node_block[v] /\ q = call
          BY <3>2, <1>5
        <5>2. Parts(0, n, d)  BY Cut
        <5>3. q \in 0..(n - 1) /\ q * d \in Nat /\ n * d = out_stride(v)  BY <5>1, <1>5
        <5>4. Span(0 + q * d, d) \subseteq Span(0, n * d)  BY <5>2, <5>3 DEF Parts
        <5>5. q * d \in Span(0 + q * d, d)  BY <5>3 DEF Span
        <5>6. q * d \in Span(0, n * d)  BY <5>4, <5>5
        <5>7. q * d <= n * d - 1
          <6>1. PICK x \in Nat, y \in Nat : x = q * d /\ y = n * d  BY <5>3
          <6>2. x \in Span(0, y)  BY <6>1, <5>6
          <6>3. QED  BY <6>1, <6>2 DEF Span
        <5>8. i \in 0..(q * d - 1)  BY <3>5, <5>1
        <5>9. PICK x \in Nat, y \in Nat : x = q * d /\ y = n * d  BY <5>3
        <5>10. QED  BY <5>3, <5>7, <5>8, <5>9
      <4>3. \A o \in 0..(Node(v).outs - 1) : Heard(v, o, i)' = Heard(v, o, i)
        BY <3>5, <4>2, <1>3, <1>4, <1>5, CallKeeps
      <4>4. Known(v) => \A c \in Connections(v) : Heard(c.src, c.out, i)' = Heard(c.src, c.out, i)
        BY <4>2, <1>2, <1>3, <1>4, SourcesKept
      <4>5. QED  BY <3>1, <4>1, <4>3, <4>4, <1>4, <1>5, RightKept
    <3>6. PICK q \in Nat, d \in Nat \ {0} : q = call /\ d = node_block[v]  BY <3>2, <1>5
    <3>7. i \in 0..(q * d - 1) \/ \E j \in 0..(d - 1) : i = q * d + j
      <4>1. i \in 0..((q + 1) * d - 1)  BY <3>3, <3>6
      <4>2. QED  BY <4>1, OneCallMore
    <3>8. QED  BY <3>4, <3>5, <3>6, <3>7
  <2>2. CASE k # pos
    <3>1. w # v /\ CallsMade(k)' = CallsMade(k)
      <4>1. CallsMade(k)' = CallsMade(k)  BY <2>2, CallCounts
      <4>2. w # v  BY <2>2, <1>5, <1>10 DEF Finished, CompileInv, Sorting
      <4>3. QED  BY <4>1, <4>2
    <3>2. /\ calls[w] \in Nat \ {0} /\ node_block[w] \in Nat \ {0} /\ calls[w] * node_block[w] = out_stride(w)
      BY <1>5, <2>0, Ratios
    <3>3. k < pos /\ CallsMade(k) = calls[w]
      <4>1. CASE ~(k < pos)
        <5>1. CallsMade(k) = 0  BY <4>1, <2>2, <1>5, <1>7 DEF CallsMade
        <5>2. 0 * node_block[w] = 0  BY <3>2
        <5>3. i \in 0..(0 - 1)  BY <5>1, <5>2, <3>1
        <5>4. QED  BY <5>3
      <4>2. CASE k < pos  BY <4>2, <1>10 DEF CallsMade
      <4>3. QED  BY <4>1, <4>2
    <3>4. i \in 0..(out_stride(w) - 1)  BY <3>1, <3>2, <3>3
    <3>5. IsRight(w, i)
      <4>1. \A n \in 0..(CallsMade(k) * node_block[topo_order[k]] - 1) : IsRight(topo_order[k], n)
        BY <1>5, <1>2 DEF Ready, Sounding, Called, Running
      <4>2. QED  BY <4>1, <3>1, <1>10
    <3>6. \A o \in 0..(Node(w).outs - 1) : Heard(w, o, i)' = Heard(w, o, i)
      BY <2>0, <3>1, <3>4, <1>3, <1>4, <1>5, CallKeeps
    <3>7. ASSUME Known(w), NEW c \in Connections(w) PROVE Heard(c.src, c.out, i)' = Heard(c.src, c.out, i)
      <4>1. ~Boundary(w)  BY <2>0, <3>7, <1>5, Registered
      <4>2. PICK b, p : c \in Wire(w, b, p)  BY ZenonT(30) DEF Connections, Wire
      <4>3. c.src \in Sources(w) /\ c.out \in 0..(Node(c.src).outs - 1)  BY <4>2, <2>0, <1>5, Wires
      <4>4. c.src \in Nodes /\ out_stride(c.src) = out_stride(w)  BY <2>0, <4>1, <4>3, <1>5, InStep
      <4>5. c.src # v
        <5>1. PICK n \in 1..k - 1 : topo_order[n] = c.src  BY <4>3, <1>10 DEF Ready, CompileInv, Sorting
        <5>2. n \in DOMAIN topo_order /\ n # pos  BY <5>1, <3>3, <1>5, <1>7
        <5>3. QED  BY <5>1, <5>2, <1>5 DEF Finished, CompileInv, Sorting
      <4>6. QED  BY <3>4, <4>3, <4>4, <4>5, <1>3, <1>4, <1>5, CallKeeps
    <3>8. QED  BY <2>0, <3>5, <3>6, <3>7, <1>4, <1>5, RightKept
  <2>3. QED  BY <2>1, <2>2
<1>11. DOMAIN node_state' = Nodes  BY <1>5, <1>8
<1>12. PresetsStay'  BY <1>3, <1>4, <1>5, PresetsKept
<1>13. \A k \in DOMAIN topo_order : Kept(topo_order[k], node_state[topo_order[k]], CallsMade(k))'
  <2> SUFFICES ASSUME NEW k \in DOMAIN topo_order
               PROVE  Kept(topo_order[k], node_state[topo_order[k]], CallsMade(k))'
    OBVIOUS
  <2>1. PICK w : w = topo_order[k]  OBVIOUS
  <2>2. w = topo_order'[k]  BY <2>1, <1>6
  <2>3. PICK s, m : s = node_state'[w] /\ m = CallsMade(k)'  OBVIOUS
  <2>4. Kept(w, s, m)'  BY <2>1, <2>3, <1>9
  <2>5. QED  BY <2>2, <2>3, <2>4
<1>14. \A k \in DOMAIN topo_order :
         \A i \in 0..(CallsMade(k)' * node_block'[topo_order'[k]] - 1) : IsRight(topo_order[k], i)'
  <2> SUFFICES ASSUME NEW k \in DOMAIN topo_order,
                      NEW i \in 0..(CallsMade(k)' * node_block'[topo_order'[k]] - 1)
               PROVE  IsRight(topo_order[k], i)'
    OBVIOUS
  <2>1. PICK w : w = topo_order[k]  OBVIOUS
  <2>2. w = topo_order'[k] /\ i \in 0..(CallsMade(k)' * node_block[w] - 1)  BY <2>1, <1>6
  <2>3. IsRight(w, i)'  BY <2>1, <2>2, <1>10
  <2>4. QED  BY <2>2, <2>3
<1>15. QED  BY <1>5, <1>6, <1>11, <1>12, <1>13, <1>14 DEF Sounding

\* A new voice keeps what it was set up with: no samples of any signal.
LEMMA NewNode ==
  ASSUME Finished, Octaves, NoTinyDoubling, Declared, cycle = 0, NEW w \in Nodes, NEW s, s = StateInit(Node(w))
  PROVE  Kept(w, s, calls[w])
<1>1. calls[w] \in Nat \ {0} /\ node_block[w] \in Nat \ {0} /\ calls[w] * node_block[w] = out_stride(w)
      /\ out_stride(w) \in Nat
  BY Ratios, Facts DEF Finished, CompileInv
<1>2. /\ (cycle - 1) * out_stride(w) + calls[w] * node_block[w] = 0
      /\ (cycle - 1) * calls[w] + calls[w] = 0
  <2>1. PICK S \in Nat, n \in Nat : S = out_stride(w) /\ n = calls[w]  BY <1>1
  <2>2. (0 - 1) * S + S = 0 /\ (0 - 1) * n + n = 0  OBVIOUS
  <2>3. QED  BY <2>1, <2>2, <1>1
<1>3. CASE Node(w).dsp = "counter"
  <2>1. s = [calls |-> 0]  BY <1>3 DEF StateInit, N!CounterInit
  <2>2. QED  BY <2>1, <1>2, <1>3 DEF Kept
<1>4. CASE Node(w).dsp = "sah"
  <2>1. s = [held |-> 0, counter |-> 0]  BY <1>4 DEF StateInit, N!HeldInit
  <2>2. s.held = 0 /\ s.counter = 0 /\ s = [held |-> s.held, counter |-> s.counter]  BY <2>1
  <2>3. ASSUME Node(w).preset > 0, NEW c PROVE Holds(s, SignalOf(c), 0, HeldTo(w))
    <3>1. Node(w).preset \in Int  BY Facts DEF Finished, CompileInv, NodeType
    <3>2. PICK m \in Nat \ {0} : m = HeldTo(w)  BY <3>1, <2>3, Intervals
    <3>3. 0 % m = 0 /\ ~(0 > 0)  OBVIOUS
    <3>4. QED  BY <3>2, <3>3, <2>1, <2>2 DEF Holds
  <2>4. QED  BY <2>2, <2>3, <1>2, <1>4 DEF Kept
<1>5. CASE Node(w).dsp = "stft"
  <2>1. PICK n \in F!Sizes : n = Node(w).size
    <3>1. Known(w)  BY <1>5 DEF Known
    <3>2. QED  BY <3>1, <1>5, Registered
  <2>2. s = [t |-> 0, in_ring |-> F!Silence(n), ola |-> F!Silence(2 * n)]
    BY <2>1, <1>5 DEF StateInit, F!StftInit
  <2>3. ASSUME NEW c PROVE Overlapping(s, SignalOf(c), 0, n)
    <3>1. /\ F!Silence(n) = [i \in 0..(n - 1) |-> 0] /\ F!Silence(2 * n) = [i \in 0..((2 * n) - 1) |-> 0]
          /\ s.t = 0 /\ s.in_ring = F!Silence(n) /\ s.ola = F!Silence(2 * n)
          /\ s = [t |-> s.t, in_ring |-> s.in_ring, ola |-> s.ola]
      BY <2>2 DEF F!Silence
    <3>2. \A p \in (0 - n)..(0 - 1) : ~(p >= 0)  OBVIOUS
    <3>3. ASSUME NEW p \in (0 - n + 1)..(0 + n) PROVE s.ola[p % (2 * n)] = Content(SignalOf(c), p, 0, n)
      <4>1. p \in Int /\ n \in Nat /\ 2 * n \in {2, 4, 8}  BY DEF F!Sizes
      <4>2. p % (2 * n) \in 0..((2 * n) - 1)  BY <4>1, RingSlot
      <4>3. s.ola[p % (2 * n)] = 0
        <5>1. PICK q \in 0..((2 * n) - 1) : q = p % (2 * n)  BY <4>2
        <5>2. s.ola = [i \in 0..((2 * n) - 1) |-> 0]  BY <3>1
        <5>3. s.ola[q] = 0  BY <5>2
        <5>4. QED  BY <5>1, <5>3
      <4>4. \A x, i : i \in Int => Part(x, p, 0, i, n) = 0
        <5>1. ASSUME NEW i \in Int PROVE ~(0 <= p - i /\ p - i <= 0 - n)
          <6>1. n > 0  BY DEF F!Sizes
          <6>2. QED  BY <6>1, <4>1
        <5>2. QED  BY <5>1 DEF Part
      <4>5. p % (n \div 2) \in Int /\ (p % (n \div 2)) + (n \div 2) \in Int
        <5>1. CASE n = 2  BY <5>1, <4>1
        <5>2. CASE n = 4  BY <5>2, <4>1
        <5>3. QED  BY <5>1, <5>2 DEF F!Sizes
      <4>6. Content(SignalOf(c), p, 0, n) = 0 + 0  BY <4>4, <4>5 DEF Content
      <4>7. QED  BY <4>3, <4>6
    <3>4. DOMAIN s.in_ring = 0..(n - 1) /\ DOMAIN s.ola = 0..(2 * n - 1)  BY <3>1
    <3>5. QED  BY <3>1, <3>2, <3>3, <3>4 DEF Overlapping
  <2>4. QED  BY <2>1, <2>3, <1>2, <1>5 DEF Kept
<1>6. QED  BY <1>3, <1>4, <1>5, NothingKept

\* A cycle's calls and the next one's: none is lost in between.
LEMMA NextCycle ==
  ASSUME Finished, Octaves, NoTinyDoubling, cycle \in Nat, Settled, cycle' = cycle + 1,
         NEW w \in Nodes, NEW s, Kept(w, s, calls[w])
  PROVE  Kept(w, s, 0)'
<1>1. calls[w] \in Nat \ {0} /\ node_block[w] \in Nat \ {0} /\ calls[w] * node_block[w] = out_stride(w)
      /\ out_stride(w) \in Nat
  BY Ratios, Facts DEF Finished, CompileInv
<1>2. /\ (cycle - 1) * out_stride(w) + calls[w] * node_block[w] = (cycle' - 1) * out_stride(w) + 0 * node_block[w]
      /\ (cycle - 1) * calls[w] + calls[w] = (cycle' - 1) * calls[w] + 0
  <2>1. PICK S \in Nat, n \in Nat, d \in Nat, c \in Nat : S = out_stride(w) /\ n = calls[w] /\ d = node_block[w] /\ c = cycle
    BY <1>1
  <2>2. /\ (c - 1) * S + S = ((c + 1) - 1) * S + 0 * d
        /\ (c - 1) * n + n = ((c + 1) - 1) * n + 0
    <3>1. PICK a \in Int, b \in Int : a = c * S /\ b = c * n  OBVIOUS
    <3>2. (c - 1) * S = a - S /\ (c - 1) * n = b - n /\ (c + 1) - 1 = c /\ 0 * d = 0  BY <3>1
    <3>3. QED  BY <3>1, <3>2
  <2>3. QED  BY <2>1, <2>2, <1>1
<1>3. /\ Node(w)' = Node(w) /\ out_stride(w)' = out_stride(w) /\ Untuned(w)' = Untuned(w) /\ HeldTo(w)' = HeldTo(w)
      /\ \A p : Plain(w, p)' = Plain(w, p) /\ Controlled(w, p)' = Controlled(w, p)
      /\ calls' = calls /\ node_block' = node_block
  BY Settles
<1>4. \A c : SignalOf(c)' = SignalOf(c)  BY DEF SignalOf, Signal
<1>5. QED  BY <1>2, <1>3, <1>4 DEF Kept

LEMMA StartSounding == ASSUME Ready, StartCycle PROVE Sounding'
<1>1. /\ built /\ built' /\ pos = 0 /\ cycle' = cycle + 1 /\ pos' = 1 /\ call' = 0 /\ Settled
      /\ node_state' = node_state /\ controls' = controls /\ tunings' = tunings
  BY DEF StartCycle, Settled, audioVars, portVars
<1>2. /\ cycle \in Nat /\ tunings \in Seq(TunedNodes) /\ DOMAIN node_state = Nodes /\ PresetsStay
      /\ \A k \in DOMAIN topo_order : Kept(topo_order[k], node_state[topo_order[k]], calls[topo_order[k]])
  BY <1>1 DEF Ready, Sounding, CallsMade
<1>3. Finished /\ Octaves /\ NoTinyDoubling  BY <1>1 DEF Ready, Finished, Playing, Looping
<1>4. /\ DOMAIN topo_order = 1..Len(topo_order) /\ Len(topo_order) \in Nat
      /\ \A k \in DOMAIN topo_order : topo_order[k] \in Nodes
  <2>1. topo_order \in Seq(Nodes)  BY <1>3, Facts DEF Finished, CompileInv
  <2>2. DOMAIN topo_order = 1..Len(topo_order) /\ Len(topo_order) \in Nat  BY <1>3, Facts DEF Finished, CompileInv
  <2>3. QED  BY <2>1, <2>2, ElementOfSeq
<1>5. /\ topo_order' = topo_order /\ node_block' = node_block /\ Nodes' = Nodes /\ calls' = calls
      /\ \A u : PortsOf(u)' = PortsOf(u) /\ Untuned(u)' = Untuned(u) /\ Node(u)' = Node(u)
  BY <1>1, Settles
<1>6. PresetsStay'  BY <1>1, <1>2, <1>5 DEF PresetsStay
<1>7. ASSUME NEW k \in DOMAIN topo_order PROVE CallsMade(k)' = 0
  <2>1. ~(k < pos') /\ pos' # 0  BY <1>1, <1>4
  <2>2. QED  BY <2>1, <1>1 DEF CallsMade
<1>8. \A k \in DOMAIN topo_order : Kept(topo_order[k], node_state[topo_order[k]], CallsMade(k))'
  <2> SUFFICES ASSUME NEW k \in DOMAIN topo_order
               PROVE  Kept(topo_order[k], node_state[topo_order[k]], CallsMade(k))'
    OBVIOUS
  <2>1. PICK w, s : w = topo_order[k] /\ s = node_state[w]  OBVIOUS
  <2>2. w \in Nodes /\ Kept(w, s, calls[w])  BY <2>1, <1>2, <1>4
  <2>3. Kept(w, s, 0)'  BY <2>2, <1>1, <1>2, <1>3, NextCycle
  <2>4. w = topo_order'[k] /\ s = node_state'[w]  BY <2>1, <1>1, <1>5
  <2>5. QED  BY <2>3, <2>4, <1>7
<1>9. ASSUME NEW k \in DOMAIN topo_order PROVE 0..(CallsMade(k)' * node_block'[topo_order'[k]] - 1) = {}
  <2>1. PICK d \in Nat : d = node_block[topo_order[k]]  BY <1>3, <1>4, Ratios
  <2>2. 0..(0 * d - 1) = {}  OBVIOUS
  <2>3. QED  BY <2>1, <2>2, <1>5, <1>7
<1>10. cycle' \in Nat /\ cycle' > 0  BY <1>1, <1>2
<1>11. QED  BY <1>1, <1>2, <1>5, <1>6, <1>8, <1>9, <1>10 DEF Sounding

LEMMA EndSounding == ASSUME Ready, EndCycle PROVE Sounding'
<1>1. /\ built /\ built' /\ pos > Len(topo_order) /\ pos' = 0 /\ UNCHANGED <<vars, cycle>> /\ Settled
      /\ node_state' = node_state /\ controls' = controls /\ tunings' = tunings
  BY DEF EndCycle, Settled, audioVars, portVars
<1>2. /\ cycle \in Nat /\ tunings \in Seq(TunedNodes) /\ DOMAIN node_state = Nodes /\ PresetsStay
      /\ \A k \in DOMAIN topo_order : Kept(topo_order[k], node_state[topo_order[k]], CallsMade(k))
  BY <1>1 DEF Ready, Sounding
<1>3. Finished /\ pos \in Nat  BY <1>1 DEF Ready, Finished, Playing, Looping
<1>4. DOMAIN topo_order = 1..Len(topo_order) /\ Len(topo_order) \in Nat
  BY <1>3, Facts DEF Finished, CompileInv
<1>5. /\ topo_order' = topo_order /\ node_block' = node_block /\ Nodes' = Nodes /\ calls' = calls
      /\ \A u : PortsOf(u)' = PortsOf(u) /\ Untuned(u)' = Untuned(u) /\ Node(u)' = Node(u)
  BY <1>1, Settles
<1>6. PresetsStay'  BY <1>1, <1>2, <1>5 DEF PresetsStay
<1>7. ASSUME NEW k \in DOMAIN topo_order PROVE CallsMade(k)' = CallsMade(k)
  <2>1. k < pos  BY <1>1, <1>3, <1>4
  <2>2. QED  BY <2>1, <1>1, <1>5 DEF CallsMade
<1>8. \A k \in DOMAIN topo_order : Kept(topo_order[k], node_state[topo_order[k]], CallsMade(k))'
  <2> SUFFICES ASSUME NEW k \in DOMAIN topo_order
               PROVE  Kept(topo_order[k], node_state[topo_order[k]], CallsMade(k))'
    OBVIOUS
  <2>1. PICK w, s, m : w = topo_order[k] /\ s = node_state[w] /\ m = CallsMade(k)  OBVIOUS
  <2>2. Kept(w, s, m) /\ (Untuned(w)' => Untuned(w))  BY <2>1, <1>2, <1>5
  <2>3. Kept(w, s, m)'  BY <2>2, <1>1, KeptStays
  <2>4. w = topo_order'[k] /\ s = node_state'[w] /\ m = CallsMade(k)'  BY <2>1, <1>1, <1>5, <1>7
  <2>5. QED  BY <2>3, <2>4
<1>9. ~(pos' > 0) /\ cycle' = cycle  BY <1>1
<1>10. QED  BY <1>1, <1>2, <1>5, <1>6, <1>8, <1>9 DEF Sounding

LEMMA TuneSounding == ASSUME Ready, Tune PROVE Sounding'
<1>1. PICK v \in TunedNodes, x \in {MaxValue \div 2, 2 * MaxValue}, p \in 0..1 :
        InitParameter(v, p, x) \/ SetParameter(v, p, x)
  BY DEF Tune
<1>2. PICK c : controls' = [controls EXCEPT ![v][p] = c]
  BY <1>1 DEF InitParameter, SetParameter, Tuned
<1>3. /\ built /\ built' /\ pos = 0 /\ pos' = 0 /\ cycle' = cycle /\ UNCHANGED <<vars, cycle>> /\ node_state' = node_state
      /\ v \in Nodes /\ p \in PortsOf(v) /\ tunings' = Append(tunings, v)
  BY <1>1 DEF InitParameter, SetParameter, Tunable, Tuned, audioVars
<1>4. /\ cycle \in Nat /\ tunings \in Seq(TunedNodes) /\ DOMAIN node_state = Nodes /\ PresetsStay
      /\ \A k \in DOMAIN topo_order : Kept(topo_order[k], node_state[topo_order[k]], CallsMade(k))
  BY <1>3 DEF Ready, Sounding
<1>5. /\ bp' = bp /\ calls' = calls /\ topo_order' = topo_order /\ Nodes' = Nodes
      /\ \A u : Node(u)' = Node(u) /\ PortsOf(u)' = PortsOf(u)
  BY <1>3 DEF vars, Nodes, Node, PortsOf
<1>6. tunings' \in Seq(TunedNodes)  BY <1>3, <1>4, AppendProperties
<1>7. \A w : Untuned(w)' => Untuned(w) /\ w # v
  <2>1. /\ Len(tunings) \in Nat /\ DOMAIN tunings = 1..Len(tunings) /\ DOMAIN tunings' = 1..(Len(tunings) + 1)
        /\ tunings'[Len(tunings) + 1] = v /\ \A n \in 1..Len(tunings) : tunings'[n] = tunings[n]
    BY <1>3, <1>4, AppendProperties, LenProperties
  <2>2. Len(tunings) + 1 \in DOMAIN tunings' /\ \A n \in DOMAIN tunings : n \in DOMAIN tunings'  BY <2>1
  <2>3. QED  BY <2>1, <2>2 DEF Untuned
<1>8. PresetsStay'
  <2>1. DOMAIN controls' = Nodes  BY <1>2, <1>4 DEF PresetsStay
  <2>2. ASSUME NEW w \in Nodes
        PROVE  /\ DOMAIN controls'[w] = PortsOf(w)
               /\ Untuned(w)' => \A q \in PortsOf(w) :
                    controls'[w][q] = [current |-> Node(w).preset, target |-> Node(w).preset]
    <3>1. /\ DOMAIN controls[w] = PortsOf(w)
          /\ Untuned(w) => \A q \in PortsOf(w) :
               controls[w][q] = [current |-> Node(w).preset, target |-> Node(w).preset]
      BY <1>4 DEF PresetsStay
    <3>2. CASE w # v
      <4>1. controls'[w] = controls[w]  BY <3>2, <1>2
      <4>2. QED  BY <4>1, <3>1, <1>7
    <3>3. CASE w = v
      <4>1. ~Untuned(w)'  BY <3>3, <1>7
      <4>2. controls'[w] = [controls[w] EXCEPT ![p] = c]  BY <3>3, <1>2, <1>4 DEF PresetsStay
      <4>3. QED  BY <4>1, <4>2, <3>1
    <3>4. QED  BY <3>2, <3>3
  <2>3. QED  BY <2>1, <2>2, <1>5 DEF PresetsStay
<1>9. \A k \in DOMAIN topo_order : Kept(topo_order[k], node_state[topo_order[k]], CallsMade(k))'
  <2> SUFFICES ASSUME NEW k \in DOMAIN topo_order
               PROVE  Kept(topo_order[k], node_state[topo_order[k]], CallsMade(k))'
    OBVIOUS
  <2>1. PICK w, s, m : w = topo_order[k] /\ s = node_state[w] /\ m = CallsMade(k)  OBVIOUS
  <2>2. Kept(w, s, m) /\ (Untuned(w)' => Untuned(w))  BY <2>1, <1>4, <1>7
  <2>3. Kept(w, s, m)'  BY <2>2, <1>3, KeptStays
  <2>4. CallsMade(k)' = CallsMade(k)  BY <1>3, <1>5 DEF CallsMade
  <2>5. w = topo_order'[k] /\ s = node_state'[w] /\ m = CallsMade(k)'  BY <2>1, <2>4, <1>3, <1>5
  <2>6. QED  BY <2>3, <2>5
<1>10. QED  BY <1>3, <1>4, <1>5, <1>6, <1>8, <1>9 DEF Sounding

LEMMA BuildSounding == ASSUME Ready, Build PROVE Sounding'
<1>1. /\ pass = "ok" /\ ~built /\ built' /\ UNCHANGED <<vars, cycle>> /\ Settled
      /\ cycle' = cycle /\ pos' = pos /\ call' = call /\ tunings' = tunings
      /\ node_state' = [v \in Nodes |-> StateInit(Node(v))]
      /\ controls' = [v \in Nodes |-> [p \in PortsOf(v) |-> [current |-> Node(v).preset, target |-> Node(v).preset]]]
  BY DEF Build, Settled
<1>2. cycle = 0 /\ pos = 0 /\ tunings \in Seq(TunedNodes)  BY <1>1 DEF Ready, Sounding, Playing, Looping
<1>3. Finished /\ Octaves /\ NoTinyDoubling /\ Declared  BY <1>1 DEF Ready, Finished
<1>4. \A k \in DOMAIN topo_order : topo_order[k] \in Nodes
  <2>1. topo_order \in Seq(Nodes)  BY <1>3, Facts DEF Finished, CompileInv
  <2>2. DOMAIN topo_order = 1..Len(topo_order) /\ Len(topo_order) \in Nat  BY <1>3, Facts DEF Finished, CompileInv
  <2>3. QED  BY <2>1, <2>2, ElementOfSeq
<1>5. /\ topo_order' = topo_order /\ Nodes' = Nodes /\ calls' = calls
      /\ \A u : PortsOf(u)' = PortsOf(u) /\ Untuned(u)' = Untuned(u) /\ Node(u)' = Node(u)
  BY <1>1, Settles
<1>6. PresetsStay'  BY <1>1, <1>5 DEF PresetsStay
<1>7. \A k \in DOMAIN topo_order : Kept(topo_order[k], node_state[topo_order[k]], CallsMade(k))'
  <2> SUFFICES ASSUME NEW k \in DOMAIN topo_order
               PROVE  Kept(topo_order[k], node_state[topo_order[k]], CallsMade(k))'
    OBVIOUS
  <2>1. PICK w, s, m : w = topo_order[k] /\ s = StateInit(Node(w)) /\ m = calls[w]  OBVIOUS
  <2>2. w \in Nodes  BY <2>1, <1>4
  <2>3. Kept(w, s, m)  BY <2>1, <2>2, <1>2, <1>3, NewNode
  <2>4. Kept(w, s, m)'  BY <2>3, <1>1, <1>5, KeptStays
  <2>5. CallsMade(k)' = m  BY <2>1, <1>1, <1>2, <1>5 DEF CallsMade
  <2>6. w = topo_order'[k] /\ s = node_state'[w]  BY <2>1, <2>2, <1>1, <1>5
  <2>7. QED  BY <2>4, <2>5, <2>6
<1>8. DOMAIN node_state' = Nodes  BY <1>1
<1>9. /\ cycle' \in Nat /\ (~built' => cycle' = 0) /\ (pos' > 0 => cycle' > 0) /\ ~(pos' > 0)
      /\ tunings' \in Seq(TunedNodes)
  <2>1. TunedNodes' = TunedNodes /\ 0 \in Nat /\ ~(0 > 0)  OBVIOUS
  <2>2. QED  BY <2>1, <1>1, <1>2
<1>10. QED  BY <1>1, <1>5, <1>6, <1>7, <1>8, <1>9 DEF Sounding

LEMMA SoundingStep == ASSUME Ready, [InstanceNext]_instanceVars PROVE Sounding'
<1>1. CASE Registering \/ Compiling
  <2>1. UNCHANGED <<built, pos, cycle, tunings>>  BY <1>1 DEF Registering, Compiling, runVars, portVars
  <2>2. ~built
    <3>1. CASE Registering  BY <3>1 DEF Registering
    <3>2. CASE Compiling
      <4>1. pass # "ok"
        BY <3>2 DEF Compiling, Next, Sort, Sorted, Propagate, Mismatch, Propagated, Place, Placed
      <4>2. QED  BY <4>1 DEF Ready, Playing, Looping
    <3>3. QED  BY <1>1, <3>1, <3>2
  <2>3. QED  BY <2>1, <2>2 DEF Ready, Sounding
<1>2. CASE UNCHANGED instanceVars
  <2>1. /\ UNCHANGED <<vars, cycle>> /\ Steady /\ Settled /\ built' = built /\ pos' = pos /\ call' = call
        /\ cycle' = cycle /\ tunings' = tunings
        /\ node_state' = node_state /\ controls' = controls /\ buffer_pool' = buffer_pool
    BY <1>2 DEF instanceVars, runVars, audioVars, portVars, Steady, Settled
  <2>2. /\ cycle \in Nat /\ (~built => cycle = 0) /\ (pos > 0 => cycle > 0) /\ tunings \in Seq(TunedNodes)
    BY DEF Ready, Sounding
  <2>3. CASE ~built  BY <2>1, <2>2, <2>3 DEF Sounding
  <2>4. CASE built
    <3>1. /\ topo_order' = topo_order /\ Nodes' = Nodes /\ calls' = calls /\ node_block' = node_block
          /\ \A u : PortsOf(u)' = PortsOf(u) /\ Untuned(u)' = Untuned(u) /\ Node(u)' = Node(u)
                    /\ out_stride(u)' = out_stride(u)
      BY <2>1, Settles
    <3>2. PresetsStay'  BY <2>1, <2>4, <3>1 DEF Ready, Sounding, PresetsStay
    <3>3. \A k : CallsMade(k)' = CallsMade(k)  BY <2>1, <3>1 DEF CallsMade
    <3>4. \A k \in DOMAIN topo_order : Kept(topo_order[k], node_state[topo_order[k]], CallsMade(k))'
      <4> SUFFICES ASSUME NEW k \in DOMAIN topo_order
                   PROVE  Kept(topo_order[k], node_state[topo_order[k]], CallsMade(k))'
        OBVIOUS
      <4>1. PICK w, s, m : w = topo_order[k] /\ s = node_state[w] /\ m = CallsMade(k)  OBVIOUS
      <4>2. Kept(w, s, m) /\ (Untuned(w)' => Untuned(w))  BY <4>1, <2>4, <3>1 DEF Ready, Sounding
      <4>3. Kept(w, s, m)'  BY <4>2, <2>1, KeptStays
      <4>4. w = topo_order'[k] /\ s = node_state'[w] /\ m = CallsMade(k)'  BY <4>1, <2>1, <3>1, <3>3
      <4>5. QED  BY <4>3, <4>4
    <3>5. ASSUME pos > 0, NEW k \in DOMAIN topo_order,
                 NEW i \in 0..(CallsMade(k)' * node_block'[topo_order'[k]] - 1)
          PROVE  IsRight(topo_order[k], i)'
      <4>1. PICK w : w = topo_order[k]  OBVIOUS
      <4>2. i \in 0..(CallsMade(k) * node_block[topo_order[k]] - 1)  BY <3>1, <3>3
      <4>3. IsRight(w, i)  BY <4>1, <4>2, <2>4, <3>5 DEF Ready, Sounding
      <4>4. Finished /\ Declared  BY <2>4 DEF Ready, Finished, Playing, Looping
      <4>5. w \in Nodes
        <5>1. topo_order \in Seq(Nodes) /\ DOMAIN topo_order = 1..Len(topo_order)
          BY <4>4, Facts DEF Finished, CompileInv
        <5>2. QED  BY <4>1, <5>1, ElementOfSeq
      <4>6. \A u, o : Heard(u, o, i)' = Heard(u, o, i)
        <5>1. out_base_sample' = out_base_sample  BY <2>1 DEF vars
        <5>2. QED  BY <5>1, <2>1, <3>1 DEF Heard, OutOffset
      <4>7. \A c : Heard(c.src, c.out, i)' = Heard(c.src, c.out, i)
        <5>1. out_base_sample' = out_base_sample  BY <2>1 DEF vars
        <5>2. QED  BY <5>1, <2>1, <3>1 DEF Heard, OutOffset
      <4>8. IsRight(w, i)'  BY <2>1, <4>3, <4>4, <4>5, <4>6, <4>7, RightKept
      <4>9. w = topo_order'[k]  BY <4>1, <3>1
      <4>10. QED  BY <4>8, <4>9
    <3>6. QED  BY <2>1, <2>2, <2>4, <3>1, <3>2, <3>4, <3>5 DEF Ready, Sounding
  <2>5. QED  BY <2>3, <2>4
<1>3. QED
  BY <1>1, <1>2, BuildSounding, TuneSounding, StartSounding, CallSounding, EndSounding
  DEF InstanceNext, VoiceNext
-----------------------------------------------------------------------------
(* The voice.                                                               *)

\* When the last node of a cycle was called, all of its calls were made.
LEMMA Plays == ASSUME Ready PROVE PlaysItsDiagram
<1> SUFFICES ASSUME built, pos > Len(topo_order), NEW v \in Nodes, Known(v)
             PROVE  /\ \A i \in 0..(out_stride(v) - 1) : Sounds(v, i)
                    /\ Node(v).dsp = "counter" => node_state[v].calls = cycle * calls[v]
  BY DEF PlaysItsDiagram
<1>1. /\ Finished /\ Octaves /\ NoTinyDoubling /\ cycle \in Nat /\ pos \in Nat
      /\ Len(topo_order) \in Nat /\ DOMAIN topo_order = 1..Len(topo_order)
  BY Facts DEF Ready, Finished, Playing, Looping, CompileInv, Sounding
<1>2. PICK n \in DOMAIN topo_order : topo_order[n] = v
  <2>1. Done = Nodes  BY <1>1 DEF Finished, CompileInv, Sorting
  <2>2. QED  BY <2>1 DEF Done
<1>3. pos > 0 /\ n < pos  BY <1>1
<1>4. CallsMade(n) = calls[v]  BY <1>2, <1>3 DEF CallsMade
<1>5. calls[v] \in Nat \ {0} /\ calls[v] * node_block[v] = out_stride(v)  BY <1>1, Ratios
<1>6. ASSUME NEW i \in 0..(out_stride(v) - 1) PROVE Sounds(v, i)
  <2>1. IsRight(v, i)  BY <1>2, <1>3, <1>4, <1>5, <1>6 DEF Ready, Sounding
  <2>2. QED  BY <2>1 DEF IsRight
<1>7. ASSUME Node(v).dsp = "counter" PROVE node_state[v].calls = cycle * calls[v]
  <2>1. Kept(v, node_state[v], calls[v])  BY <1>2, <1>4 DEF Ready, Sounding
  <2>2. node_state[v].calls = (cycle - 1) * calls[v] + calls[v]  BY <2>1, <1>7 DEF Kept
  <2>3. (cycle - 1) * calls[v] + calls[v] = cycle * calls[v]
    <3>1. PICK c \in Nat, m \in Nat : c = cycle /\ m = calls[v]  BY <1>1, <1>5
    <3>2. (c - 1) * m + m = c * m  OBVIOUS
    <3>3. QED  BY <3>1, <3>2
  <2>4. QED  BY <2>2, <2>3
<1>8. QED  BY <1>6, <1>7

\* What ola_stft, sample_and_hold and call_counter keep between two calls is what the
\* signal that feeds them has made of it, and every sample made so far in the cycle is
\* what the node is (graph_instance::process and the nodes' process).
THEOREM SoundingInvariance ==
  ASSUME Octaves, Declared PROVE InstanceSpec /\ []NoTinyDoubling => []Sounding
<1>1. InstanceInit => Sounding
  <2>1. << >> \in Seq(TunedNodes) /\ 0 \in Nat /\ ~(0 > 0)  OBVIOUS
  <2>2. QED  BY <2>1 DEF InstanceInit, Sounding
<1>2. CompileInv /\ NoTinyDoubling /\ Playing /\ Sounding /\ [InstanceNext]_instanceVars => Sounding'
  BY SoundingStep DEF Ready
<1>3. InstanceSpec => []CompileInv  BY CompileInvariance
<1>4. InstanceSpec /\ []NoTinyDoubling => []Playing  BY PlayingInvariance
<1>5. QED  BY <1>1, <1>2, <1>3, <1>4, PTL DEF InstanceSpec

\* graph_instance::process, with the processors of standard_nodes.hpp and fft.hpp: what
\* a voice plays in a cycle is what its diagram says, at the same moment, for any block,
\* rate and slicing.
THEOREM VoicePlaysItsDiagram ==
  ASSUME Octaves, Declared PROVE InstanceSpec /\ []NoTinyDoubling => []PlaysItsDiagram
<1>1. CompileInv /\ NoTinyDoubling /\ Playing /\ Sounding => PlaysItsDiagram  BY Plays DEF Ready
<1>2. InstanceSpec => []CompileInv  BY CompileInvariance
<1>3. QED  BY <1>1, <1>2, PlayingInvariance, SoundingInvariance, PTL


=============================================================================
