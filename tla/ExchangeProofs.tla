----------------------------- MODULE ExchangeProofs -----------------------------
(***************************************************************************)

(* The status protocol and one call of the client, for every server, every *)
(* protocol version and every width of a group. What the readers return is *)
(* what the protocol says of the bytes, so that neither the way they were  *)
(* cut up nor what follows them makes a difference.                        *)
(***************************************************************************)
EXTENDS Exchange, SequenceTheorems, TLAPS

-----------------------------------------------------------------------------
(* Groups of a number                                                      *)

LEMMA DivMod ==
  ASSUME NEW b \in Nat \ {0}, NEW q \in Nat, NEW r \in 0 .. b - 1,
         NEW a, a = b * q + r
  PROVE  a \div b = q /\ a % b = r
OBVIOUS

LEMMA DivModIs ==
  ASSUME NEW b \in Nat \ {0}, NEW a \in Nat
  PROVE  a \div b \in Nat /\ a % b \in 0 .. b - 1 /\ a = b * (a \div b) + (a % b)
OBVIOUS

(* r counts units of less than w, d units of w.                            *)
LEMMA Below ==
  ASSUME NEW b \in Nat \ {0}, NEW w \in Nat \ {0}, NEW d \in 0 .. b - 1, NEW r \in 0 .. w - 1
  PROVE  r + d * w \in 0 .. b * w - 1
<1>1. PICK e \in Nat : b = d + 1 + e
  <2>1. b - d - 1 \in Nat
    OBVIOUS
  <2>2. QED  BY <2>1
<1>2. b * w = d * w + w + e * w
  BY <1>1
<1>3. e * w \in Nat /\ d * w \in Nat
  BY <1>1
<1>4. QED  BY <1>2, <1>3

LEMMA Weights ==
  /\ Base \in Nat \ {0, 1} /\ High \in 2 .. Base
  /\ Weight[1] = 1 /\ Weight[2] = Base
  /\ Weight[3] = Base * Weight[2] /\ Weight[4] = Base * Weight[3]
  /\ Weight[5] = Base * Weight[4]
  /\ \A i \in 1 .. 5 : Weight[i] \in Nat \ {0}
  /\ Modulus = High * Weight[5] /\ Modulus \in Nat \ {0}
<1>1. Base \in Nat \ {0, 1} /\ High \in 2 .. Base
  BY PacketsAssumption
<1>2. /\ Weight[1] = 1 /\ Weight[2] = Base /\ Weight[3] = Base * Base
      /\ Weight[4] = Base * Base * Base /\ Weight[5] = Base * Base * Base * Base
  BY DEF Weight
<1> DEFINE w3 == Base * Base
           w4 == Base * w3
           w5 == Base * w4
<1>3. w3 \in Nat \ {0}
  BY <1>1
<1>4. w4 \in Nat \ {0} /\ Base * Base * Base = w4
  BY <1>1, <1>3
<1>5. w5 \in Nat \ {0} /\ Base * Base * Base * Base = w5
  BY <1>1, <1>3, <1>4
<1>6. \A i \in 1 .. 5 : i = 1 \/ i = 2 \/ i = 3 \/ i = 4 \/ i = 5
  OBVIOUS
<1>7. Modulus = High * w5
  BY <1>2, <1>5 DEF Modulus, MaxBytes
<1> HIDE DEF w3, w4, w5
<1>8. High * w5 \in Nat \ {0}
  <2>1. High \in Nat \ {0}
    BY <1>1
  <2>2. ASSUME NEW h \in Nat \ {0}, NEW w \in Nat \ {0}
        PROVE  h * w \in Nat \ {0}
    OBVIOUS
  <2>3. QED  BY <1>5, <2>1, <2>2
<1>9. QED  BY <1>1, <1>2, <1>3, <1>4, <1>5, <1>6, <1>7, <1>8 DEF w3, w4, w5

(* A number in five groups, and what its division gives back.              *)
Five(d1, d2, d3, d4, d5) ==
  d1 + d2 * Weight[2] + d3 * Weight[3] + d4 * Weight[4] + d5 * Weight[5]

\* v has these groups, and is no longer than they are.
HasGroups(v, d1, d2, d3, d4, d5) ==
  /\ v \in Nat /\ v < Base * Weight[5]
  /\ d5 = 0 => v < Base * Weight[4]
  /\ d5 = 0 /\ d4 = 0 => v < Base * Weight[3]
  /\ d5 = 0 /\ d4 = 0 /\ d3 = 0 => v < Base * Weight[2]
  /\ d5 = 0 /\ d4 = 0 /\ d3 = 0 /\ d2 = 0 => v < Base * Weight[1]
  /\ (v \div Weight[1]) % Base = d1 /\ (v \div Weight[2]) % Base = d2
  /\ (v \div Weight[3]) % Base = d3 /\ (v \div Weight[4]) % Base = d4
  /\ (v \div Weight[5]) % Base = d5

LEMMA GroupsOf ==
  \A d1, d2, d3, d4, d5 \in 0 .. Base - 1 :
    HasGroups(Five(d1, d2, d3, d4, d5), d1, d2, d3, d4, d5)
<1> TAKE d1, d2, d3, d4, d5 \in 0 .. Base - 1
<1> DEFINE v == Five(d1, d2, d3, d4, d5)
           r2 == d1 + d2 * Weight[2]
           r3 == r2 + d3 * Weight[3]
           r4 == r3 + d4 * Weight[4]
           q4 == d4 + Base * d5
           q3 == d3 + Base * q4
           q2 == d2 + Base * q3
<1>0. Base \in Nat \ {0}
  BY Weights
<1>1. /\ Base \in Nat \ {0} /\ Weight[1] = 1 /\ Weight[2] = Base
      /\ Weight[3] = Base * Weight[2] /\ Weight[4] = Base * Weight[3]
      /\ Weight[5] = Base * Weight[4]
      /\ Weight[2] \in Nat \ {0} /\ Weight[3] \in Nat \ {0}
      /\ Weight[4] \in Nat \ {0} /\ Weight[5] \in Nat \ {0}
  BY Weights
<1>2. r2 \in 0 .. Weight[3] - 1
  BY <1>1, Below
<1>3. r3 \in 0 .. Weight[4] - 1
  <2> HIDE DEF r2
  <2> QED  BY <1>1, <1>2, Below
<1>4. r4 \in 0 .. Weight[5] - 1
  <2> HIDE DEF r3
  <2> QED  BY <1>1, <1>3, Below
<1>5. v \in 0 .. Base * Weight[5] - 1
  <2>1. v = r4 + d5 * Weight[5]
    BY DEF Five
  <2> HIDE DEF r4
  <2> QED  BY <1>1, <1>4, <2>1, Below
<1>6. v \in Nat /\ v < Base * Weight[5]
  BY <1>1, <1>5
<1>7. /\ d5 = 0 => v < Base * Weight[4]
      /\ d5 = 0 /\ d4 = 0 => v < Base * Weight[3]
      /\ d5 = 0 /\ d4 = 0 /\ d3 = 0 => v < Base * Weight[2]
      /\ d5 = 0 /\ d4 = 0 /\ d3 = 0 /\ d2 = 0 => v < Base * Weight[1]
  BY <1>1, <1>2, <1>3, <1>4 DEF Five
<1>8. q4 \in Nat /\ q3 \in Nat /\ q2 \in Nat
  BY <1>1
<1>9. /\ v = Weight[5] * d5 + r4
      /\ v = Weight[4] * q4 + r3
      /\ v = Weight[3] * q3 + r2
      /\ v = Weight[2] * q2 + d1
  BY <1>1 DEF Five
<1> HIDE DEF v, r2, r3, r4
<1> HIDE DEF q4, q3, q2
<1>10. v \div Weight[1] = v
  BY <1>1, <1>6
<1>11. v \div Weight[5] = d5
  <2>1. d5 \in Nat
    OBVIOUS
  <2>2. PICK w \in Nat \ {0} : w = Weight[5]
    BY <1>1
  <2>3. v = w * d5 + r4 /\ r4 \in 0 .. w - 1
    BY <1>4, <1>9, <2>2
  <2>4. v \div w = d5
    BY ONLY <2>1, <2>3, w \in Nat \ {0}
  <2>5. QED  BY <2>2, <2>4
<1>12. v \div Weight[4] = q4
  <2>1. PICK w \in Nat \ {0} : w = Weight[4]
    BY <1>1
  <2>2. v = w * q4 + r3 /\ r3 \in 0 .. w - 1
    BY <1>3, <1>9, <2>1
  <2>3. v \div w = q4
    BY ONLY <1>8, <2>2, w \in Nat \ {0}
  <2>4. QED  BY <2>1, <2>3
<1>13. v \div Weight[3] = q3
  <2>1. PICK w \in Nat \ {0} : w = Weight[3]
    BY <1>1
  <2>2. v = w * q3 + r2 /\ r2 \in 0 .. w - 1
    BY <1>2, <1>9, <2>1
  <2>3. v \div w = q3
    BY ONLY <1>8, <2>2, w \in Nat \ {0}
  <2>4. QED  BY <2>1, <2>3
<1>14. v \div Weight[2] = q2 /\ v % Base = d1
  <2>1. v = Base * q2 + d1
    BY <1>1, <1>9
  <2>2. v \div Base = q2 /\ v % Base = d1
    BY ONLY <1>8, <2>1, <1>0, d1 \in 0 .. Base - 1
  <2>3. QED  BY <1>1, <2>2
<1>15. d5 % Base = d5
  BY <1>1
<1>16. q4 % Base = d4 /\ q3 % Base = d3 /\ q2 % Base = d2
  <2>1. q4 = Base * d5 + d4 /\ q3 = Base * q4 + d3 /\ q2 = Base * q3 + d2
    BY <1>1, <1>8 DEF q4, q3, q2
  <2>2. d5 \in Nat
    OBVIOUS
  <2>3. q4 % Base = d4
    BY ONLY <2>1, <2>2, <1>0, d4 \in 0 .. Base - 1
  <2>4. q3 % Base = d3
    BY ONLY <1>8, <2>1, <1>0, d3 \in 0 .. Base - 1
  <2>5. q2 % Base = d2
    BY ONLY <1>8, <2>1, <1>0, d2 \in 0 .. Base - 1
  <2>6. QED  BY <2>3, <2>4, <2>5
<1>17. HasGroups(v, d1, d2, d3, d4, d5)
  BY <1>1, <1>6, <1>7, <1>10, <1>11, <1>12, <1>13, <1>14, <1>15, <1>16 DEF HasGroups
<1>18. QED  BY ONLY <1>17 DEF v

(* The groups of a number that five of them hold.                          *)
LEMMA Expansion ==
  ASSUME NEW v \in Nat, v < Base * Weight[5]
  PROVE  \E d1, d2, d3, d4, d5 \in 0 .. Base - 1 :
           /\ v = Five(d1, d2, d3, d4, d5)
           /\ v < Base * Weight[4] => d5 = 0
           /\ v < Base * Weight[3] => d5 = 0 /\ d4 = 0
           /\ v < Base * Weight[2] => d5 = 0 /\ d4 = 0 /\ d3 = 0
           /\ v < Base * Weight[1] => d5 = 0 /\ d4 = 0 /\ d3 = 0 /\ d2 = 0
<1>0. Base \in Nat \ {0, 1}
  BY Weights
<1>1. \A a \in Nat : \E q \in Nat, r \in 0 .. Base - 1 : a = Base * q + r
  <2>1. TAKE a \in Nat
  <2>2. a \div Base \in Nat /\ a % Base \in 0 .. Base - 1 /\ a = Base * (a \div Base) + (a % Base)
    BY <1>0, DivModIs
  <2>3. QED  BY <2>2
<1>2. PICK q2 \in Nat, d1 \in 0 .. Base - 1 : v = Base * q2 + d1
  BY <1>1
<1>3. PICK q3 \in Nat, d2 \in 0 .. Base - 1 : q2 = Base * q3 + d2
  BY <1>1
<1>4. PICK q4 \in Nat, d3 \in 0 .. Base - 1 : q3 = Base * q4 + d3
  BY <1>1
<1>5. PICK d5 \in Nat, d4 \in 0 .. Base - 1 : q4 = Base * d5 + d4
  BY <1>1
<1>6. PICK w2, w3, w4, w5 \in Nat \ {0} :
        /\ w2 = Weight[2] /\ w3 = Weight[3] /\ w4 = Weight[4] /\ w5 = Weight[5]
        /\ w2 = Base /\ w3 = Base * w2 /\ w4 = Base * w3 /\ w5 = Base * w4
  BY Weights
<1>7. Weight[1] = 1
  BY Weights
<1>8. /\ v = d1 + d2 * w2 + w3 * q3
      /\ v = d1 + d2 * w2 + d3 * w3 + w4 * q4
      /\ v = d1 + d2 * w2 + d3 * w3 + d4 * w4 + w5 * d5
  <2>1. v = d1 + d2 * w2 + w3 * q3
    BY <1>0, <1>2, <1>3, <1>6
  <2>2. w3 * q3 = d3 * w3 + w4 * q4
    BY <1>0, <1>4, <1>6
  <2>3. w4 * q4 = d4 * w4 + w5 * d5
    BY <1>0, <1>5, <1>6
  <2>4. d2 * w2 \in Nat /\ d3 * w3 \in Nat /\ d4 * w4 \in Nat /\ w5 * d5 \in Nat
    BY <1>0
  <2>5. QED  BY <2>1, <2>2, <2>3, <2>4
<1>9. d2 * w2 \in Nat /\ d3 * w3 \in Nat /\ d4 * w4 \in Nat
  BY <1>0
<1>10. ASSUME NEW q \in Nat, NEW w \in Nat \ {0}, NEW b \in Nat, w * q < b * w
       PROVE  q < b
  <2>1. q >= b => w * q >= b * w
    <3>1. HAVE q >= b
    <3>2. PICK e \in Nat : q = b + e
      <4>1. q - b \in Nat
        BY <3>1
      <4>2. QED  BY <4>1
    <3>3. w * q = b * w + w * e /\ w * e \in Nat /\ b * w \in Nat
      BY <3>2
    <3>4. QED  BY <3>3
  <2>2. QED  BY <1>10, <2>1
<1>11. d5 < Base
  <2>1. w5 * d5 < Base * w5
    <3>1. v < Base * w5
      BY <1>6
    <3>2. w5 * d5 \in Nat /\ Base * w5 \in Nat
      BY <1>0
    <3>3. QED  BY <1>8, <1>9, <3>1, <3>2
  <2>2. QED  BY <1>0, <1>10, <2>1
<1>12. d5 \in 0 .. Base - 1
  BY <1>0, <1>11
<1>13. v < w5 => d5 = 0
  <2>1. v < w5 => w5 * d5 < 1 * w5
    <3>1. w5 * d5 \in Nat
      OBVIOUS
    <3>2. QED  BY <1>8, <1>9, <3>1
  <2>2. v < w5 => d5 < 1
    BY <1>10, <2>1
  <2>3. QED  BY <2>2
<1>14. v < w4 => q4 = 0
  <2>1. v < w4 => w4 * q4 < 1 * w4
    <3>1. w4 * q4 \in Nat
      OBVIOUS
    <3>2. QED  BY <1>8, <1>9, <3>1
  <2>2. v < w4 => q4 < 1
    BY <1>10, <2>1
  <2>3. QED  BY <2>2
<1>15. v < w3 => q3 = 0
  <2>1. v < w3 => w3 * q3 < 1 * w3
    <3>1. w3 * q3 \in Nat
      OBVIOUS
    <3>2. QED  BY <1>8, <1>9, <3>1
  <2>2. v < w3 => q3 < 1
    BY <1>10, <2>1
  <2>3. QED  BY <2>2
<1>16. v < Base => q2 = 0
  <2>1. v < Base => Base * q2 < 1 * Base
    <3>1. Base * q2 \in Nat
      BY <1>0
    <3>2. QED  BY <1>0, <1>2, <3>1
  <2>2. v < Base => q2 < 1
    BY <1>0, <1>10, <2>1
  <2>3. QED  BY <2>2
<1>17. ASSUME NEW q \in Nat, NEW d \in Nat, Base * q + d = 0
       PROVE  q = 0 /\ d = 0
  <2>1. q # 0 => Base * q >= Base
    BY <1>0
  <2>2. Base * q \in Nat
    BY <1>0
  <2>3. QED  BY <1>0, <1>17, <2>1, <2>2
<1>18. /\ q4 = 0 => d5 = 0 /\ d4 = 0
       /\ q3 = 0 => q4 = 0 /\ d3 = 0
       /\ q2 = 0 => q3 = 0 /\ d2 = 0
  BY <1>3, <1>4, <1>5, <1>17
<1>19. Base * Weight[4] = w5 /\ Base * Weight[3] = w4 /\ Base * Weight[2] = w3 /\ Base * Weight[1] = Base
  BY <1>0, <1>6, <1>7
<1>20. d5 * w5 = w5 * d5
  OBVIOUS
<1>21. /\ v = Five(d1, d2, d3, d4, d5)
       /\ v < Base * Weight[4] => d5 = 0
       /\ v < Base * Weight[3] => d5 = 0 /\ d4 = 0
       /\ v < Base * Weight[2] => d5 = 0 /\ d4 = 0 /\ d3 = 0
       /\ v < Base * Weight[1] => d5 = 0 /\ d4 = 0 /\ d3 = 0 /\ d2 = 0
  BY <1>6, <1>8, <1>13, <1>14, <1>15, <1>16, <1>18, <1>19, <1>20 DEF Five
<1>22. QED  BY <1>12, <1>21

(* What an integer of fewer values keeps of five groups.                   *)
LEMMA Wrapped ==
  ASSUME NEW d1 \in 0 .. Base - 1, NEW d2 \in 0 .. Base - 1, NEW d3 \in 0 .. Base - 1,
         NEW d4 \in 0 .. Base - 1, NEW d5 \in 0 .. Base - 1,
         NEW v, v = Five(d1, d2, d3, d4, d5)
  PROVE  /\ v % Modulus = Five(d1, d2, d3, d4, d5 % High)
         /\ v % Modulus \in 0 .. Modulus - 1
         /\ (d1 * Weight[1]) % Modulus = d1 * Weight[1]
         /\ (d2 * Weight[2]) % Modulus = d2 * Weight[2]
         /\ (d3 * Weight[3]) % Modulus = d3 * Weight[3]
         /\ (d4 * Weight[4]) % Modulus = d4 * Weight[4]
         /\ (d5 * Weight[5]) % Modulus = (d5 % High) * Weight[5]
         /\ d5 % High \in 0 .. Base - 1
<1>1. PICK w2, w3, w4, w5, m \in Nat \ {0} :
        /\ w2 = Weight[2] /\ w3 = Weight[3] /\ w4 = Weight[4] /\ w5 = Weight[5] /\ m = Modulus
        /\ w2 = Base /\ w3 = Base * w2 /\ w4 = Base * w3 /\ w5 = Base * w4 /\ m = High * w5
  BY Weights
<1>2. Base \in Nat \ {0, 1} /\ High \in 2 .. Base /\ High \in Nat \ {0} /\ Weight[1] = 1
  BY Weights
<1> DEFINE r2 == d1 + d2 * w2
           r3 == r2 + d3 * w3
           r4 == r3 + d4 * w4
<1>3. r2 \in 0 .. w3 - 1
  BY <1>1, <1>2, Below
<1>4. r3 \in 0 .. w4 - 1
  <2> HIDE DEF r2
  <2> QED  BY <1>1, <1>2, <1>3, Below
<1>5. r4 \in 0 .. w5 - 1
  <2> HIDE DEF r3
  <2> QED  BY <1>1, <1>2, <1>4, Below
<1>6. PICK q \in Nat, h \in 0 .. High - 1 : d5 = High * q + h /\ h = d5 % High
  <2>1. d5 \in Nat
    OBVIOUS
  <2>2. d5 \div High \in Nat /\ d5 % High \in 0 .. High - 1 /\ d5 = High * (d5 \div High) + (d5 % High)
    BY <1>2, <2>1, DivModIs
  <2>3. QED  BY <2>2
<1>7. d5 * w5 = m * q + h * w5
  BY <1>1, <1>2, <1>6
<1>8. ASSUME NEW r \in 0 .. w5 - 1
      PROVE  r + h * w5 \in 0 .. m - 1
  BY <1>1, <1>2, Below
<1>9. ASSUME NEW r \in 0 .. w5 - 1
      PROVE  (r + d5 * w5) % m = r + h * w5
  <2>1. r + d5 * w5 = m * q + (r + h * w5)
    <3>1. m * q \in Nat /\ h * w5 \in Nat
      BY <1>2
    <3>2. QED  BY <1>7, <3>1
  <2>2. PICK t \in 0 .. m - 1 : t = r + h * w5
    BY <1>8
  <2>3. PICK a \in Nat : a = m * q + t
    <3>1. m * q \in Nat
      OBVIOUS
    <3>2. QED  BY <3>1
  <2>4. a % m = t
    BY ONLY <2>3, q \in Nat, t \in 0 .. m - 1, m \in Nat \ {0}
  <2>5. QED  BY <2>1, <2>2, <2>3, <2>4
<1>10. v = r4 + d5 * w5
  BY <1>1 DEF Five
<1>11. v % m = r4 + h * w5 /\ v % m \in 0 .. m - 1
  <2> HIDE DEF r4
  <2> QED  BY <1>5, <1>8, <1>9, <1>10
<1>12. (d5 * w5) % m = h * w5
  <2>1. (0 + d5 * w5) % m = 0 + h * w5
    BY <1>9
  <2>2. d5 * w5 \in Nat /\ h * w5 \in Nat
    BY <1>2
  <2>3. QED  BY <2>1, <2>2
<1>13. w5 <= m
  <2>1. PICK e \in Nat : High = 1 + e
    <3>1. High - 1 \in Nat
      BY <1>2
    <3>2. QED  BY <1>2, <3>1
  <2>2. m = w5 + e * w5 /\ e * w5 \in Nat
    BY <1>1, <2>1
  <2>3. QED  BY <2>2
<1>14. \A x \in 0 .. w5 - 1 : x % m = x
  BY <1>13
<1>15. d1 \in 0 .. w5 - 1 /\ d2 * w2 \in 0 .. w5 - 1 /\ d3 * w3 \in 0 .. w5 - 1 /\ d4 * w4 \in 0 .. w5 - 1
  <2>1. d2 * w2 \in Nat /\ d3 * w3 \in Nat /\ d4 * w4 \in Nat
    BY <1>2
  <2>2. QED  BY <1>5, <2>1
<1>16. h \in 0 .. Base - 1
  BY <1>2
<1>17. d1 * Weight[1] = d1
  BY <1>2
<1>18. QED
  <2>1. v % m = d1 + d2 * w2 + d3 * w3 + d4 * w4 + h * w5
    BY <1>11
  <2> HIDE DEF r2, r3, r4
  <2>2. QED  BY <1>1, <1>6, <1>11, <1>12, <1>14, <1>15, <1>16, <1>17, <2>1 DEF Five

(* The value of up to five bytes is the one number whose groups they hold. *)
LEMMA NumberIs ==
  ASSUME NEW s, NEW n \in 1 .. 5, \A i \in 1 .. n : s[i] \in Nat
  PROVE  /\ Number(s, n) \in Nat
         /\ \A v \in Nat :
              v = Number(s, n)
                <=> /\ v < Base * Weight[n]
                    /\ \A i \in 1 .. n : ((s[i] % Base) * Weight[i]) % Modulus
                                           = ((v \div Weight[i]) % Base) * Weight[i]
<1> DEFINE e(i) == IF i <= n THEN s[i] % Base ELSE 0
<1>1. Base \in Nat \ {0, 1} /\ High \in 2 .. Base /\ Weight[1] = 1
      /\ \A i \in 1 .. 5 : Weight[i] \in Nat \ {0}
  BY Weights
<1>2. \A i \in 1 .. 5 : e(i) \in 0 .. Base - 1
  <2>1. \A i \in 1 .. n : s[i] % Base \in 0 .. Base - 1
    BY <1>1
  <2>2. QED  BY <1>1, <2>1
<1>3. PICK e1, e2, e3, e4, e5 \in 0 .. Base - 1 :
        e1 = e(1) /\ e2 = e(2) /\ e3 = e(3) /\ e4 = e(4) /\ e5 = e(5)
  BY <1>2
<1>4. /\ n < 5 => e5 = 0
      /\ n < 4 => e4 = 0
      /\ n < 3 => e3 = 0
      /\ n < 2 => e2 = 0
  BY <1>3
<1> DEFINE u == Five(e1, e2, e3, e4, e5)
           c == Five(e1, e2, e3, e4, e5 % High)
<1>5. \A i \in 1 .. 5 : (IF i <= n THEN (s[i] % Base) * Weight[i] ELSE 0) = e(i) * Weight[i]
  <2>1. TAKE i \in 1 .. 5
  <2>2. 0 * Weight[i] = 0
    BY <1>1
  <2>3. QED  BY <2>2
<1>6. e1 * Weight[1] = e1
  BY <1>1
<1>7. Number(s, n) = u % Modulus
  <2>1. Number(s, n) = (e(1) * Weight[1] + e(2) * Weight[2] + e(3) * Weight[3] + e(4) * Weight[4]
                          + e(5) * Weight[5]) % Modulus
    BY <1>5 DEF Number
  <2>2. QED  BY <1>3, <1>6, <2>1 DEF Five
<1>8. /\ u % Modulus = c /\ u % Modulus \in 0 .. Modulus - 1
      /\ (e1 * Weight[1]) % Modulus = e1 * Weight[1]
      /\ (e2 * Weight[2]) % Modulus = e2 * Weight[2]
      /\ (e3 * Weight[3]) % Modulus = e3 * Weight[3]
      /\ (e4 * Weight[4]) % Modulus = e4 * Weight[4]
      /\ (e5 * Weight[5]) % Modulus = (e5 % High) * Weight[5]
      /\ e5 % High \in 0 .. Base - 1
  BY Wrapped
<1> HIDE DEF u
<1>9. PICK h \in 0 .. Base - 1 : h = e5 % High
  BY <1>8
<1>10. e5 = 0 => h = 0
  BY <1>1, <1>9
<1>11. /\ c \in Nat /\ c < Base * Weight[5]
       /\ h = 0 => c < Base * Weight[4]
       /\ h = 0 /\ e4 = 0 => c < Base * Weight[3]
       /\ h = 0 /\ e4 = 0 /\ e3 = 0 => c < Base * Weight[2]
       /\ h = 0 /\ e4 = 0 /\ e3 = 0 /\ e2 = 0 => c < Base * Weight[1]
       /\ (c \div Weight[1]) % Base = e1 /\ (c \div Weight[2]) % Base = e2
       /\ (c \div Weight[3]) % Base = e3 /\ (c \div Weight[4]) % Base = e4
       /\ (c \div Weight[5]) % Base = h
  <2>1. c = Five(e1, e2, e3, e4, h)
    BY <1>9
  <2>2. HasGroups(Five(e1, e2, e3, e4, h), e1, e2, e3, e4, h)
    BY GroupsOf
  <2> HIDE DEF c
  <2>3. HasGroups(c, e1, e2, e3, e4, h)
    BY ONLY <2>1, <2>2
  <2>4. QED  BY ONLY <2>3 DEF HasGroups
<1>12. Number(s, n) = c
  BY <1>7, <1>8
<1>13. \A i \in 1 .. 5 : i = 1 \/ i = 2 \/ i = 3 \/ i = 4 \/ i = 5
  OBVIOUS
<1>14. c < Base * Weight[n]
  <2> HIDE DEF c
  <2>1. n = 1 \/ n = 2 \/ n = 3 \/ n = 4 \/ n = 5
    BY <1>13
  <2>2. QED  BY <1>4, <1>10, <1>11, <2>1
<1>15. \A i \in 1 .. n : ((s[i] % Base) * Weight[i]) % Modulus = ((c \div Weight[i]) % Base) * Weight[i]
  <2> HIDE DEF c
  <2>1. TAKE i \in 1 .. n
  <2>2. i = 1 \/ i = 2 \/ i = 3 \/ i = 4 \/ i = 5
    BY <1>13
  <2>3. s[i] % Base = e(i)
    OBVIOUS
  <2> HIDE DEF e
  <2>4. QED  BY <1>3, <1>8, <1>9, <1>11, <2>2, <2>3
<1>16. ASSUME NEW v \in Nat, v < Base * Weight[n],
              \A i \in 1 .. n : ((s[i] % Base) * Weight[i]) % Modulus
                                  = ((v \div Weight[i]) % Base) * Weight[i]
       PROVE  v = c
  <2>1. v < Base * Weight[5]
    <3>1. ASSUME NEW a \in Nat \ {0}, NEW b \in Nat \ {0}
          PROVE  a <= a * b /\ a * b = b * a
      <4>1. PICK k \in Nat : b = k + 1
        <5>1. b - 1 \in Nat
          OBVIOUS
        <5>2. QED  BY <5>1
      <4>2. a * b = a * k + a /\ a * k \in Nat
        BY <4>1
      <4>3. QED  BY <4>2
    <3>2. /\ Weight[2] = Base * Weight[1] /\ Weight[3] = Base * Weight[2]
          /\ Weight[4] = Base * Weight[3] /\ Weight[5] = Base * Weight[4]
      BY Weights, <1>1
    <3>3. \A i \in 1 .. 5 : Weight[i] <= Base * Weight[i]
      BY <1>1, <3>1
    <3>4. \A i \in 1 .. 5 : \E b \in Nat : b = Base * Weight[i]
      <4>1. TAKE i \in 1 .. 5
      <4>2. Base * Weight[i] \in Nat
        BY <1>1
      <4>3. QED  BY <4>2
    <3>5. PICK b1 \in Nat : b1 = Base * Weight[1]
      BY <3>4
    <3>6. PICK b2 \in Nat : b2 = Base * Weight[2]
      BY <3>4
    <3>7. PICK b3 \in Nat : b3 = Base * Weight[3]
      BY <3>4
    <3>8. PICK b4 \in Nat : b4 = Base * Weight[4]
      BY <3>4
    <3>9. PICK b5 \in Nat : b5 = Base * Weight[5]
      BY <3>4
    <3>10. b1 <= b2 /\ b2 <= b3 /\ b3 <= b4 /\ b4 <= b5
      BY <3>2, <3>3, <3>5, <3>6, <3>7, <3>8, <3>9
    <3>11. n = 1 \/ n = 2 \/ n = 3 \/ n = 4 \/ n = 5
      BY <1>13
    <3>12. QED  BY <1>16, <3>10, <3>11, <3>5, <3>6, <3>7, <3>8, <3>9
  <2>2. PICK d1, d2, d3, d4, d5 \in 0 .. Base - 1 :
           /\ v = Five(d1, d2, d3, d4, d5)
           /\ v < Base * Weight[4] => d5 = 0
           /\ v < Base * Weight[3] => d5 = 0 /\ d4 = 0
           /\ v < Base * Weight[2] => d5 = 0 /\ d4 = 0 /\ d3 = 0
           /\ v < Base * Weight[1] => d5 = 0 /\ d4 = 0 /\ d3 = 0 /\ d2 = 0
    BY <2>1, Expansion
  <2>3. /\ (v \div Weight[1]) % Base = d1 /\ (v \div Weight[2]) % Base = d2
        /\ (v \div Weight[3]) % Base = d3 /\ (v \div Weight[4]) % Base = d4
        /\ (v \div Weight[5]) % Base = d5
    <3>1. HasGroups(Five(d1, d2, d3, d4, d5), d1, d2, d3, d4, d5)
      BY GroupsOf
    <3>2. HasGroups(v, d1, d2, d3, d4, d5)
      BY ONLY <2>2, <3>1
    <3>3. QED  BY ONLY <3>2 DEF HasGroups
  <2>4. ASSUME NEW a \in Nat, NEW b \in Nat, NEW w \in Nat \ {0}, a * w = b * w
        PROVE  a = b
    <3>1. (a * w) \div w = a /\ (b * w) \div w = b
      OBVIOUS
    <3>2. QED  BY <2>4, <3>1
  <2>5. /\ 1 <= n => e1 = d1
        /\ 2 <= n => e2 = d2
        /\ 3 <= n => e3 = d3
        /\ 4 <= n => e4 = d4
        /\ 5 <= n => h = d5
    <3>1. \A i \in 1 .. n : (e(i) * Weight[i]) % Modulus = ((v \div Weight[i]) % Base) * Weight[i]
      BY <1>16
    <3> HIDE DEF e
    <3>2. /\ 1 <= n => e1 * Weight[1] = d1 * Weight[1]
          /\ 2 <= n => e2 * Weight[2] = d2 * Weight[2]
          /\ 3 <= n => e3 * Weight[3] = d3 * Weight[3]
          /\ 4 <= n => e4 * Weight[4] = d4 * Weight[4]
          /\ 5 <= n => h * Weight[5] = d5 * Weight[5]
      BY <1>3, <1>8, <1>9, <2>3, <3>1
    <3>3. ASSUME NEW a \in 0 .. Base - 1, NEW b \in 0 .. Base - 1, NEW i \in 1 .. 5,
                 a * Weight[i] = b * Weight[i]
          PROVE  a = b
      BY <1>1, <2>4, <3>3
    <3>4. 1 <= n => e1 = d1
      BY <3>2, <3>3
    <3>5. 2 <= n => e2 = d2
      BY <3>2, <3>3
    <3>6. 3 <= n => e3 = d3
      BY <3>2, <3>3
    <3>7. 4 <= n => e4 = d4
      BY <3>2, <3>3
    <3>8. 5 <= n => h = d5
      BY <3>2, <3>3
    <3>9. QED  BY <3>4, <3>5, <3>6, <3>7, <3>8
  <2>6. e1 = d1 /\ e2 = d2 /\ e3 = d3 /\ e4 = d4 /\ h = d5
    <3>1. n = 1 \/ n = 2 \/ n = 3 \/ n = 4 \/ n = 5
      BY <1>13
    <3>2. QED  BY <1>4, <1>10, <1>16, <2>2, <2>5, <3>1
  <2>7. QED  BY <1>9, <2>2, <2>6
<1>17. QED
  <2> HIDE DEF c
  <2>1. c \in Nat
    BY <1>11
  <2>2. QED  BY <1>12, <1>14, <1>15, <1>16, <2>1

-----------------------------------------------------------------------------
(* Parts of sequences                                                      *)

LEMMA DropIs ==
  ASSUME NEW S, NEW s \in Seq(S), NEW n \in 0 .. Len(s)
  PROVE  /\ Drop(s, n) \in Seq(S) /\ Len(Drop(s, n)) = Len(s) - n
         /\ \A i \in 1 .. Len(s) - n : Drop(s, n)[i] = s[n + i]
<1>1. Len(s) \in Nat /\ \A i \in 1 .. Len(s) : s[i] \in S
  BY LenProperties, ElementOfSeq
<1>2. /\ SubSeq(s, n + 1, Len(s)) \in Seq(S)
      /\ Len(SubSeq(s, n + 1, Len(s)))
           = IF n + 1 <= Len(s) THEN Len(s) - (n + 1) + 1 ELSE 0
      /\ \A i \in 1 .. Len(s) - (n + 1) + 1 :
           SubSeq(s, n + 1, Len(s))[i] = s[(n + 1) + i - 1]
  <2>1. \A i \in n + 1 .. Len(s) : s[i] \in S
    BY <1>1
  <2>2. n + 1 \in Int /\ Len(s) \in Int
    BY <1>1
  <2>3. QED  BY <2>1, <2>2, SubSeqProperties
<1>3. QED  BY <1>1, <1>2 DEF Drop

LEMMA PrefixIs ==
  ASSUME NEW S, NEW s \in Seq(S), NEW n \in 0 .. Len(s)
  PROVE  /\ SubSeq(s, 1, n) \in Seq(S) /\ Len(SubSeq(s, 1, n)) = n
         /\ \A i \in 1 .. n : SubSeq(s, 1, n)[i] = s[i]
<1>1. Len(s) \in Nat /\ \A i \in 1 .. Len(s) : s[i] \in S
  BY LenProperties, ElementOfSeq
<1>2. \A i \in 1 .. n : s[i] \in S
  BY <1>1
<1>3. 1 \in Int /\ n \in Int
  BY <1>1
<1>4. /\ SubSeq(s, 1, n) \in Seq(S)
      /\ Len(SubSeq(s, 1, n)) = IF 1 <= n THEN n - 1 + 1 ELSE 0
      /\ \A i \in 1 .. n - 1 + 1 : SubSeq(s, 1, n)[i] = s[1 + i - 1]
  BY <1>2, <1>3, SubSeqProperties
<1>5. QED  BY <1>1, <1>4

LEMMA DropDrop ==
  ASSUME NEW S, NEW s \in Seq(S), NEW m \in 0 .. Len(s), NEW n \in 0 .. Len(s) - m
  PROVE  Drop(Drop(s, m), n) = Drop(s, m + n)
<1>1. PICK l \in Nat : l = Len(s)
  BY LenProperties
<1>2. PICK t \in Seq(S) : t = Drop(s, m) /\ Len(t) = l - m
                         /\ \A i \in 1 .. l - m : t[i] = s[m + i]
  <2>1. /\ Drop(s, m) \in Seq(S) /\ Len(Drop(s, m)) = Len(s) - m
        /\ \A i \in 1 .. Len(s) - m : Drop(s, m)[i] = s[m + i]
    BY DropIs
  <2>2. QED  BY <1>1, <2>1
<1>3. n \in 0 .. Len(t)
  BY <1>1, <1>2
<1>4. PICK u \in Seq(S) : u = Drop(t, n) /\ Len(u) = Len(t) - n
                         /\ \A i \in 1 .. Len(t) - n : u[i] = t[n + i]
  <2>1. /\ Drop(t, n) \in Seq(S) /\ Len(Drop(t, n)) = Len(t) - n
        /\ \A i \in 1 .. Len(t) - n : Drop(t, n)[i] = t[n + i]
    BY <1>3, DropIs
  <2>2. QED  BY <2>1
<1>5. m + n \in 0 .. Len(s)
  BY <1>1
<1>6. PICK w \in Seq(S) : w = Drop(s, m + n) /\ Len(w) = l - (m + n)
                         /\ \A i \in 1 .. l - (m + n) : w[i] = s[(m + n) + i]
  <2>1. /\ Drop(s, m + n) \in Seq(S) /\ Len(Drop(s, m + n)) = Len(s) - (m + n)
        /\ \A i \in 1 .. Len(s) - (m + n) : Drop(s, m + n)[i] = s[(m + n) + i]
    BY <1>5, DropIs
  <2>2. QED  BY <1>1, <2>1
<1>7. Len(u) = Len(w) /\ Len(u) = l - (m + n)
  BY <1>1, <1>2, <1>4, <1>6
<1>8. ASSUME NEW i \in 1 .. Len(u)
      PROVE  u[i] = w[i]
  <2>1. i \in 1 .. l - (m + n) /\ i \in 1 .. Len(t) - n /\ n + i \in 1 .. l - m
    BY <1>1, <1>2, <1>7
  <2>2. u[i] = t[n + i] /\ t[n + i] = s[m + (n + i)] /\ w[i] = s[(m + n) + i]
    BY <1>2, <1>4, <1>6, <2>1
  <2>3. m + (n + i) = (m + n) + i
    OBVIOUS
  <2>4. QED  BY <2>2, <2>3
<1>9. u = w
  BY <1>7, <1>8, SeqEqual
<1>10. QED  BY <1>2, <1>4, <1>6, <1>9

LEMMA PrefixOfPrefix ==
  ASSUME NEW S, NEW s \in Seq(S), NEW k \in 0 .. Len(s), NEW n \in 0 .. k
  PROVE  SubSeq(SubSeq(s, 1, k), 1, n) = SubSeq(s, 1, n)
<1>1. Len(s) \in Nat /\ n \in 0 .. Len(s)
  BY LenProperties
<1>2. /\ SubSeq(s, 1, k) \in Seq(S) /\ Len(SubSeq(s, 1, k)) = k
      /\ \A i \in 1 .. k : SubSeq(s, 1, k)[i] = s[i]
  BY PrefixIs
<1>3. /\ SubSeq(s, 1, n) \in Seq(S) /\ Len(SubSeq(s, 1, n)) = n
      /\ \A i \in 1 .. n : SubSeq(s, 1, n)[i] = s[i]
  BY <1>1, PrefixIs
<1>4. /\ SubSeq(SubSeq(s, 1, k), 1, n) \in Seq(S) /\ Len(SubSeq(SubSeq(s, 1, k), 1, n)) = n
      /\ \A i \in 1 .. n : SubSeq(SubSeq(s, 1, k), 1, n)[i] = SubSeq(s, 1, k)[i]
  BY <1>2, PrefixIs
<1>5. \A i \in 1 .. n : SubSeq(SubSeq(s, 1, k), 1, n)[i] = SubSeq(s, 1, n)[i]
  BY <1>1, <1>2, <1>3, <1>4
<1>6. QED  BY <1>3, <1>4, <1>5, SeqEqual

LEMMA DropOfPrefix ==
  ASSUME NEW S, NEW s \in Seq(S), NEW k \in 0 .. Len(s), NEW n \in 0 .. k
  PROVE  Drop(SubSeq(s, 1, k), n) = SubSeq(Drop(s, n), 1, k - n)
<1>1. Len(s) \in Nat /\ n \in 0 .. Len(s) /\ k - n \in 0 .. Len(s) - n
  BY LenProperties
<1>2. /\ SubSeq(s, 1, k) \in Seq(S) /\ Len(SubSeq(s, 1, k)) = k
      /\ \A i \in 1 .. k : SubSeq(s, 1, k)[i] = s[i]
  BY PrefixIs
<1>3. /\ Drop(SubSeq(s, 1, k), n) \in Seq(S) /\ Len(Drop(SubSeq(s, 1, k), n)) = k - n
      /\ \A i \in 1 .. k - n : Drop(SubSeq(s, 1, k), n)[i] = SubSeq(s, 1, k)[n + i]
  <2>1. PICK t \in Seq(S) : t = SubSeq(s, 1, k) /\ Len(t) = k
    BY <1>2
  <2>2. /\ Drop(t, n) \in Seq(S) /\ Len(Drop(t, n)) = Len(t) - n
        /\ \A i \in 1 .. Len(t) - n : Drop(t, n)[i] = t[n + i]
    BY <2>1, DropIs
  <2>3. QED  BY <2>1, <2>2
<1>4. /\ Drop(s, n) \in Seq(S) /\ Len(Drop(s, n)) = Len(s) - n
      /\ \A i \in 1 .. Len(s) - n : Drop(s, n)[i] = s[n + i]
  BY <1>1, DropIs
<1>5. /\ SubSeq(Drop(s, n), 1, k - n) \in Seq(S) /\ Len(SubSeq(Drop(s, n), 1, k - n)) = k - n
      /\ \A i \in 1 .. k - n : SubSeq(Drop(s, n), 1, k - n)[i] = Drop(s, n)[i]
  BY <1>1, <1>4, PrefixIs
<1>6. ASSUME NEW i \in 1 .. k - n
      PROVE  Drop(SubSeq(s, 1, k), n)[i] = SubSeq(Drop(s, n), 1, k - n)[i]
  <2>1. n + i \in 1 .. k /\ i \in 1 .. Len(s) - n
    BY <1>1
  <2>2. Drop(SubSeq(s, 1, k), n)[i] = SubSeq(s, 1, k)[n + i] /\ SubSeq(s, 1, k)[n + i] = s[n + i]
    BY <1>2, <1>3, <2>1
  <2>3. SubSeq(Drop(s, n), 1, k - n)[i] = Drop(s, n)[i] /\ Drop(s, n)[i] = s[n + i]
    BY <1>4, <1>5, <2>1
  <2>4. QED  BY <2>2, <2>3
<1>7. QED  BY <1>3, <1>5, <1>6, SeqEqual

(* The parts of a sequence that was put together from two.                 *)
LEMMA PartsOfConcat ==
  ASSUME NEW S, NEW s \in Seq(S), NEW t \in Seq(S)
  PROVE  /\ s \o t \in Seq(S) /\ Len(s \o t) = Len(s) + Len(t)
         /\ SubSeq(s \o t, 1, Len(s)) = s /\ Drop(s \o t, Len(s)) = t
<1>1. Len(s) \in Nat /\ Len(t) \in Nat
  BY LenProperties
<1>2. /\ s \o t \in Seq(S) /\ Len(s \o t) = Len(s) + Len(t)
      /\ \A i \in 1 .. Len(s) + Len(t) :
           (s \o t)[i] = IF i <= Len(s) THEN s[i] ELSE t[i - Len(s)]
  BY ConcatProperties
<1>3. Len(s) \in 0 .. Len(s \o t)
  BY <1>1, <1>2
<1>4. /\ SubSeq(s \o t, 1, Len(s)) \in Seq(S) /\ Len(SubSeq(s \o t, 1, Len(s))) = Len(s)
      /\ \A i \in 1 .. Len(s) : SubSeq(s \o t, 1, Len(s))[i] = (s \o t)[i]
  BY <1>2, <1>3, PrefixIs
<1>5. /\ Drop(s \o t, Len(s)) \in Seq(S) /\ Len(Drop(s \o t, Len(s))) = Len(s \o t) - Len(s)
      /\ \A i \in 1 .. Len(s \o t) - Len(s) : Drop(s \o t, Len(s))[i] = (s \o t)[Len(s) + i]
  BY <1>2, <1>3, DropIs
<1>6. SubSeq(s \o t, 1, Len(s)) = s
  <2>1. \A i \in 1 .. Len(s) : SubSeq(s \o t, 1, Len(s))[i] = s[i]
    BY <1>1, <1>2, <1>4
  <2>2. QED  BY <1>4, <2>1, SeqEqual
<1>7. Drop(s \o t, Len(s)) = t
  <2>1. \A i \in 1 .. Len(t) : Drop(s \o t, Len(s))[i] = t[i]
    BY <1>1, <1>2, <1>5
  <2>2. Len(Drop(s \o t, Len(s))) = Len(t)
    BY <1>1, <1>2, <1>5
  <2>3. QED  BY <1>5, <2>1, <2>2, SeqEqual
<1>8. QED  BY <1>2, <1>6, <1>7

-----------------------------------------------------------------------------
(* Integers in bytes                                                       *)

LEMMA Bytes ==
  ASSUME NEW s \in Seq(Byte)
  PROVE  Len(s) \in Nat /\ \A i \in 1 .. Len(s) : s[i] \in Byte /\ s[i] \in Nat
<1>1. Len(s) \in Nat /\ \A i \in 1 .. Len(s) : s[i] \in Byte
  BY LenProperties, ElementOfSeq
<1>2. Byte \subseteq Nat
  BY Weights DEF Byte
<1>3. QED  BY <1>1, <1>2

LEMMA Least ==
  ASSUME NEW T, T \subseteq 1 .. 5, T # {}
  PROVE  Min(T) \in T /\ \A y \in T : Min(T) <= y
<1>1. \E x \in T : \A y \in T : x <= y
  <2>1. \A y \in T : y = 1 \/ y = 2 \/ y = 3 \/ y = 4 \/ y = 5
    OBVIOUS
  <2>2. CASE 1 \in T
    BY <2>1, <2>2
  <2>3. CASE 1 \notin T /\ 2 \in T
    BY <2>1, <2>3
  <2>4. CASE 1 \notin T /\ 2 \notin T /\ 3 \in T
    BY <2>1, <2>4
  <2>5. CASE 1 \notin T /\ 2 \notin T /\ 3 \notin T /\ 4 \in T
    BY <2>1, <2>5
  <2>6. CASE 1 \notin T /\ 2 \notin T /\ 3 \notin T /\ 4 \notin T
    <3>1. \A y \in T : y = 5
      BY <2>1, <2>6
    <3>2. 5 \in T
      BY <3>1
    <3>3. QED  BY <3>1, <3>2
  <2>7. QED  BY <2>2, <2>3, <2>4, <2>5, <2>6
<1>2. QED  BY <1>1 DEF Min

(* The first bytes of s hold v: they end where the continuation bits do.   *)
LEMMA PrefixHolds ==
  ASSUME NEW s \in Seq(Byte), NEW n \in 1 .. 5, n <= Len(s), NEW v \in Nat
  PROVE  IsVarInt(SubSeq(s, 1, n), v)
           <=> v = Number(s, n) /\ \A i \in 1 .. n : Continues(s[i]) <=> i # n
<1>1. Len(s) \in Nat /\ \A i \in 1 .. Len(s) : s[i] \in Nat
  BY Bytes
<1>2. /\ Len(SubSeq(s, 1, n)) = n
      /\ \A i \in 1 .. n : SubSeq(s, 1, n)[i] = s[i]
  <2>1. n \in 0 .. Len(s)
    BY <1>1
  <2>2. QED  BY <2>1, PrefixIs
<1>3. \A i \in 1 .. n : s[i] \in Nat
  BY <1>1
<1>4. v = Number(s, n)
        <=> /\ v < Base * Weight[n]
            /\ \A i \in 1 .. n : ((s[i] % Base) * Weight[i]) % Modulus
                                   = ((v \div Weight[i]) % Base) * Weight[i]
  BY <1>3, NumberIs
<1>5. IsVarInt(SubSeq(s, 1, n), v)
        <=> /\ v < Base * Weight[n]
            /\ \A i \in 1 .. n :
                 /\ Continues(s[i]) <=> i # n
                 /\ ((s[i] % Base) * Weight[i]) % Modulus
                      = ((v \div Weight[i]) % Base) * Weight[i]
  BY ONLY <1>2 DEF IsVarInt
<1>6. QED  BY ONLY <1>4, <1>5

(* readVarInt finds the only integer at the head of s, if there is one.    *)
LEMMA ReadVarIntIs ==
  ASSUME NEW s \in Seq(Byte)
  PROVE  /\ readVarInt(s).is = "ok" =>
              \E n \in 1 .. 5, v \in Nat :
                n <= Len(s) /\ IsVarInt(SubSeq(s, 1, n), v) /\ readVarInt(s) = Read(v, Drop(s, n))
         /\ \A n \in 1 .. 5, v \in Nat :
              n <= Len(s) /\ IsVarInt(SubSeq(s, 1, n), v) => readVarInt(s) = Read(v, Drop(s, n))
<1> DEFINE ends == {i \in 1 .. Len(s) : i <= MaxBytes /\ ~Continues(s[i])}
<1>1. Len(s) \in Nat /\ \A i \in 1 .. Len(s) : s[i] \in Nat
  BY Bytes
<1>2. ends \subseteq 1 .. 5
  BY <1>1 DEF MaxBytes
<1>3. readVarInt(s) = IF ends # {} THEN Read(Number(s, Min(ends)), Drop(s, Min(ends)))
                      ELSE IF Len(s) > MaxBytes THEN Bad ELSE Short
  BY DEF readVarInt
<1>4. readVarInt(s).is = "ok" => ends # {}
  BY <1>3 DEF Bad, Short
<1>5. ASSUME ends # {}
      PROVE  \E n \in 1 .. 5, v \in Nat :
               n <= Len(s) /\ IsVarInt(SubSeq(s, 1, n), v) /\ readVarInt(s) = Read(v, Drop(s, n))
  <2>1. PICK n \in ends : n = Min(ends) /\ \A y \in ends : n <= y
    <3> HIDE DEF ends
    <3>1. QED  BY <1>2, <1>5, Least
  <2>2. n \in 1 .. 5 /\ n \in 1 .. Len(s) /\ n <= Len(s)
    BY <1>1, <1>2
  <2>3. \A i \in 1 .. n : Continues(s[i]) <=> i # n
    <3>1. TAKE i \in 1 .. n
    <3>2. i \in 1 .. Len(s) /\ i <= MaxBytes
      BY <1>1, <2>2 DEF MaxBytes
    <3>3. ~Continues(s[i]) => n <= i
      BY <2>1, <3>2
    <3>4. ~Continues(s[n])
      OBVIOUS
    <3>5. QED  BY <2>2, <3>3, <3>4
  <2>4. Number(s, n) \in Nat
    <3>1. \A i \in 1 .. n : s[i] \in Nat
      BY <1>1, <2>2
    <3>2. QED  BY <2>2, <3>1, NumberIs
  <2>5. IsVarInt(SubSeq(s, 1, n), Number(s, n))
    BY <2>2, <2>3, <2>4, PrefixHolds
  <2>6. readVarInt(s) = Read(Number(s, n), Drop(s, n))
    BY ONLY <1>3, <1>5, <2>1
  <2>7. QED  BY ONLY <2>2, <2>4, <2>5, <2>6
<1>6. ASSUME NEW n \in 1 .. 5, NEW v \in Nat, n <= Len(s), IsVarInt(SubSeq(s, 1, n), v)
      PROVE  readVarInt(s) = Read(v, Drop(s, n))
  <2>1. v = Number(s, n) /\ \A i \in 1 .. n : Continues(s[i]) <=> i # n
    BY <1>6, PrefixHolds
  <2>2. n \in ends
    BY <1>1, <1>6, <2>1 DEF MaxBytes
  <2>3. \A y \in ends : n <= y
    BY <1>1, <2>1
  <2>4. Min(ends) = n
    <3> HIDE DEF ends
    <3>1. Min(ends) \in ends /\ Min(ends) <= n
      BY <1>2, <2>2, Least
    <3>2. Min(ends) \in 1 .. 5 /\ n <= Min(ends)
      BY <1>2, <2>3, <3>1
    <3>3. QED  BY <3>1, <3>2
  <2>5. ends # {}
    BY <2>2
  <2>6. QED  BY ONLY <1>3, <2>1, <2>4, <2>5
<1>7. QED  BY <1>4, <1>5, <1>6

LEMMA ModuloIs ==
  ASSUME NEW v \in Int
  PROVE  v % Modulus \in 0 .. Modulus - 1
<1>1. PICK m \in Nat \ {0} : m = Modulus
  BY Weights
<1>2. v % m \in 0 .. m - 1
  OBVIOUS
<1>3. QED  BY <1>1, <1>2

(* writeVarInt writes the integer, as an unsigned one.                     *)
LEMMA WriteVarIntIs ==
  ASSUME NEW v \in Int
  PROVE  /\ writeVarInt(v) \in Seq(Byte) /\ Len(writeVarInt(v)) \in 1 .. 5
         /\ v % Modulus \in Nat /\ IsVarInt(writeVarInt(v), v % Modulus)
<1>1. Base \in Nat \ {0, 1} /\ High \in 2 .. Base /\ Weight[1] = 1
      /\ \A i \in 1 .. 5 : Weight[i] \in Nat \ {0}
  BY Weights
<1>2. PICK uv \in 0 .. Modulus - 1 : uv = v % Modulus
  BY ModuloIs
<1>3. Modulus \in Nat /\ uv \in Nat
  BY Weights
<1> DEFINE ends == {i \in 1 .. MaxBytes : uv < Base * Weight[i]}
           last == Min(ends)
           D(i) == (uv \div Weight[i]) % Base
           w == [i \in 1 .. last |-> D(i) + (IF i < last THEN Base ELSE 0)]
<1>4. writeVarInt(v) = w
  BY <1>2 DEF writeVarInt
<1>5. uv < Base * Weight[5]
  <2>1. PICK e \in Nat : Base = High + e
    <3>1. Base - High \in Nat
      BY <1>1
    <3>2. QED  BY <1>1, <3>1
  <2>2. PICK w5 \in Nat : w5 = Weight[5]
    BY <1>1
  <2>3. Base * w5 = High * w5 + e * w5 /\ e * w5 \in Nat /\ High * w5 \in Nat
    BY <1>1, <2>1
  <2>4. High * w5 = Modulus
    BY <2>2, Weights
  <2>5. QED  BY <1>3, <2>2, <2>3, <2>4
<1>6. last \in 1 .. 5 /\ uv < Base * Weight[last]
  <2>1. ends \subseteq 1 .. 5 /\ 5 \in ends
    BY <1>5 DEF MaxBytes
  <2>2. last \in ends
    <3> HIDE DEF ends
    <3>1. QED  BY <2>1, Least
  <2> HIDE DEF last
  <2>3. QED  BY <2>1, <2>2
<1> HIDE DEF ends, last
<1>7. \A i \in 1 .. 5 : D(i) \in 0 .. Base - 1
  <2>1. TAKE i \in 1 .. 5
  <2>2. uv \div Weight[i] \in Nat
    BY <1>1, <1>3, DivModIs
  <2>3. QED  BY <1>1, <2>2, DivModIs
<1>8. \A i \in 1 .. 5 : D(i) * Weight[i] \in 0 .. Modulus - 1
  <2>1. PICK d1, d2, d3, d4, d5 \in 0 .. Base - 1 : uv = Five(d1, d2, d3, d4, d5)
    BY <1>3, <1>5, Expansion
  <2>2. HasGroups(Five(d1, d2, d3, d4, d5), d1, d2, d3, d4, d5)
    BY GroupsOf
  <2>3. HasGroups(uv, d1, d2, d3, d4, d5)
    BY ONLY <2>1, <2>2
  <2>4. D(1) = d1 /\ D(2) = d2 /\ D(3) = d3 /\ D(4) = d4 /\ D(5) = d5
    BY ONLY <2>3 DEF HasGroups
  <2> HIDE DEF D
  <2>5. \A d \in 0 .. Base - 1, i \in 1 .. 5 : d * Weight[i] \in Nat
    BY <1>1
  <2>6. uv = d1 * Weight[1] + d2 * Weight[2] + d3 * Weight[3] + d4 * Weight[4] + d5 * Weight[5]
    <3>1. d1 * Weight[1] = d1
      BY <1>1
    <3>2. QED  BY <2>1, <3>1 DEF Five
  <2>7. /\ d1 * Weight[1] \in Nat /\ d2 * Weight[2] \in Nat /\ d3 * Weight[3] \in Nat
        /\ d4 * Weight[4] \in Nat /\ d5 * Weight[5] \in Nat
    BY <2>5
  <2>8. /\ d1 * Weight[1] <= uv /\ d2 * Weight[2] <= uv /\ d3 * Weight[3] <= uv
        /\ d4 * Weight[4] <= uv /\ d5 * Weight[5] <= uv
    BY <2>6, <2>7
  <2>9. \A i \in 1 .. 5 : i = 1 \/ i = 2 \/ i = 3 \/ i = 4 \/ i = 5
    OBVIOUS
  <2>10. \A i \in 1 .. 5 : D(i) * Weight[i] \in Nat /\ D(i) * Weight[i] <= uv
    BY <2>4, <2>7, <2>8, <2>9
  <2>11. QED  BY <1>3, <2>10
<1>9. ASSUME NEW i \in 1 .. last
      PROVE  /\ w[i] \in Byte
             /\ Continues(w[i]) <=> i # last
             /\ (w[i] % Base) * Weight[i] = D(i) * Weight[i]
             /\ D(i) * Weight[i] \in 0 .. Modulus - 1
  <2>1. i \in 1 .. 5
    BY <1>6
  <2>2. PICK d \in 0 .. Base - 1 : d = D(i)
    BY <1>7, <2>1
  <2>3. D(i) * Weight[i] \in 0 .. Modulus - 1
    BY <1>8, <2>1
  <2>4. w[i] = D(i) + (IF i < last THEN Base ELSE 0)
    OBVIOUS
  <2> HIDE DEF D, w
  <2>5. CASE i < last
    <3>1. w[i] = Base * 1 + d
      BY <1>1, <2>2, <2>4, <2>5
    <3>2. w[i] % Base = d
      BY <1>1, <3>1, DivMod
    <3>3. QED  BY <1>1, <2>2, <2>3, <2>5, <3>1, <3>2 DEF Byte, Continues
  <2>6. CASE ~(i < last)
    <3>1. w[i] = d /\ i = last
      BY <1>1, <1>6, <2>2, <2>4, <2>6
    <3>2. w[i] % Base = d
      BY <1>1, <3>1
    <3>3. QED  BY <1>1, <2>2, <2>3, <3>1, <3>2 DEF Byte, Continues
  <2>7. QED  BY <2>5, <2>6
<1>10. w \in Seq(Byte) /\ Len(w) = last
  <2>1. \A i \in 1 .. last : w[i] \in Byte
    BY <1>9
  <2>2. last \in Nat
    BY <1>6
  <2>3. w \in [1 .. last -> Byte]
    BY <2>1
  <2>4. w \in Seq(Byte)
    BY <2>2, <2>3
  <2>5. QED  BY <2>2, <2>4
<1>11. IsVarInt(w, uv)
  <2>1. \A i \in 1 .. Len(w) : ((w[i] % Base) * Weight[i]) % Modulus = D(i) * Weight[i]
    <3>1. TAKE i \in 1 .. Len(w)
    <3>2. (w[i] % Base) * Weight[i] = D(i) * Weight[i] /\ D(i) * Weight[i] \in 0 .. Modulus - 1
      BY <1>9, <1>10
    <3>3. \A x \in 0 .. Modulus - 1 : x % Modulus = x
      BY <1>3
    <3> HIDE DEF D, w
    <3>4. QED  BY <3>2, <3>3
  <2>2. \A i \in 1 .. Len(w) : Continues(w[i]) <=> i # Len(w)
    BY <1>9, <1>10
  <2>3. uv < Base * Weight[Len(w)]
    BY <1>6, <1>10
  <2>4. \A i \in 1 .. Len(w) :
          ((w[i] % Base) * Weight[i]) % Modulus = ((uv \div Weight[i]) % Base) * Weight[i]
    BY <2>1
  <2> HIDE DEF w, D
  <2>5. QED  BY ONLY <2>2, <2>3, <2>4 DEF IsVarInt
<1> HIDE DEF w
<1>12. QED  BY <1>2, <1>3, <1>4, <1>6, <1>10, <1>11

-----------------------------------------------------------------------------
(* Packets                                                                 *)

(* m bytes and the v after them: what is in them, and what follows.        *)
AreParts(s, m, v) ==
  /\ SubSeq(s, 1, m + v) \in Seq(Byte) /\ Len(SubSeq(s, 1, m + v)) = m + v
  /\ SubSeq(SubSeq(s, 1, m + v), 1, m) = SubSeq(s, 1, m)
  /\ Drop(s, m) \in Seq(Byte) /\ Len(Drop(s, m)) = Len(s) - m
  /\ Drop(SubSeq(s, 1, m + v), m) = SubSeq(Drop(s, m), 1, v)
  /\ SubSeq(Drop(s, m), 1, v) \in Seq(Byte) /\ Len(SubSeq(Drop(s, m), 1, v)) = v
  /\ Drop(Drop(s, m), v) = Drop(s, m + v)
  /\ \A n \in 0 .. v : Drop(SubSeq(Drop(s, m), 1, v), n) = Drop(SubSeq(s, 1, m + v), m + n)

LEMMA TwoParts ==
  ASSUME NEW s \in Seq(Byte), NEW m \in Nat, NEW v \in Nat, m + v <= Len(s)
  PROVE  AreParts(s, m, v)
<1>1. /\ Len(s) \in Nat /\ m \in 0 .. Len(s) /\ m + v \in 0 .. Len(s) /\ m \in 0 .. m + v
      /\ v \in 0 .. Len(s) - m /\ m + v - m = v
  BY LenProperties
<1>2. SubSeq(s, 1, m + v) \in Seq(Byte) /\ Len(SubSeq(s, 1, m + v)) = m + v
  BY <1>1, PrefixIs
<1>3. SubSeq(SubSeq(s, 1, m + v), 1, m) = SubSeq(s, 1, m)
  BY <1>1, PrefixOfPrefix
<1>4. Drop(s, m) \in Seq(Byte) /\ Len(Drop(s, m)) = Len(s) - m
  BY <1>1, DropIs
<1>5. Drop(SubSeq(s, 1, m + v), m) = SubSeq(Drop(s, m), 1, v)
  <2>1. Drop(SubSeq(s, 1, m + v), m) = SubSeq(Drop(s, m), 1, m + v - m)
    BY <1>1, DropOfPrefix
  <2>2. QED  BY <1>1, <2>1
<1>6. SubSeq(Drop(s, m), 1, v) \in Seq(Byte) /\ Len(SubSeq(Drop(s, m), 1, v)) = v
  <2>1. v \in 0 .. Len(Drop(s, m))
    BY <1>1, <1>4
  <2>2. QED  BY <1>4, <2>1, PrefixIs
<1>7. Drop(Drop(s, m), v) = Drop(s, m + v)
  BY <1>1, DropDrop
<1>8. ASSUME NEW n \in 0 .. v
      PROVE  Drop(SubSeq(Drop(s, m), 1, v), n) = Drop(SubSeq(s, 1, m + v), m + n)
  <2>1. m \in 0 .. Len(SubSeq(s, 1, m + v)) /\ n \in 0 .. Len(SubSeq(s, 1, m + v)) - m
    BY <1>1, <1>2
  <2>2. Drop(Drop(SubSeq(s, 1, m + v), m), n) = Drop(SubSeq(s, 1, m + v), m + n)
    BY <1>2, <2>1, DropDrop
  <2>3. QED  BY <1>5, <2>2
<1>9. QED  BY <1>2, <1>3, <1>4, <1>5, <1>6, <1>7, <1>8 DEF AreParts

LEMMA SplitsAre ==
  ASSUME NEW s
  PROVE  /\ \A x \in Splits(s) : \E n \in 0 .. Len(s) : x[1] = SubSeq(s, 1, n) /\ x[2] = Drop(s, n)
         /\ \A n \in 0 .. Len(s) : \E x \in Splits(s) : x[1] = SubSeq(s, 1, n) /\ x[2] = Drop(s, n)
         /\ \A x \in VarIntSplits(s) : \E n \in 1 .. 5 :
              n <= Len(s) /\ x[1] = SubSeq(s, 1, n) /\ x[2] = Drop(s, n)
         /\ \A n \in 1 .. 5 : n <= Len(s) =>
              \E x \in VarIntSplits(s) : x[1] = SubSeq(s, 1, n) /\ x[2] = Drop(s, n)
<1>1. ASSUME NEW x \in Splits(s)
      PROVE  \E n \in 0 .. Len(s) : x[1] = SubSeq(s, 1, n) /\ x[2] = Drop(s, n)
  BY DEF Splits
<1>2. ASSUME NEW n \in 0 .. Len(s)
      PROVE  \E x \in Splits(s) : x[1] = SubSeq(s, 1, n) /\ x[2] = Drop(s, n)
  <2>1. <<SubSeq(s, 1, n), Drop(s, n)>> \in Splits(s)
    BY DEF Splits
  <2>2. QED  BY <2>1
<1>3. ASSUME NEW x \in VarIntSplits(s)
      PROVE  \E n \in 1 .. 5 : n <= Len(s) /\ x[1] = SubSeq(s, 1, n) /\ x[2] = Drop(s, n)
  BY DEF VarIntSplits, MaxBytes
<1>4. ASSUME NEW n \in 1 .. 5, n <= Len(s)
      PROVE  \E x \in VarIntSplits(s) : x[1] = SubSeq(s, 1, n) /\ x[2] = Drop(s, n)
  <2>1. <<SubSeq(s, 1, n), Drop(s, n)>> \in VarIntSplits(s)
    BY <1>4 DEF VarIntSplits, MaxBytes
  <2>2. QED  BY <2>1
<1>5. QED  BY <1>1, <1>2, <1>3, <1>4

LEMMA ConcatSplits ==
  ASSUME NEW s \in Seq(Byte), NEW t \in Seq(Byte)
  PROVE  s \o t \in Seq(Byte) /\ \E x \in Splits(s \o t) : x[1] = s /\ x[2] = t
<1>1. PICK u \in Seq(Byte), n \in Nat :
        /\ u = s \o t /\ n = Len(s) /\ Len(u) = n + Len(t) /\ Len(t) \in Nat
        /\ SubSeq(u, 1, n) = s /\ Drop(u, n) = t
  <2>1. /\ s \o t \in Seq(Byte) /\ Len(s \o t) = Len(s) + Len(t)
        /\ SubSeq(s \o t, 1, Len(s)) = s /\ Drop(s \o t, Len(s)) = t
    BY PartsOfConcat
  <2>2. Len(s) \in Nat /\ Len(t) \in Nat
    BY Bytes
  <2>3. QED  BY <2>1, <2>2
<1>2. n \in 0 .. Len(u)
  BY <1>1
<1>3. PICK x \in Splits(u) : x[1] = SubSeq(u, 1, n) /\ x[2] = Drop(u, n)
  BY <1>2, SplitsAre
<1>4. QED  BY <1>1, <1>3

(* A packet is a length, an ID and a payload.                              *)
LEMMA PacketParts ==
  ASSUME NEW s \in Seq(Byte), NEW id, NEW p
  PROVE  IsPacket(s, id, p)
           <=> \E m \in 1 .. 5, n \in 1 .. 5 :
                 /\ m <= Len(s) /\ m + n <= Len(s)
                 /\ IsVarInt(SubSeq(s, 1, m), Len(s) - m)
                 /\ IsVarInt(SubSeq(Drop(s, m), 1, n), id)
                 /\ p = Drop(s, m + n)
<1>1. Len(s) \in Nat
  BY Bytes
<1>2. ASSUME NEW m \in 1 .. 5, m <= Len(s)
      PROVE  Len(Drop(s, m)) = Len(s) - m
             /\ \A n \in 1 .. 5 : (n <= Len(Drop(s, m)) <=> m + n <= Len(s))
                  /\ (m + n <= Len(s) => Drop(Drop(s, m), n) = Drop(s, m + n))
  <2>1. m \in 0 .. Len(s)
    BY <1>1, <1>2
  <2>2. Len(Drop(s, m)) = Len(s) - m
    BY <2>1, DropIs
  <2>3. ASSUME NEW n \in 1 .. 5, m + n <= Len(s)
        PROVE  Drop(Drop(s, m), n) = Drop(s, m + n)
    <3>1. n \in 0 .. Len(s) - m
      BY <1>1, <2>3
    <3>2. QED  BY <2>1, <3>1, DropDrop
  <2>4. \A n \in 1 .. 5 : n <= Len(Drop(s, m)) <=> m + n <= Len(s)
    BY <1>1, <2>2
  <2>5. QED  BY <2>2, <2>3, <2>4
<1>3. QED
  <2>1. ASSUME IsPacket(s, id, p)
        PROVE  \E m \in 1 .. 5, n \in 1 .. 5 :
                 /\ m <= Len(s) /\ m + n <= Len(s)
                 /\ IsVarInt(SubSeq(s, 1, m), Len(s) - m)
                 /\ IsVarInt(SubSeq(Drop(s, m), 1, n), id)
                 /\ p = Drop(s, m + n)
    <3>1. PICK x \in VarIntSplits(s) :
            /\ IsVarInt(x[1], Len(x[2]))
            /\ \E y \in VarIntSplits(x[2]) : IsVarInt(y[1], id) /\ y[2] = p
      BY <2>1 DEF IsPacket
    <3>2. PICK y \in VarIntSplits(x[2]) : IsVarInt(y[1], id) /\ y[2] = p
      BY <3>1
    <3>3. PICK m \in 1 .. 5 : m <= Len(s) /\ x[1] = SubSeq(s, 1, m) /\ x[2] = Drop(s, m)
      BY SplitsAre
    <3>4. PICK n \in 1 .. 5 :
            n <= Len(x[2]) /\ y[1] = SubSeq(x[2], 1, n) /\ y[2] = Drop(x[2], n)
      BY SplitsAre
    <3>5. /\ m + n <= Len(s) /\ p = Drop(s, m + n)
          /\ IsVarInt(SubSeq(s, 1, m), Len(s) - m)
          /\ IsVarInt(SubSeq(Drop(s, m), 1, n), id)
      BY <1>2, <3>1, <3>2, <3>3, <3>4
    <3>6. QED  BY <3>3, <3>5
  <2>2. ASSUME NEW m \in 1 .. 5, NEW n \in 1 .. 5, m <= Len(s), m + n <= Len(s),
               IsVarInt(SubSeq(s, 1, m), Len(s) - m),
               IsVarInt(SubSeq(Drop(s, m), 1, n), id),
               p = Drop(s, m + n)
        PROVE  IsPacket(s, id, p)
    <3>1. Len(Drop(s, m)) = Len(s) - m /\ n <= Len(Drop(s, m)) /\ Drop(Drop(s, m), n) = p
      BY <1>2, <2>2
    <3>2. PICK x \in VarIntSplits(s) : x[1] = SubSeq(s, 1, m) /\ x[2] = Drop(s, m)
      BY <2>2, SplitsAre
    <3>3. PICK y \in VarIntSplits(x[2]) : y[1] = SubSeq(x[2], 1, n) /\ y[2] = Drop(x[2], n)
      BY <3>1, <3>2, SplitsAre
    <3>4. IsVarInt(x[1], Len(x[2])) /\ IsVarInt(y[1], id) /\ y[2] = p
      BY <2>2, <3>1, <3>2, <3>3
    <3>5. QED  BY <3>4 DEF IsPacket
  <2>3. QED  BY <2>1, <2>2

(* readPacket finds the only packet at the head of s, if there is one.     *)
LEMMA ReadPacketIs ==
  ASSUME NEW s \in Seq(Byte)
  PROVE  /\ readPacket(s).is = "ok" =>
              \E k \in 0 .. Len(s), id \in Nat, p \in Seq(Byte) :
                /\ IsPacket(SubSeq(s, 1, k), id, p)
                /\ readPacket(s) = Read([id |-> id, payload |-> p], Drop(s, k))
         /\ \A k \in 0 .. Len(s), id \in Nat : \A p :
              IsPacket(SubSeq(s, 1, k), id, p)
                => /\ readPacket(s) = Read([id |-> id, payload |-> p], Drop(s, k))
                   /\ p \in Seq(Byte)
<1>1. Len(s) \in Nat
  BY Bytes
<1>2. ASSUME readPacket(s).is = "ok"
      PROVE  \E k \in 0 .. Len(s), id \in Nat, p \in Seq(Byte) :
                /\ IsPacket(SubSeq(s, 1, k), id, p)
                /\ readPacket(s) = Read([id |-> id, payload |-> p], Drop(s, k))
  <2>1. readVarInt(s).is = "ok"
    BY <1>2 DEF readPacket
  <2>2. PICK m \in 1 .. 5, v \in Nat :
          m <= Len(s) /\ IsVarInt(SubSeq(s, 1, m), v) /\ readVarInt(s) = Read(v, Drop(s, m))
    BY <2>1, ReadVarIntIs
  <2>3. readFull(Drop(s, m), v).is = "ok"
    BY <1>2, <2>2 DEF readPacket, Read
  <2>4. m + v <= Len(s)
    <3>1. m \in 0 .. Len(s)
      BY <1>1, <2>2
    <3>2. Len(Drop(s, m)) = Len(s) - m
      BY <3>1, DropIs
    <3>3. ~(Len(Drop(s, m)) < v)
      BY <2>3 DEF readFull, Short
    <3>4. QED  BY <1>1, <3>2, <3>3
  <2> DEFINE t == SubSeq(s, 1, m + v)
             d == SubSeq(Drop(s, m), 1, v)
  <2>5. /\ t \in Seq(Byte) /\ Len(t) = m + v
        /\ SubSeq(t, 1, m) = SubSeq(s, 1, m)
        /\ Drop(s, m) \in Seq(Byte) /\ Len(Drop(s, m)) = Len(s) - m
        /\ Drop(t, m) = d /\ d \in Seq(Byte) /\ Len(d) = v
        /\ Drop(Drop(s, m), v) = Drop(s, m + v)
        /\ \A n \in 0 .. v : Drop(d, n) = Drop(t, m + n)
    <3>1. AreParts(s, m, v)
      BY <2>4, TwoParts
    <3>2. QED  BY ONLY <3>1 DEF AreParts, t, d
  <2>6. readFull(Drop(s, m), v) = Read(d, Drop(s, m + v))
    BY <1>1, <2>4, <2>5 DEF readFull
  <2> HIDE DEF t, d
  <2>7. InMemory(readVarInt(d)).is = "ok"
    BY <1>2, <2>2, <2>6 DEF readPacket, Read
  <2>8. readVarInt(d).is = "ok" /\ InMemory(readVarInt(d)) = readVarInt(d)
    BY <2>7 DEF InMemory, Bad
  <2>9. PICK n \in 1 .. 5, id \in Nat :
          n <= Len(d) /\ IsVarInt(SubSeq(d, 1, n), id) /\ readVarInt(d) = Read(id, Drop(d, n))
    BY <2>5, <2>8, ReadVarIntIs
  <2>10. n \in 0 .. v /\ n \in 0 .. Len(d)
    BY <2>5, <2>9
  <2>11. Drop(d, n) = Drop(t, m + n) /\ Drop(d, n) \in Seq(Byte)
    BY <2>5, <2>10, DropIs
  <2>12. readPacket(s) = Read([id |-> id, payload |-> Drop(d, n)], Drop(s, m + v))
    BY <2>2, <2>6, <2>8, <2>9 DEF readPacket, Read
  <2>13. IsPacket(t, id, Drop(d, n))
    <3>1. m <= Len(t) /\ m + n <= Len(t) /\ Len(t) - m = v
      BY <2>5, <2>10
    <3>2. IsVarInt(SubSeq(t, 1, m), Len(t) - m) /\ IsVarInt(SubSeq(Drop(t, m), 1, n), id)
      BY <2>2, <2>5, <2>9, <3>1
    <3>3. QED  BY <2>5, <2>11, <3>1, <3>2, PacketParts
  <2>14. m + v \in 0 .. Len(s)
    BY <1>1, <2>4
  <2>15. QED  BY <2>11, <2>12, <2>13, <2>14 DEF t
<1>3. ASSUME NEW k \in 0 .. Len(s), NEW id \in Nat, NEW p, IsPacket(SubSeq(s, 1, k), id, p)
      PROVE  /\ readPacket(s) = Read([id |-> id, payload |-> p], Drop(s, k))
             /\ p \in Seq(Byte)
  <2> DEFINE t == SubSeq(s, 1, k)
  <2>1. t \in Seq(Byte) /\ Len(t) = k
    BY PrefixIs
  <2>2. PICK m \in 1 .. 5, n \in 1 .. 5 :
          /\ m <= Len(t) /\ m + n <= Len(t)
          /\ IsVarInt(SubSeq(t, 1, m), Len(t) - m)
          /\ IsVarInt(SubSeq(Drop(t, m), 1, n), id)
          /\ p = Drop(t, m + n)
    <3>1. IsPacket(t, id, p)
      BY <1>3
    <3> HIDE DEF t
    <3>2. QED  BY <2>1, <3>1, PacketParts
  <2>3. PICK v \in Nat : v = k - m /\ m + v = k /\ Len(t) - m = v /\ m + v <= Len(s) /\ n \in 0 .. v
    <3>1. k - m \in Nat /\ m + (k - m) = k /\ n \in 0 .. k - m
      BY <1>1, <2>1, <2>2
    <3>2. QED  BY <1>1, <2>1, <3>1
  <2> DEFINE d == SubSeq(Drop(s, m), 1, v)
  <2>4. /\ SubSeq(t, 1, m) = SubSeq(s, 1, m)
        /\ Drop(s, m) \in Seq(Byte) /\ Len(Drop(s, m)) = Len(s) - m
        /\ Drop(t, m) = d /\ d \in Seq(Byte) /\ Len(d) = v
        /\ Drop(Drop(s, m), v) = Drop(s, k)
        /\ Drop(d, n) = Drop(t, m + n)
    <3>1. m \in Nat
      OBVIOUS
    <3>2. AreParts(s, m, v)
      BY <2>3, <3>1, TwoParts
    <3>3. QED  BY ONLY <2>3, <3>2 DEF AreParts, t, d
  <2> HIDE DEF t, d
  <2>5. readVarInt(s) = Read(v, Drop(s, m))
    <3>1. m <= Len(s)
      BY <1>1, <2>3
    <3>2. IsVarInt(SubSeq(s, 1, m), v)
      BY <2>2, <2>3, <2>4
    <3>3. QED  BY <3>1, <3>2, ReadVarIntIs
  <2>6. readFull(Drop(s, m), v) = Read(d, Drop(s, k))
    <3>1. ~(Len(Drop(s, m)) < v)
      BY <1>1, <2>3, <2>4
    <3>2. QED  BY <2>4, <3>1 DEF readFull, d
  <2>7. readVarInt(d) = Read(id, p)
    <3>1. n <= Len(d) /\ IsVarInt(SubSeq(d, 1, n), id)
      BY <2>2, <2>3, <2>4
    <3>2. readVarInt(d) = Read(id, Drop(d, n))
      BY <2>4, <3>1, ReadVarIntIs
    <3>3. QED  BY <2>2, <2>4, <3>2
  <2>8. p \in Seq(Byte)
    <3>1. n \in 0 .. Len(d)
      BY <2>3, <2>4
    <3>2. QED  BY <2>2, <2>4, <3>1, DropIs
  <2>9. readPacket(s) = Read([id |-> id, payload |-> p], Drop(s, k))
    BY <2>5, <2>6, <2>7 DEF readPacket, Read, InMemory
  <2>10. QED  BY <2>8, <2>9
<1>4. QED  BY <1>2, <1>3

LEMMA SmallNumbers == 0 % Modulus = 0 /\ 1 % Modulus = 1 /\ 2 <= Modulus
<1>1. High \in Nat /\ High >= 2 /\ Weight[5] \in Nat \ {0} /\ Modulus = High * Weight[5]
  BY Weights
<1>2. ASSUME NEW h \in Nat, NEW w \in Nat \ {0}, h >= 2
      PROVE  2 <= h * w
  <2>1. PICK e \in Nat : h = 2 + e
    <3>1. h - 2 \in Nat
      BY <1>2
    <3>2. QED  BY <3>1
  <2>2. h * w = 2 * w + e * w /\ e * w \in Nat
    BY <2>1
  <2>3. QED  BY <2>2
<1>3. PICK m \in Nat : m = Modulus /\ 2 <= m
  <2>1. 2 <= High * Weight[5]
    BY <1>1, <1>2
  <2>2. Modulus \in Nat
    BY Weights
  <2>3. QED  BY <1>1, <2>1, <2>2
<1>4. 0 % m = 0 /\ 1 % m = 1
  BY <1>3
<1>5. QED  BY <1>3, <1>4

LEMMA WriteOne == writeVarInt(1) = <<1>>
<1> DEFINE ends == {i \in 1 .. MaxBytes : 1 < Base * Weight[i]}
<1>1. Base \in Nat \ {0, 1} /\ Weight[1] = 1
  BY Weights
<1>2. ends \subseteq 1 .. 5 /\ 1 \in ends
  BY <1>1 DEF MaxBytes
<1>3. Min(ends) = 1
  <2> HIDE DEF ends
  <2>1. Min(ends) \in 1 .. 5 /\ Min(ends) <= 1
    BY <1>2, Least
  <2>2. QED  BY <2>1
<1>4. writeVarInt(1)
        = [i \in 1 .. Min(ends) |->
             ((1 \div Weight[i]) % Base) + (IF i < Min(ends) THEN Base ELSE 0)]
  BY SmallNumbers DEF writeVarInt
<1> HIDE DEF ends
<1>5. ((1 \div Weight[1]) % Base) + 0 = 1
  BY <1>1
<1>6. \A i \in 1 .. 1 : ((1 \div Weight[i]) % Base) + (IF i < 1 THEN Base ELSE 0) = 1
  BY <1>5
<1>7. writeVarInt(1) = [i \in 1 .. 1 |-> 1]
  BY <1>3, <1>4, <1>6
<1>8. [i \in 1 .. 1 |-> 1] = <<1>>
  OBVIOUS
<1>9. QED  BY <1>7, <1>8

(* writePacket writes a packet, if its length can be written.              *)
LEMMA WritePacketIs ==
  ASSUME NEW id \in {0, 1}, NEW p \in Seq(Byte), Len(p) + MaxBytes < Modulus
  PROVE  /\ writePacket(id, p) \in Seq(Byte) /\ writePacket(id, p) # <<>>
         /\ IsPacket(writePacket(id, p), id, p)
<1> DEFINE pid == writeVarInt(id)
           body == pid \o p
           length == writeVarInt(Len(body))
           s == length \o body
<1>1. Len(p) \in Nat /\ Modulus \in Nat
  BY Bytes, Weights
<1>2. id \in Int /\ id % Modulus = id
  BY SmallNumbers
<1>3. pid \in Seq(Byte) /\ Len(pid) \in 1 .. 5 /\ IsVarInt(pid, id)
  BY <1>2, WriteVarIntIs
<1> HIDE DEF pid
<1>4. /\ body \in Seq(Byte) /\ Len(body) = Len(pid) + Len(p)
      /\ SubSeq(body, 1, Len(pid)) = pid /\ Drop(body, Len(pid)) = p
  BY <1>3, PartsOfConcat
<1> HIDE DEF body
<1>5. PICK l \in Nat : l = Len(body) /\ l < Modulus
  <2>1. Len(p) + 5 < Modulus
    BY DEF MaxBytes
  <2>2. Len(body) \in Nat /\ Len(body) < Modulus
    <3>1. PICK a \in 1 .. 5, b \in Nat : a = Len(pid) /\ b = Len(p)
      BY <1>1, <1>3
    <3>2. Len(body) = a + b
      BY <1>4, <3>1
    <3>3. b + 5 < Modulus
      BY <2>1, <3>1
    <3>4. a + b \in Nat /\ a + b < Modulus
      BY ONLY <1>1, <3>3, a \in 1 .. 5, b \in Nat
    <3>5. QED  BY <3>2, <3>4
  <2>3. QED  BY <2>2
<1>6. l \in Int /\ l % Modulus = l
  BY <1>1, <1>5
<1>7. length \in Seq(Byte) /\ Len(length) \in 1 .. 5 /\ IsVarInt(length, l)
  BY <1>5, <1>6, WriteVarIntIs
<1> HIDE DEF length
<1>8. /\ s \in Seq(Byte) /\ Len(s) = Len(length) + l
      /\ SubSeq(s, 1, Len(length)) = length /\ Drop(s, Len(length)) = body
  <2>1. /\ length \o body \in Seq(Byte) /\ Len(length \o body) = Len(length) + Len(body)
        /\ SubSeq(length \o body, 1, Len(length)) = length
        /\ Drop(length \o body, Len(length)) = body
    BY <1>4, <1>7, PartsOfConcat
  <2>2. QED  BY <1>5, <2>1
<1>9. s = writePacket(id, p)
  BY DEF writePacket, s, body, length, pid
<1> HIDE DEF s
<1>10. Drop(s, Len(length) + Len(pid)) = p
  <2>1. Len(length) \in 0 .. Len(s) /\ Len(pid) \in 0 .. Len(s) - Len(length)
    BY <1>1, <1>3, <1>4, <1>5, <1>7, <1>8
  <2>2. QED  BY <1>4, <1>8, <2>1, DropDrop
<1>11. Len(length) <= Len(s) /\ Len(length) + Len(pid) <= Len(s) /\ Len(s) - Len(length) = l
  BY <1>1, <1>3, <1>4, <1>5, <1>7, <1>8
<1>12. IsPacket(s, id, p)
  <2>1. IsVarInt(SubSeq(s, 1, Len(length)), Len(s) - Len(length))
    BY <1>7, <1>8, <1>11
  <2>2. IsVarInt(SubSeq(Drop(s, Len(length)), 1, Len(pid)), id)
    BY <1>3, <1>4, <1>8
  <2>3. QED  BY <1>3, <1>7, <1>8, <1>10, <1>11, <2>1, <2>2, PacketParts
<1>13. s # <<>>
  <2>1. Len(s) # 0
    BY <1>5, <1>7, <1>8
  <2>2. QED  BY <2>1, Len(<<>>) = 0
<1>14. QED  BY <1>8, <1>9, <1>12, <1>13

-----------------------------------------------------------------------------
(* Answers                                                                 *)

LEMMA PayloadIsSuffix ==
  ASSUME NEW s \in Seq(Byte), NEW id, NEW p, IsPacket(s, id, p)
  PROVE  \E x \in Splits(s) : x[2] = p
<1>1. PICK m \in 1 .. 5, n \in 1 .. 5 : m + n <= Len(s) /\ p = Drop(s, m + n)
  BY PacketParts
<1>2. m + n \in 0 .. Len(s)
  BY <1>1, Bytes
<1>3. QED  BY <1>1, <1>2, SplitsAre

(* readStatus accepts the payloads that hold a document.                   *)
LEMMA DocumentIsRead ==
  ASSUME NEW p \in Seq(Byte), NEW id
  PROVE  IsStatus([id |-> id, payload |-> p]) <=> id = 0 /\ IsDocument(p)
<1> DEFINE packet == [id |-> id, payload |-> p]
           jsonLen == InMemory(readVarInt(p))
           json == readFull(jsonLen.rest, jsonLen.value)
<1>1. IsStatus(packet)
        <=> id = 0 /\ jsonLen.is = "ok" /\ json.is = "ok" /\ json.value \in Documents
  BY DEF IsStatus
<1>2. Len(p) \in Nat
  BY Bytes
<1>3. ASSUME jsonLen.is = "ok", json.is = "ok", json.value \in Documents
      PROVE  IsDocument(p)
  <2>1. readVarInt(p).is = "ok" /\ jsonLen = readVarInt(p)
    BY <1>3 DEF InMemory, Bad
  <2>2. PICK n \in 1 .. 5, v \in Nat :
          n <= Len(p) /\ IsVarInt(SubSeq(p, 1, n), v) /\ readVarInt(p) = Read(v, Drop(p, n))
    BY <2>1, ReadVarIntIs
  <2>3. jsonLen.rest = Drop(p, n) /\ jsonLen.value = v
    BY <2>1, <2>2 DEF Read
  <2> HIDE DEF jsonLen
  <2>4. json = readFull(Drop(p, n), v)
    BY <2>3
  <2> HIDE DEF json
  <2>5. Drop(p, n) \in Seq(Byte) /\ Len(Drop(p, n)) \in Nat
    <3>1. n \in 0 .. Len(p)
      BY <1>2, <2>2
    <3>2. QED  BY <3>1, DropIs, Bytes
  <2>6. ~(Len(Drop(p, n)) < v) /\ json.value = SubSeq(Drop(p, n), 1, v)
    BY <1>3, <2>4 DEF readFull, Short, Read
  <2>7. v \in 0 .. Len(Drop(p, n))
    BY <2>5, <2>6
  <2>8. Len(SubSeq(Drop(p, n), 1, v)) = v
    BY <2>5, <2>7, PrefixIs
  <2>9. PICK x \in VarIntSplits(p) : x[1] = SubSeq(p, 1, n) /\ x[2] = Drop(p, n)
    BY <2>2, SplitsAre
  <2>10. PICK y \in Splits(x[2]) : y[1] = SubSeq(x[2], 1, v)
    BY <2>7, <2>9, SplitsAre
  <2>11. IsVarInt(x[1], Len(y[1])) /\ y[1] \in Documents
    BY <1>3, <2>2, <2>6, <2>8, <2>9, <2>10
  <2>12. QED  BY <2>11 DEF IsDocument
<1>4. ASSUME IsDocument(p)
      PROVE  jsonLen.is = "ok" /\ json.is = "ok" /\ json.value \in Documents
  <2>1. PICK x \in VarIntSplits(p) : \E y \in Splits(x[2]) :
          IsVarInt(x[1], Len(y[1])) /\ y[1] \in Documents
    BY <1>4 DEF IsDocument
  <2>2. PICK y \in Splits(x[2]) : IsVarInt(x[1], Len(y[1])) /\ y[1] \in Documents
    BY <2>1
  <2>3. PICK n \in 1 .. 5 : n <= Len(p) /\ x[1] = SubSeq(p, 1, n) /\ x[2] = Drop(p, n)
    BY SplitsAre
  <2>4. PICK v \in 0 .. Len(x[2]) : y[1] = SubSeq(x[2], 1, v)
    BY SplitsAre
  <2>5. x[2] \in Seq(Byte) /\ Len(x[2]) \in Nat
    <3>1. n \in 0 .. Len(p)
      BY <1>2, <2>3
    <3>2. QED  BY <2>3, <3>1, DropIs, Bytes
  <2>6. Len(y[1]) = v
    BY <2>4, <2>5, PrefixIs
  <2>7. v \in Nat /\ ~(Len(x[2]) < v)
    BY <2>4, <2>5
  <2>8. readVarInt(p) = Read(v, Drop(p, n))
    BY <2>2, <2>3, <2>6, <2>7, ReadVarIntIs
  <2>9. jsonLen.is = "ok" /\ jsonLen.rest = x[2] /\ jsonLen.value = v
    BY <2>3, <2>8 DEF InMemory, Read
  <2> HIDE DEF jsonLen
  <2>10. json = Read(SubSeq(x[2], 1, v), Drop(x[2], v))
    BY <2>7, <2>9 DEF readFull
  <2>11. QED  BY <2>2, <2>4, <2>9, <2>10 DEF Read
<1> HIDE DEF jsonLen, json
<1>5. QED  BY <1>1, <1>3, <1>4

(* What readStatus and the read of the pong accept, and how far they read. *)
LEMMA AnswersAreRead ==
  ASSUME NEW s \in Seq(Byte), NEW k \in 0 .. Len(s)
  PROVE  LET packet == readPacket(s) IN
         /\ IsStatusAnswer(SubSeq(s, 1, k))
              <=> packet.is = "ok" /\ IsStatus(packet.value) /\ packet.rest = Drop(s, k)
         /\ IsPong(SubSeq(s, 1, k))
              <=> packet.is = "ok" /\ packet.value.id = 1 /\ packet.rest = Drop(s, k)
<1> DEFINE packet == readPacket(s)
           t == SubSeq(s, 1, k)
<1>1. Len(s) \in Nat /\ t \in Seq(Byte)
  BY Bytes, PrefixIs
<1>2. ASSUME NEW id \in Nat, NEW p, IsPacket(t, id, p)
      PROVE  /\ p \in Seq(Byte) /\ packet.is = "ok" /\ packet.value = [id |-> id, payload |-> p]
             /\ packet.rest = Drop(s, k)
  <2>1. p \in Seq(Byte) /\ packet = Read([id |-> id, payload |-> p], Drop(s, k))
    BY <1>2, ReadPacketIs
  <2> HIDE DEF packet
  <2>2. QED  BY <2>1 DEF Read
<1>3. ASSUME packet.is = "ok", packet.rest = Drop(s, k)
      PROVE  \E id \in Nat, p \in Seq(Byte) :
               /\ packet.value = [id |-> id, payload |-> p]
               /\ \E x \in Splits(t) : x[2] = p /\ IsPacket(t, id, x[2])
  <2>1. PICK k2 \in 0 .. Len(s), id \in Nat, p \in Seq(Byte) :
          /\ IsPacket(SubSeq(s, 1, k2), id, p)
          /\ packet = Read([id |-> id, payload |-> p], Drop(s, k2))
    BY <1>3, ReadPacketIs
  <2> HIDE DEF packet
  <2>2. packet.value = [id |-> id, payload |-> p] /\ Drop(s, k2) = Drop(s, k)
    BY <1>3, <2>1 DEF Read
  <2>3. Len(Drop(s, k2)) = Len(s) - k2 /\ Len(Drop(s, k)) = Len(s) - k
    BY DropIs
  <2>4. k2 = k
    BY <1>1, <2>2, <2>3
  <2>5. IsPacket(t, id, p)
    BY <2>1, <2>4
  <2> HIDE DEF t
  <2>6. PICK x \in Splits(t) : x[2] = p
    BY <1>1, <2>5, PayloadIsSuffix
  <2>7. QED  BY <2>2, <2>5, <2>6
<1> HIDE DEF packet, t
<1>4. IsStatusAnswer(t) <=> packet.is = "ok" /\ IsStatus(packet.value) /\ packet.rest = Drop(s, k)
  <2>1. ASSUME IsStatusAnswer(t)
        PROVE  packet.is = "ok" /\ IsStatus(packet.value) /\ packet.rest = Drop(s, k)
    <3>1. PICK x \in Splits(t) : IsPacket(t, 0, x[2]) /\ IsDocument(x[2])
      BY <2>1 DEF IsStatusAnswer
    <3>2. /\ x[2] \in Seq(Byte) /\ packet.is = "ok" /\ packet.rest = Drop(s, k)
          /\ packet.value = [id |-> 0, payload |-> x[2]]
      BY <1>2, <3>1
    <3>3. QED  BY <3>1, <3>2, DocumentIsRead
  <2>2. ASSUME packet.is = "ok", IsStatus(packet.value), packet.rest = Drop(s, k)
        PROVE  IsStatusAnswer(t)
    <3>1. PICK id \in Nat, p \in Seq(Byte) :
            /\ packet.value = [id |-> id, payload |-> p]
            /\ \E x \in Splits(t) : x[2] = p /\ IsPacket(t, id, x[2])
      BY <1>3, <2>2
    <3>2. id = 0 /\ IsDocument(p)
      BY <2>2, <3>1, DocumentIsRead
    <3>3. QED  BY <3>1, <3>2 DEF IsStatusAnswer
  <2>3. QED  BY <2>1, <2>2
<1>5. IsPong(t) <=> packet.is = "ok" /\ packet.value.id = 1 /\ packet.rest = Drop(s, k)
  <2>1. ASSUME IsPong(t)
        PROVE  packet.is = "ok" /\ packet.value.id = 1 /\ packet.rest = Drop(s, k)
    <3>1. PICK x \in Splits(t) : IsPacket(t, 1, x[2])
      BY <2>1 DEF IsPong
    <3>2. /\ packet.is = "ok" /\ packet.rest = Drop(s, k)
          /\ packet.value = [id |-> 1, payload |-> x[2]]
      BY <1>2, <3>1
    <3>3. QED  BY <3>2
  <2>2. ASSUME packet.is = "ok", packet.value.id = 1, packet.rest = Drop(s, k)
        PROVE  IsPong(t)
    <3>1. PICK id \in Nat, p \in Seq(Byte) :
            /\ packet.value = [id |-> id, payload |-> p]
            /\ \E x \in Splits(t) : x[2] = p /\ IsPacket(t, id, x[2])
      BY <1>3, <2>2
    <3>2. id = 1
      BY <2>2, <3>1
    <3>3. QED  BY <3>1, <3>2 DEF IsPong
  <2>3. QED  BY <2>1, <2>2
<1>6. QED  BY <1>4, <1>5 DEF packet, t

(* The server answered if the two reads would accept what it sent.         *)
LEMMA AnsweredIs ==
  ASSUME NEW s \in Seq(Byte)
  PROVE  LET status == readPacket(s)
             pong == readPacket(status.rest)
         IN Answered(s) <=> /\ status.is = "ok" /\ IsStatus(status.value)
                            /\ kind = "ping" => pong.is = "ok" /\ pong.value.id = 1
<1> DEFINE status == readPacket(s)
           pong == readPacket(status.rest)
<1>1. ASSUME NEW k \in 0 .. Len(s), status.rest = Drop(s, k)
      PROVE  /\ Drop(s, k) \in Seq(Byte)
             /\ (\E y \in Splits(Drop(s, k)) : IsPong(y[1])) <=> pong.is = "ok" /\ pong.value.id = 1
  <2> DEFINE u == Drop(s, k)
  <2>1. u \in Seq(Byte)
    BY DropIs
  <2>2. pong = readPacket(u)
    BY <1>1
  <2> HIDE DEF status, pong, u
  <2>3. ASSUME NEW y \in Splits(u), IsPong(y[1])
        PROVE  pong.is = "ok" /\ pong.value.id = 1
    <3>1. PICK n \in 0 .. Len(u) : y[1] = SubSeq(u, 1, n)
      BY SplitsAre
    <3>2. QED  BY <2>1, <2>2, <2>3, <3>1, AnswersAreRead
  <2>4. ASSUME pong.is = "ok", pong.value.id = 1
        PROVE  \E y \in Splits(u) : IsPong(y[1])
    <3>1. PICK n \in 0 .. Len(u) : pong.rest = Drop(u, n)
      <4>1. PICK n \in 0 .. Len(u), id \in Nat, p \in Seq(Byte) :
              readPacket(u) = Read([id |-> id, payload |-> p], Drop(u, n))
        BY <2>1, <2>2, <2>4, ReadPacketIs
      <4>2. QED  BY <2>2, <4>1 DEF Read
    <3>2. IsPong(SubSeq(u, 1, n))
      BY <2>1, <2>2, <2>4, <3>1, AnswersAreRead
    <3>3. PICK y \in Splits(u) : y[1] = SubSeq(u, 1, n)
      BY SplitsAre
    <3>4. QED  BY <3>2, <3>3
  <2>5. QED  BY <2>1, <2>3, <2>4 DEF u
<1> HIDE DEF status, pong
<1>2. ASSUME Answered(s)
      PROVE  /\ status.is = "ok" /\ IsStatus(status.value)
             /\ kind = "ping" => pong.is = "ok" /\ pong.value.id = 1
  <2>1. PICK x \in Splits(s) : /\ IsStatusAnswer(x[1])
                               /\ kind = "ping" => \E y \in Splits(x[2]) : IsPong(y[1])
    BY <1>2 DEF Answered
  <2>2. PICK k \in 0 .. Len(s) : x[1] = SubSeq(s, 1, k) /\ x[2] = Drop(s, k)
    BY SplitsAre
  <2>3. status.is = "ok" /\ IsStatus(status.value) /\ status.rest = Drop(s, k)
    BY <2>1, <2>2, AnswersAreRead DEF status
  <2>4. kind = "ping" => pong.is = "ok" /\ pong.value.id = 1
    BY <1>1, <2>1, <2>2, <2>3
  <2>5. QED  BY <2>3, <2>4
<1>3. ASSUME status.is = "ok", IsStatus(status.value),
             kind = "ping" => pong.is = "ok" /\ pong.value.id = 1
      PROVE  Answered(s)
  <2>1. PICK k \in 0 .. Len(s) : status.rest = Drop(s, k)
    <3>1. PICK k \in 0 .. Len(s), id \in Nat, p \in Seq(Byte) :
            status = Read([id |-> id, payload |-> p], Drop(s, k))
      BY <1>3, ReadPacketIs DEF status
    <3>2. QED  BY <3>1 DEF Read
  <2>2. IsStatusAnswer(SubSeq(s, 1, k))
    BY <1>3, <2>1, AnswersAreRead DEF status
  <2>3. PICK x \in Splits(s) : x[1] = SubSeq(s, 1, k) /\ x[2] = Drop(s, k)
    BY SplitsAre
  <2>4. kind = "ping" => \E y \in Splits(x[2]) : IsPong(y[1])
    BY <1>1, <1>3, <2>1, <2>3
  <2>5. QED  BY <2>2, <2>3, <2>4 DEF Answered
<1>4. QED  BY <1>2, <1>3 DEF status, pong

-----------------------------------------------------------------------------
(* The call                                                                *)

Hello == writePacket(0, writeVarInt(protocol) \o HostPort \o writeVarInt(1))
Request == writePacket(0, <<>>)
PingPacket == writePacket(1, Timestamp)

ExchangeTypeOK ==
  /\ kind \in {"ping", "status"} /\ protocol \in Int /\ stream \in Seq(Byte)
  /\ arrived \in 0 .. Len(stream) /\ consumed \in 0 .. arrived
  /\ pc \in {"dial", "handshake", "request", "status", "ping", "pong", "done"}
  /\ pc # "done" => result = "none"

(* Nothing is read before the status, and what was read by the time of the *)
(* ping is one: the second read starts where it ended.                     *)
ReadSoFar ==
  /\ pc \in {"dial", "handshake", "request", "status"} => consumed = 0
  /\ pc \in {"ping", "pong"} => kind = "ping" /\ IsStatusAnswer(SubSeq(stream, 1, consumed))

SentSoFar ==
  /\ sent = <<>> \/ \E rest \in {<<>>, Request, Request \o PingPacket} : sent = Hello \o rest
  /\ pc \in {"dial", "handshake"} => sent = <<>>
  /\ pc = "request" => sent = Hello \o <<>>
  /\ pc \in {"status", "ping"} => sent = Hello \o Request

ExchangeInv == ExchangeTypeOK /\ ReadSoFar /\ SentSoFar /\ OutcomeIsRight

LEMMA PacketsSent ==
  ASSUME protocol \in Int
  PROVE  /\ Hello \in Seq(Byte) /\ Hello # <<>>
         /\ Request \in Seq(Byte) /\ Request # <<>> /\ IsPacket(Request, 0, <<>>)
         /\ PingPacket \in Seq(Byte) /\ PingPacket # <<>> /\ IsPacket(PingPacket, 1, Timestamp)
         /\ \E x \in Splits(Hello) :
              /\ IsPacket(Hello, 0, x[2])
              /\ \E y \in VarIntSplits(x[2]) : /\ IsVarInt(y[1], protocol % Modulus)
                                                /\ y[2] = HostPort \o <<1>>
<1> DEFINE version == writeVarInt(protocol)
           tail == HostPort \o <<1>>
           p == version \o tail
<1>1. /\ HostPort \in Seq(Byte) /\ Timestamp \in Seq(Byte)
      /\ Len(HostPort) + 3 * MaxBytes < Modulus /\ Len(Timestamp) + MaxBytes < Modulus
      /\ Len(HostPort) \in Nat /\ Len(Timestamp) \in Nat /\ Modulus \in Nat
  BY ExchangeAssumption, Bytes, Weights
<1>2. version \in Seq(Byte) /\ Len(version) \in 1 .. 5 /\ IsVarInt(version, protocol % Modulus)
  BY WriteVarIntIs
<1>3. <<1>> \in Seq(Byte) /\ Len(<<1>>) = 1
  <2>1. 1 \in Byte
    BY Weights DEF Byte
  <2>2. QED  BY <2>1
<1>4. tail \in Seq(Byte) /\ Len(tail) = Len(HostPort) + 1
  BY <1>1, <1>3, PartsOfConcat
<1>5. version \o HostPort \o writeVarInt(1) = p
  <2> HIDE DEF version
  <2>1. (version \o HostPort) \o <<1>> = version \o (HostPort \o <<1>>)
    BY <1>1, <1>2, <1>3, ConcatAssociative
  <2>2. QED  BY <2>1, WriteOne
<1> HIDE DEF version, tail
<1>6. /\ p \in Seq(Byte) /\ Len(p) = Len(version) + Len(tail)
      /\ SubSeq(p, 1, Len(version)) = version /\ Drop(p, Len(version)) = tail
  BY <1>2, <1>4, PartsOfConcat
<1>7. Hello = writePacket(0, p)
  BY <1>5 DEF Hello, version, tail
<1> HIDE DEF p
<1>8. Len(p) + MaxBytes < Modulus /\ Len(version) <= Len(p)
  <2>1. PICK a \in 1 .. 5, b \in Nat : a = Len(version) /\ b = Len(HostPort)
    BY <1>1, <1>2
  <2>2. Len(p) = a + (b + 1) /\ b + 15 < Modulus
    BY <1>1, <1>4, <1>6, <2>1 DEF MaxBytes
  <2>3. a + (b + 1) + 5 < Modulus /\ a <= a + (b + 1)
    BY ONLY <1>1, <2>2, a \in 1 .. 5, b \in Nat
  <2>4. QED  BY <2>1, <2>2, <2>3 DEF MaxBytes
<1>9. Hello \in Seq(Byte) /\ Hello # <<>> /\ IsPacket(Hello, 0, p)
  BY <1>6, <1>7, <1>8, WritePacketIs
<1>10. Request \in Seq(Byte) /\ Request # <<>> /\ IsPacket(Request, 0, <<>>)
  <2>1. <<>> \in Seq(Byte) /\ Len(<<>>) = 0
    OBVIOUS
  <2>2. Len(<<>>) + MaxBytes < Modulus
    BY <1>1, <2>1 DEF MaxBytes
  <2>3. QED  BY <2>1, <2>2, WritePacketIs DEF Request
<1>11. PingPacket \in Seq(Byte) /\ PingPacket # <<>> /\ IsPacket(PingPacket, 1, Timestamp)
  BY <1>1, WritePacketIs DEF PingPacket
<1>12. PICK x \in Splits(Hello) : x[2] = p
  BY <1>9, PayloadIsSuffix
<1>13. PICK y \in VarIntSplits(x[2]) : y[1] = version /\ y[2] = tail
  <2>1. PICK m \in 1 .. 5 : m = Len(version)
    BY <1>2
  <2>2. m <= Len(x[2]) /\ SubSeq(x[2], 1, m) = version /\ Drop(x[2], m) = tail
    BY <1>6, <1>8, <1>12, <2>1
  <2>3. QED  BY <2>2, SplitsAre
<1>14. QED  BY <1>2, <1>9, <1>10, <1>11, <1>12, <1>13 DEF tail

LEMMA SentIsReadable ==
  ASSUME protocol \in Int, SentSoFar
  PROVE  RequestIsReadable
<1> DEFINE IsHello(s) == \E x \in Splits(s) :
             /\ IsPacket(s, 0, x[2])
             /\ \E y \in VarIntSplits(x[2]) : /\ IsVarInt(y[1], protocol % Modulus)
                                               /\ y[2] = HostPort \o <<1>>
           IsRest(s) == s # <<>> =>
             \E y \in Splits(s) : /\ IsPacket(y[1], 0, <<>>)
                                  /\ y[2] # <<>> => IsPacket(y[2], 1, Timestamp)
<1>1. /\ Hello \in Seq(Byte) /\ IsHello(Hello)
      /\ Request \in Seq(Byte) /\ Request # <<>> /\ IsPacket(Request, 0, <<>>)
      /\ PingPacket \in Seq(Byte) /\ IsPacket(PingPacket, 1, Timestamp)
  BY PacketsSent
<1>2. ASSUME NEW q \in {<<>>, PingPacket}
      PROVE  Request \o q \in Seq(Byte) /\ IsRest(Request \o q)
  <2>1. q \in Seq(Byte)
    <3>1. <<>> \in Seq(Byte)
      OBVIOUS
    <3>2. QED  BY <1>1, <3>1
  <2>2. Request \o q \in Seq(Byte)
    BY <1>1, <2>1, ConcatSplits
  <2>3. PICK y \in Splits(Request \o q) : y[1] = Request /\ y[2] = q
    BY <1>1, <2>1, ConcatSplits
  <2>4. IsPacket(y[1], 0, <<>>) /\ (y[2] # <<>> => IsPacket(y[2], 1, Timestamp))
    BY <1>1, <2>3
  <2>5. QED  BY <2>2, <2>4
<1>3. ASSUME NEW rest \in {<<>>, Request, Request \o PingPacket}
      PROVE  rest \in Seq(Byte) /\ IsRest(rest)
  <2>1. Request \o <<>> = Request
    BY <1>1, ConcatEmptySeq
  <2>2. Request \in Seq(Byte) /\ IsRest(Request)
    <3>1. Request \o <<>> \in Seq(Byte) /\ IsRest(Request \o <<>>)
      BY <1>2
    <3>2. QED  BY <2>1, <3>1
  <2>3. <<>> \in Seq(Byte) /\ IsRest(<<>>)
    OBVIOUS
  <2>4. Request \o PingPacket \in Seq(Byte) /\ IsRest(Request \o PingPacket)
    BY <1>2
  <2> HIDE DEF IsRest
  <2>5. QED  BY <2>2, <2>3, <2>4
<1>4. ASSUME sent # <<>>
      PROVE  \E x \in Splits(sent) : IsHello(x[1]) /\ IsRest(x[2])
  <2>1. PICK rest \in {<<>>, Request, Request \o PingPacket} : sent = Hello \o rest
    BY <1>4 DEF SentSoFar
  <2>2. rest \in Seq(Byte) /\ IsRest(rest)
    BY <1>3
  <2>3. PICK x \in Splits(sent) : x[1] = Hello /\ x[2] = rest
    BY <1>1, <2>1, <2>2, ConcatSplits
  <2> HIDE DEF IsHello, IsRest
  <2>4. QED  BY <1>1, <2>2, <2>3
<1>5. RequestIsReadable <=> (sent # <<>> => \E x \in Splits(sent) : IsHello(x[1]) /\ IsRest(x[2]))
  BY DEF RequestIsReadable
<1>6. QED  BY <1>4, <1>5

(* What the client may read now, and what the server sent up to there.     *)
LEMMA UnreadIs ==
  ASSUME ExchangeTypeOK
  PROVE  LET got == SubSeq(stream, 1, arrived) IN
         /\ got \in Seq(Byte) /\ Len(got) = arrived
         /\ unread = Drop(got, consumed) /\ unread \in Seq(Byte)
         /\ consumed = 0 => unread = got
         /\ \A k \in 0 .. arrived : SubSeq(got, 1, k) = SubSeq(stream, 1, k)
         /\ readPacket(unread).is = "ok" =>
              LET last == arrived - Len(readPacket(unread).rest) IN
              last \in consumed .. arrived /\ readPacket(unread).rest = Drop(got, last)
<1> DEFINE got == SubSeq(stream, 1, arrived)
<1>1. /\ stream \in Seq(Byte) /\ Len(stream) \in Nat /\ arrived \in 0 .. Len(stream)
      /\ consumed \in 0 .. arrived
  BY Bytes DEF ExchangeTypeOK
<1>2. got \in Seq(Byte) /\ Len(got) = arrived
  BY <1>1, PrefixIs
<1>3. \A k \in 0 .. arrived : SubSeq(got, 1, k) = SubSeq(stream, 1, k)
  BY <1>1, PrefixOfPrefix
<1>4. unread = Drop(got, consumed)
  BY DEF unread
<1> HIDE DEF got
<1>5. unread \in Seq(Byte) /\ Len(unread) = arrived - consumed
  BY <1>1, <1>2, <1>4, DropIs
<1>6. consumed = 0 => unread = got
  BY <1>2, <1>4, SubSeqFull DEF Drop
<1>7. ASSUME readPacket(unread).is = "ok"
      PROVE  LET last == arrived - Len(readPacket(unread).rest) IN
             last \in consumed .. arrived /\ readPacket(unread).rest = Drop(got, last)
  <2>1. PICK k \in 0 .. Len(unread), id \in Nat, p \in Seq(Byte) :
          readPacket(unread) = Read([id |-> id, payload |-> p], Drop(unread, k))
    BY <1>5, <1>7, ReadPacketIs
  <2>2. readPacket(unread).rest = Drop(unread, k)
    BY <2>1 DEF Read
  <2>3. Len(Drop(unread, k)) = Len(unread) - k
    BY <1>5, DropIs
  <2>4. arrived - Len(readPacket(unread).rest) = consumed + k /\ consumed + k \in consumed .. arrived
    BY <1>1, <1>5, <2>2, <2>3
  <2>5. Drop(unread, k) = Drop(got, consumed + k)
    <3>1. consumed \in 0 .. Len(got) /\ k \in 0 .. Len(got) - consumed
      BY <1>1, <1>2, <1>5
    <3>2. QED  BY <1>2, <1>4, <3>1, DropDrop
  <2>6. QED  BY <2>2, <2>4, <2>5
<1>8. QED  BY <1>2, <1>3, <1>4, <1>5, <1>6, <1>7 DEF got

LEMMA InitExchange == Init => ExchangeInv
<1>1. SUFFICES ASSUME Init PROVE ExchangeInv
  OBVIOUS
<1>2. Protocols \subseteq Int /\ Streams \subseteq Seq(Byte)
  BY ExchangeAssumption
<1>3. ExchangeTypeOK
  <2>1. stream \in Seq(Byte) /\ Len(stream) \in Nat
    BY <1>1, <1>2, Bytes DEF Init
  <2>2. arrived \in 0 .. Len(stream) /\ consumed \in 0 .. arrived
    BY <1>1, <2>1 DEF Init
  <2>3. QED  BY <1>1, <1>2, <2>1, <2>2 DEF Init, ExchangeTypeOK
<1>4. ReadSoFar /\ SentSoFar /\ OutcomeIsRight
  BY <1>1 DEF Init, ReadSoFar, SentSoFar, OutcomeIsRight
<1>5. QED  BY <1>3, <1>4 DEF ExchangeInv

(* The status: what is accepted is where the answer begins, and what is    *)
(* not accepted is not the beginning of one.                               *)
LEMMA ReadingTheStatus == ExchangeInv /\ readStatus => ExchangeInv'
<1>1. SUFFICES ASSUME ExchangeInv, readStatus PROVE ExchangeInv'
  OBVIOUS
<1> DEFINE got == SubSeq(stream, 1, arrived)
           packet == readPacket(unread)
           last == arrived - Len(packet.rest)
<1>2. /\ ExchangeTypeOK /\ SentSoFar /\ pc = "status" /\ consumed = 0
      /\ kind \in {"ping", "status"} /\ arrived \in 0 .. Len(stream) /\ consumed \in 0 .. arrived
      /\ protocol \in Int /\ stream \in Seq(Byte) /\ result = "none"
      /\ Len(stream) \in Nat
  BY <1>1, Bytes DEF ExchangeInv, ExchangeTypeOK, ReadSoFar, readStatus
<1>3. kind' = kind /\ protocol' = protocol /\ stream' = stream /\ arrived' = arrived /\ sent' = sent
  BY <1>1 DEF readStatus, call
<1>4. /\ got \in Seq(Byte) /\ Len(got) = arrived /\ unread = got
      /\ \A k \in 0 .. arrived : SubSeq(got, 1, k) = SubSeq(stream, 1, k)
      /\ packet.is = "ok" => last \in consumed .. arrived /\ packet.rest = Drop(got, last)
  BY <1>2, UnreadIs
<1>5. Answered(got) <=> /\ packet.is = "ok" /\ IsStatus(packet.value)
                        /\ kind = "ping" => /\ readPacket(packet.rest).is = "ok"
                                            /\ readPacket(packet.rest).value.id = 1
  BY <1>4, AnsweredIs
<1>6. \/ /\ packet.is # "ok" \/ ~IsStatus(packet.value)
         /\ pc' = "done" /\ result' = "read" /\ consumed' \in {consumed, last}
         /\ consumed' = last => packet.is = "ok" \/ consumed' = consumed
      \/ /\ packet.is = "ok" /\ IsStatus(packet.value) /\ kind = "status"
         /\ pc' = "done" /\ result' = "ok" /\ consumed' = last
      \/ /\ packet.is = "ok" /\ IsStatus(packet.value) /\ kind = "ping"
         /\ pc' = "ping" /\ result' = result /\ consumed' = last
  BY <1>1, <1>2 DEF readStatus, ReadFails, Advance, Return, Goto
<1>7. IsStatus(packet.value) /\ packet.is = "ok" => IsStatusAnswer(SubSeq(stream, 1, last))
  <2>1. HAVE IsStatus(packet.value) /\ packet.is = "ok"
  <2>2. last \in 0 .. Len(got)
    BY <1>2, <1>4, <2>1
  <2>3. packet = readPacket(got) /\ packet.rest = Drop(got, last)
    BY <1>4, <2>1
  <2> HIDE DEF got, packet, last
  <2>4. IsStatusAnswer(SubSeq(got, 1, last))
    BY <1>4, <2>1, <2>2, <2>3, AnswersAreRead
  <2>5. QED  BY <1>4, <2>2, <2>4
<1>8. Answered(got)' <=> Answered(got)
  BY <1>3 DEF Answered
<1> HIDE DEF packet, last
<1>9. consumed' \in 0 .. arrived
  BY <1>2, <1>4, <1>6
<1>10. ExchangeTypeOK'
  <2>1. pc' \in {"ping", "done"} /\ (pc' # "done" => result' = "none")
    BY <1>2, <1>6
  <2>2. QED  BY <1>2, <1>3, <1>9, <2>1 DEF ExchangeTypeOK
<1>11. ReadSoFar'
  BY <1>3, <1>6, <1>7 DEF ReadSoFar
<1>12. SentSoFar'
  BY <1>2, <1>3, <1>6 DEF SentSoFar, Hello
<1>13. OutcomeIsRight'
  <2>1. OutcomeIsRight' <=> /\ result' = "ok" => Answered(got)'
                            /\ result' = "read" => ~Answered(got)'
    BY DEF OutcomeIsRight
  <2> HIDE DEF got
  <2>2. QED  BY <1>2, <1>5, <1>6, <1>8, <2>1
<1>14. QED  BY <1>10, <1>11, <1>12, <1>13 DEF ExchangeInv

(* The pong: the answer up to the status is known to be one.               *)
LEMMA ReadingThePong == ExchangeInv /\ readPong => ExchangeInv'
<1>1. SUFFICES ASSUME ExchangeInv, readPong PROVE ExchangeInv'
  OBVIOUS
<1> DEFINE got == SubSeq(stream, 1, arrived)
           packet == readPacket(unread)
           last == arrived - Len(packet.rest)
<1>2. /\ ExchangeTypeOK /\ SentSoFar /\ pc = "pong"
      /\ kind = "ping" /\ arrived \in 0 .. Len(stream) /\ consumed \in 0 .. arrived
      /\ protocol \in Int /\ stream \in Seq(Byte) /\ result = "none"
      /\ Len(stream) \in Nat
      /\ IsStatusAnswer(SubSeq(stream, 1, consumed))
  BY <1>1, Bytes DEF ExchangeInv, ExchangeTypeOK, ReadSoFar, readPong
<1>3. kind' = kind /\ protocol' = protocol /\ stream' = stream /\ arrived' = arrived /\ sent' = sent
  BY <1>1 DEF readPong, call
<1>4. /\ got \in Seq(Byte) /\ Len(got) = arrived /\ unread = Drop(got, consumed)
      /\ \A k \in 0 .. arrived : SubSeq(got, 1, k) = SubSeq(stream, 1, k)
      /\ packet.is = "ok" => last \in consumed .. arrived
  BY <1>2, UnreadIs
<1>5. /\ readPacket(got).is = "ok" /\ IsStatus(readPacket(got).value)
      /\ readPacket(got).rest = unread
  <2> HIDE DEF got
  <2>1. consumed \in 0 .. Len(got) /\ IsStatusAnswer(SubSeq(got, 1, consumed))
    BY <1>2, <1>4
  <2>2. QED  BY <1>4, <2>1, AnswersAreRead
<1>6. Answered(got) <=> packet.is = "ok" /\ packet.value.id = 1
  <2>1. Answered(got) <=> /\ readPacket(got).is = "ok" /\ IsStatus(readPacket(got).value)
                          /\ kind = "ping" => /\ readPacket(readPacket(got).rest).is = "ok"
                                              /\ readPacket(readPacket(got).rest).value.id = 1
    BY <1>4, AnsweredIs
  <2>2. QED  BY <1>2, <1>5, <2>1
<1>7. /\ pc' = "done" /\ consumed' \in {consumed, last} /\ (consumed' = last => packet.is = "ok" \/ consumed' = consumed)
      /\ \/ packet.is # "ok" /\ result' = "read"
         \/ packet.is = "ok" /\ packet.value.id # 1 /\ result' = "read"
         \/ packet.is = "ok" /\ packet.value.id = 1 /\ result' = "ok"
  BY <1>1 DEF readPong, ReadFails, Advance, Return
<1>8. Answered(got)' <=> Answered(got)
  BY <1>3 DEF Answered
<1> HIDE DEF packet, last
<1>9. consumed' \in 0 .. arrived
  BY <1>2, <1>4, <1>7
<1>10. ExchangeTypeOK'
  BY <1>2, <1>3, <1>7, <1>9 DEF ExchangeTypeOK
<1>11. ReadSoFar' /\ SentSoFar'
  BY <1>2, <1>3, <1>7 DEF ReadSoFar, SentSoFar, Hello
<1>12. OutcomeIsRight'
  <2>1. OutcomeIsRight' <=> /\ result' = "ok" => Answered(got)'
                            /\ result' = "read" => ~Answered(got)'
    BY DEF OutcomeIsRight
  <2> HIDE DEF got
  <2>2. QED  BY <1>6, <1>7, <1>8, <2>1
<1>13. QED  BY <1>10, <1>11, <1>12 DEF ExchangeInv

(* What the other steps leave: they read nothing and judge nothing.        *)
LEMMA NothingJudged ==
  ASSUME ExchangeInv,
         UNCHANGED <<kind, protocol, stream, consumed>>,
         arrived' \in arrived .. Len(stream),
         pc' \in {"handshake", "request", "status", "ping", "pong", "done"} \/ pc' = pc,
         result' \notin {"ok", "read"},
         pc' # "done" => result' = "none",
         pc' \in {"dial", "handshake", "request", "status"} =>
           pc \in {"dial", "handshake", "request", "status"},
         pc' \in {"ping", "pong"} => pc \in {"ping", "pong"}
  PROVE  ExchangeTypeOK' /\ ReadSoFar' /\ OutcomeIsRight'
<1>1. /\ kind \in {"ping", "status"} /\ protocol \in Int /\ stream \in Seq(Byte)
      /\ arrived \in 0 .. Len(stream) /\ consumed \in 0 .. arrived /\ Len(stream) \in Nat
      /\ pc \in {"dial", "handshake", "request", "status", "ping", "pong", "done"}
  BY Bytes DEF ExchangeInv, ExchangeTypeOK
<1>2. arrived' \in 0 .. Len(stream) /\ consumed \in 0 .. arrived'
  BY <1>1
<1>3. ExchangeTypeOK'
  BY <1>1, <1>2 DEF ExchangeTypeOK
<1>4. ReadSoFar'
  BY DEF ExchangeInv, ReadSoFar
<1>5. OutcomeIsRight'
  BY DEF OutcomeIsRight
<1>6. QED  BY <1>3, <1>4, <1>5

LEMMA NextExchange == ExchangeInv /\ [Next]_vars => ExchangeInv'
<1>1. SUFFICES ASSUME ExchangeInv, [Next]_vars PROVE ExchangeInv'
  OBVIOUS
<1>2. /\ stream \in Seq(Byte) /\ Len(stream) \in Nat /\ arrived \in 0 .. Len(stream)
      /\ arrived \in arrived .. Len(stream) /\ protocol \in Int
      /\ pc # "done" => result = "none"
      /\ pc \in {"dial", "handshake", "request", "status", "ping", "pong", "done"}
      /\ SentSoFar
  BY <1>1, Bytes DEF ExchangeInv, ExchangeTypeOK
<1>3. CASE Connect
  <2>1. SentSoFar'
    BY <1>2, <1>3 DEF Connect, Goto, call, SentSoFar, Hello
  <2>2. ExchangeTypeOK' /\ ReadSoFar' /\ OutcomeIsRight'
    BY <1>1, <1>2, <1>3, NothingJudged DEF Connect, Goto, call
  <2>3. QED  BY <2>1, <2>2 DEF ExchangeInv
<1>4. CASE Refused
  <2>1. SentSoFar'
    BY <1>2, <1>4 DEF Refused, Return, call, SentSoFar, Hello
  <2>2. ExchangeTypeOK' /\ ReadSoFar' /\ OutcomeIsRight'
    BY <1>1, <1>2, <1>4, NothingJudged DEF Refused, Return, call
  <2>3. QED  BY <2>1, <2>2 DEF ExchangeInv
<1>5. CASE WriteHandshake
  <2>1. SentSoFar'
    <3>1. sent' = Hello /\ pc' = "request" /\ protocol' = protocol
      BY <1>5 DEF WriteHandshake, Goto, call, Hello
    <3>2. Hello' = Hello
      BY <3>1 DEF Hello
    <3>3. Hello \o <<>> = Hello
      BY <1>2, PacketsSent, ConcatEmptySeq
    <3> HIDE DEF Hello
    <3>4. QED  BY <3>1, <3>2, <3>3 DEF SentSoFar
  <2>2. ExchangeTypeOK' /\ ReadSoFar' /\ OutcomeIsRight'
    BY <1>1, <1>2, <1>5, NothingJudged DEF WriteHandshake, Goto, call
  <2>3. QED  BY <2>1, <2>2 DEF ExchangeInv
<1>6. CASE WriteStatusRequest
  <2>1. SentSoFar'
    <3>1. sent' = sent \o Request /\ pc' = "status" /\ protocol' = protocol /\ pc = "request"
      BY <1>6 DEF WriteStatusRequest, Goto, call, Request
    <3>2. Hello' = Hello
      BY <3>1 DEF Hello
    <3>3. Hello \o <<>> = Hello
      BY <1>2, PacketsSent, ConcatEmptySeq
    <3>4. sent = Hello
      BY <1>2, <3>1, <3>3 DEF SentSoFar
    <3>5. QED  BY <3>1, <3>2, <3>4 DEF SentSoFar
  <2>2. ExchangeTypeOK' /\ ReadSoFar' /\ OutcomeIsRight'
    BY <1>1, <1>2, <1>6, NothingJudged DEF WriteStatusRequest, Goto, call
  <2>3. QED  BY <2>1, <2>2 DEF ExchangeInv
<1>7. CASE WriteFails
  <2>1. SentSoFar'
    BY <1>2, <1>7 DEF WriteFails, Return, call, SentSoFar, Hello
  <2>2. ExchangeTypeOK' /\ ReadSoFar' /\ OutcomeIsRight'
    BY <1>1, <1>2, <1>7, NothingJudged DEF WriteFails, Return, call
  <2>3. QED  BY <2>1, <2>2 DEF ExchangeInv
<1>8. CASE readStatus
  BY <1>1, <1>8, ReadingTheStatus
<1>9. CASE WritePing
  <2>1. SentSoFar'
    <3>1. sent' = sent \o PingPacket /\ pc' = "pong" /\ protocol' = protocol /\ pc = "ping"
      BY <1>9 DEF WritePing, Goto, call, PingPacket
    <3>2. Hello' = Hello
      BY <3>1 DEF Hello
    <3>3. sent = Hello \o Request
      BY <1>2, <3>1 DEF SentSoFar
    <3>4. (Hello \o Request) \o PingPacket = Hello \o (Request \o PingPacket)
      <4>1. Hello \in Seq(Byte) /\ Request \in Seq(Byte) /\ PingPacket \in Seq(Byte)
        BY <1>2, PacketsSent
      <4>2. QED  BY <4>1, ConcatAssociative
    <3>5. sent' = Hello' \o (Request \o PingPacket)
      BY <3>1, <3>2, <3>3, <3>4
    <3>6. QED  BY <3>1, <3>5 DEF SentSoFar
  <2>2. ExchangeTypeOK' /\ ReadSoFar' /\ OutcomeIsRight'
    BY <1>1, <1>2, <1>9, NothingJudged DEF WritePing, Goto, call
  <2>3. QED  BY <2>1, <2>2 DEF ExchangeInv
<1>10. CASE readPong
  BY <1>1, <1>10, ReadingThePong
<1>11. CASE Expire
  <2>1. SentSoFar'
    BY <1>2, <1>11 DEF Expire, Return, call, SentSoFar, Hello
  <2>2. ExchangeTypeOK' /\ ReadSoFar' /\ OutcomeIsRight'
    BY <1>1, <1>2, <1>11, NothingJudged DEF Expire, Return, call
  <2>3. QED  BY <2>1, <2>2 DEF ExchangeInv
<1>12. CASE Deliver
  <2>1. SentSoFar'
    BY <1>2, <1>12 DEF Deliver, call, SentSoFar, Hello
  <2>2. arrived' \in arrived .. Len(stream)
    BY <1>2, <1>12 DEF Deliver
  <2>3. ExchangeTypeOK' /\ ReadSoFar' /\ OutcomeIsRight'
    BY <1>1, <1>2, <1>12, <2>2, NothingJudged DEF Deliver, call
  <2>4. QED  BY <2>1, <2>3 DEF ExchangeInv
<1>13. CASE Close
  <2>1. SentSoFar'
    BY <1>2, <1>13 DEF Close, call, SentSoFar, Hello
  <2>2. ExchangeTypeOK' /\ ReadSoFar' /\ OutcomeIsRight'
    BY <1>1, <1>2, <1>13, NothingJudged DEF Close, call
  <2>3. QED  BY <2>1, <2>2 DEF ExchangeInv
<1>14. CASE Tick
  <2>1. SentSoFar'
    BY <1>2, <1>14 DEF Tick, call, SentSoFar, Hello
  <2>2. ExchangeTypeOK' /\ ReadSoFar' /\ OutcomeIsRight'
    BY <1>1, <1>2, <1>14, NothingJudged DEF Tick, call
  <2>3. QED  BY <2>1, <2>2 DEF ExchangeInv
<1>15. CASE UNCHANGED vars
  <2>1. /\ kind' = kind /\ protocol' = protocol /\ stream' = stream /\ arrived' = arrived
        /\ consumed' = consumed /\ pc' = pc /\ sent' = sent /\ result' = result
    BY <1>15 DEF vars, call
  <2>2. QED
    BY <1>1, <2>1 DEF ExchangeInv, ExchangeTypeOK, ReadSoFar, SentSoFar, OutcomeIsRight, Answered, Hello
<1>16. QED
  BY <1>1, <1>3, <1>4, <1>5, <1>6, <1>7, <1>8, <1>9, <1>10, <1>11, <1>12, <1>13, <1>14, <1>15
     DEF Next, Client

LEMMA ExchangeInvariant == Spec => []ExchangeInv
<1>1. QED  BY InitExchange, NextExchange, PTL DEF Spec

(* However the answer is cut up on its way, whatever else the server sends *)
(* and however many bytes an integer takes, a call that was not cut short  *)
(* succeeds exactly if the server sent a status that can be read and, for  *)
(* a ping, a pong after it (StatusRequest and Ping, mcping.go 32-130, over *)
(* readStatus 144-162, readPacket 243-260 and readVarInt 204-222).         *)
THEOREM OutcomesAreRight == Spec => []OutcomeIsRight
<1>1. ExchangeInv => OutcomeIsRight
  BY DEF ExchangeInv
<1>2. QED  BY <1>1, ExchangeInvariant, PTL

(* At every moment the server can read what the client sent: the lengths   *)
(* are right and a negative protocol version is an unsigned integer of     *)
(* five bytes (writePacket and writeVarInt, mcping.go 192-241).            *)
THEOREM RequestsAreReadable == Spec => []RequestIsReadable
<1>1. ExchangeInv => RequestIsReadable
  BY SentIsReadable DEF ExchangeInv, ExchangeTypeOK
<1>2. QED  BY <1>1, ExchangeInvariant, PTL
===============================================================================
