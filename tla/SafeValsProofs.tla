---------------------------- MODULE SafeValsProofs ----------------------------
(***************************************************************************)
(* Adding the complement of the predecessor subtracts, for words of any    *)
(* size and for every pair of words, zero included.                        *)
(***************************************************************************)
EXTENDS SafeVals, TLAPS

\* What % is on the numbers that sums and differences of two words can be.
LEMMA Residues ==
  ASSUME NEW y \in Word
  PROVE  y % Modulus = y /\ (y + Modulus) % Modulus = y /\ (y - Modulus) % Modulus = y
BY WordAssumption DEF Word

LEMMA ResidueIsWord == ASSUME NEW y \in Int PROVE y % Modulus \in Word
BY WordAssumption DEF Word

\* The complement of x - 1 is what is missing from x to the next multiple.
LEMMA ComplementOfPred ==
  ASSUME NEW x \in Word
  PROVE  Complement((x - 1) % Modulus) = IF x = 0 THEN 0 ELSE Modulus - x
<1>1. CASE x = 0
  <2>1. (x - 1) % Modulus = Modulus - 1
    <3>1. Modulus - 1 \in Word /\ x - 1 = Modulus - 1 - Modulus
      BY <1>1, WordAssumption DEF Word
    <3> QED BY <3>1, Residues
  <2> QED BY <1>1, <2>1, WordAssumption DEF Complement
<1>2. CASE x # 0
  <2>1. x - 1 \in Word
    BY <1>2, WordAssumption DEF Word
  <2>2. (x - 1) % Modulus = x - 1
    BY <2>1, Residues
  <2> QED BY <1>2, <2>2, WordAssumption DEF Complement, Word
<1> QED BY <1>1, <1>2

\* safeUint32.sub subtracts: the result is i - x, around zero if need be.
THEOREM SubSubtracts ==
  ASSUME NEW i \in Word, NEW x \in Word
  PROVE  Sub(i, x) \in Word /\ Sub(i, x) = (i - x) % Modulus
<1>1. CASE x = 0
  BY <1>1, ComplementOfPred, ResidueIsWord DEF Sub, Add, Word
<1>2. CASE x # 0
  <2>1. Sub(i, x) = (i + (Modulus - x)) % Modulus
    BY <1>2, ComplementOfPred DEF Sub, Add
  <2>2. CASE i >= x
    <3>1. i - x \in Word /\ i + (Modulus - x) = i - x + Modulus
      BY <1>2, <2>2, WordAssumption DEF Word
    <3> QED BY <2>1, <3>1, Residues
  <2>3. CASE i < x
    <3>1. /\ i + (Modulus - x) \in Word
          /\ i - x = i + (Modulus - x) - Modulus
      BY <1>2, <2>3, WordAssumption DEF Word
    <3>2. ASSUME NEW y \in Word PROVE (y - Modulus) % Modulus = y
      BY Residues
    <3>3. (i + (Modulus - x)) % Modulus = i + (Modulus - x)
      BY <3>1, Residues
    <3>4. (i - x) % Modulus = i + (Modulus - x)
      <4> DEFINE y == i + (Modulus - x)
      <4>1. y \in Word /\ i - x = y - Modulus
        BY <1>2, <2>3, WordAssumption DEF Word
      <4> HIDE DEF y
      <4>2. (i - x) % Modulus = y
        BY <4>1, <3>2
      <4> QED BY <4>2 DEF y
    <3>5. Sub(i, x) = i + (Modulus - x)
      BY <2>1, <3>3
    <3> QED BY <3>1, <3>4, <3>5
  <2> QED BY <2>2, <2>3 DEF Word
<1> QED BY <1>1, <1>2

\* inc is the successor, but for the largest word.
LEMMA IncIs ==
  ASSUME NEW i \in Word
  PROVE  Inc(i) = (IF i = Modulus - 1 THEN 0 ELSE i + 1) /\ Inc(i) \in Word
<1>1. CASE i = Modulus - 1
  <2>1. i + 1 = 0 + Modulus /\ 0 \in Word
    BY <1>1, WordAssumption DEF Word
  <2> QED BY <1>1, <2>1, Residues DEF Inc, Add
<1>2. CASE i # Modulus - 1
  <2>1. i + 1 \in Word
    BY <1>2, WordAssumption DEF Word
  <2> QED BY <1>2, <2>1, Residues DEF Inc, Add
<1> QED BY <1>1, <1>2

\* dec is the predecessor, but for zero.
LEMMA DecIs ==
  ASSUME NEW j \in Word
  PROVE  Dec(j) = (IF j = 0 THEN Modulus - 1 ELSE j - 1) /\ Dec(j) \in Word
<1>1. 1 \in Word
  BY WordAssumption DEF Word
<1>2. Dec(j) \in Word /\ Dec(j) = (j - 1) % Modulus
  BY <1>1, SubSubtracts DEF Dec
<1>3. CASE j = 0
  <2>1. Modulus - 1 \in Word /\ j - 1 = Modulus - 1 - Modulus
    BY <1>3, WordAssumption DEF Word
  <2> QED BY <1>2, <1>3, <2>1, Residues
<1>4. CASE j # 0
  <2>1. j - 1 \in Word
    BY <1>4, WordAssumption DEF Word
  <2> QED BY <1>2, <1>4, <2>1, Residues
<1> QED BY <1>3, <1>4

\* inc and dec undo each other, in either order: l_addClient and l_delClient may
\* count in any order and still leave the number of clients.
THEOREM DecUndoesInc ==
  ASSUME NEW i \in Word
  PROVE  Dec(Inc(i)) = i /\ Inc(Dec(i)) = i
<1>1. Inc(i) \in Word /\ Dec(i) \in Word
  BY IncIs, DecIs
<1>2. Dec(Inc(i)) = i
  <2>1. Dec(Inc(i)) = IF Inc(i) = 0 THEN Modulus - 1 ELSE Inc(i) - 1
    BY <1>1, DecIs
  <2> QED BY <2>1, IncIs, WordAssumption DEF Word
<1>3. Inc(Dec(i)) = i
  <2>1. Inc(Dec(i)) = IF Dec(i) = Modulus - 1 THEN 0 ELSE Dec(i) + 1
    BY <1>1, IncIs
  <2> QED BY <2>1, DecIs, WordAssumption DEF Word
<1> QED BY <1>2, <1>3
===============================================================================
