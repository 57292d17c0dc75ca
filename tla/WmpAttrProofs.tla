--------------------------- MODULE WmpAttrProofs ---------------------------
(***************************************************************************)
(* WmpAttr, for every size of bytes and numbers: what a number or a format *)
(* makes of a value, by induction over its bytes or its getters.           *)
(***************************************************************************)
EXTENDS WmpAttr, TLAPS, SequenceTheorems, WellFoundedInduction

-----------------------------------------------------------------------------
(* Induction and recursion over 0..n                                       *)

(* The induction theorems of the library have a predicate as a parameter;  *)
(* the set of the numbers that satisfy it does as well.                    *)
LEMMA Induction ==
  ASSUME NEW n \in Nat, NEW T, 0 \in T, \A i \in 1 .. n : i - 1 \in T => i \in T
  PROVE  \A i \in 0 .. n : i \in T
<1> DEFINE Bad == {i \in Nat : i <= n /\ i \notin T}
<1> SUFFICES ASSUME Bad # {} PROVE FALSE
  OBVIOUS
<1>1. PICK x \in Bad : \A y \in Bad : <<y, x>> \notin OpToRel(<, Nat)
  <2>1. Bad \subseteq Nat
    OBVIOUS
  <2> HIDE DEF Bad
  <2> QED
    BY <2>1, NatLessThanWellFounded, WFMin
<1>2. x \in 1 .. n /\ x - 1 \in Nat /\ x \notin T
  <2>1. x \in Nat /\ x <= n /\ x \notin T
    OBVIOUS
  <2>2. x # 0
    BY <2>1
  <2> QED
    BY <2>1, <2>2
<1>3. x - 1 \in Bad
  BY <1>2
<1>4. <<x - 1, x>> \in OpToRel(<, Nat)
  BY <1>2 DEF OpToRel
<1> QED
  BY <1>1, <1>3, <1>4

Recursive(f, n, base, step) ==
  f = [i \in 0 .. n |-> IF i = 0 THEN base ELSE step[<<i, f[i - 1]>>]]

(* A function may be defined by recursion over 0..n, and its value at i is *)
(* in D[i] where each step stays in these sets.                            *)
LEMMA Recursion ==
  ASSUME NEW n \in Nat, NEW D, NEW base \in D[0], NEW step,
         \A i \in 1 .. n : \A x \in D[i - 1] : step[<<i, x>>] \in D[i]
  PROVE  \E f : Recursive(f, n, base, step) /\ \A i \in 0 .. n : f[i] \in D[i]
<1> DEFINE Defined(m, f) == Recursive(f, m, base, step) /\ f[m] \in D[m]
           T == {m \in 0 .. n : \E f : Defined(m, f)}
<1>1. 0 \in T
  <2> DEFINE f == [i \in 0 .. 0 |-> base]
  <2>1. f[0] = base /\ \A i \in 0 .. 0 : i = 0
    OBVIOUS
  <2>2. Defined(0, f)
    BY <2>1 DEF Recursive
  <2> HIDE DEF Defined
  <2> QED
    BY <2>2
<1>2. ASSUME NEW m \in 1 .. n, m - 1 \in T PROVE m \in T
  <2>1. PICK f : Defined(m - 1, f)
    BY <1>2
  <2> DEFINE new == step[<<m, f[m - 1]>>]
             g == [i \in 0 .. m |-> IF i = m THEN new ELSE f[i]]
  <2>2. \A i \in 0 .. m - 1 : f[i] = IF i = 0 THEN base ELSE step[<<i, f[i - 1]>>]
    BY <2>1 DEF Recursive
  <2>3. new \in D[m]
    BY <2>1
  <2>4. g[m] = new /\ \A i \in 0 .. m - 1 : g[i] = f[i]
    OBVIOUS
  <2>5. \A i \in 0 .. m : g[i] = IF i = 0 THEN base ELSE step[<<i, g[i - 1]>>]
    <3> HIDE DEF g, new
    <3>1. SUFFICES ASSUME NEW i \in 0 .. m
                   PROVE  g[i] = IF i = 0 THEN base ELSE step[<<i, g[i - 1]>>]
      OBVIOUS
    <3>2. CASE i = m
      <4>1. m # 0 /\ m - 1 \in 0 .. m - 1
        OBVIOUS
      <4> QED
        BY <2>4, <3>2, <4>1 DEF new
    <3>3. CASE i # m
      <4>1. i \in 0 .. m - 1 /\ (i # 0 => i - 1 \in 0 .. m - 1)
        BY <3>3
      <4> QED
        BY <2>2, <2>4, <4>1
    <3> QED
      BY <3>2, <3>3
  <2>6. g = [i \in 0 .. m |-> IF i = 0 THEN base ELSE step[<<i, g[i - 1]>>]]
    <3>1. g = [i \in 0 .. m |-> g[i]]
      OBVIOUS
    <3> HIDE DEF g
    <3> QED
      BY <2>5, <3>1
  <2>7. Defined(m, g)
    BY <2>3, <2>4, <2>6 DEF Recursive
  <2> HIDE DEF Defined
  <2> QED
    BY <2>7
<1>3. n \in T
  <2> HIDE DEF T
  <2> QED
    BY <1>1, <1>2, Induction
<1>4. PICK f : Defined(n, f)
  BY <1>3
<1>5. \A i \in 0 .. n : f[i] = IF i = 0 THEN base ELSE step[<<i, f[i - 1]>>]
  BY <1>4 DEF Recursive
<1>6. \A i \in 0 .. n : f[i] \in D[i]
  <2> DEFINE S == {k \in 0 .. n : f[k] \in D[k]}
  <2>1. 0 \in S
    <3>1. 0 \in 0 .. n
      OBVIOUS
    <3>2. f[0] = base
      BY <1>5, <3>1
    <3> QED
      BY <3>1, <3>2
  <2>2. ASSUME NEW i \in 1 .. n, i - 1 \in S PROVE i \in S
    <3>1. f[i] = step[<<i, f[i - 1]>>] /\ f[i - 1] \in D[i - 1]
      BY <1>5, <2>2
    <3> QED
      BY <3>1
  <2> HIDE DEF S
  <2>3. \A i \in 0 .. n : i \in S
    BY <2>1, <2>2, Induction
  <2> QED
    BY <2>3 DEF S
<1> QED
  BY <1>4, <1>6

-----------------------------------------------------------------------------
(* Numbers                                                                 *)

(* Reading the bytes of a number one by one.                               *)
LEMMA ReadStep ==
  ASSUME NEW s \in Seq(ByteValues)
  PROVE  /\ Read(s)[0] = 0 /\ \A i \in 0 .. Len(s) : Read(s)[i] \in Nat
         /\ \A i \in 1 .. Len(s) : Read(s)[i] = Read(s)[i - 1] * Base + s[i]
<1> DEFINE n == Len(s)
           D == [i \in 0 .. n |-> Nat]
           step == [p \in (1 .. n) \X Nat |-> p[2] * Base + s[p[1]]]
           Eqn(f) == f = [i \in 0 .. n |-> IF i = 0 THEN 0 ELSE f[i - 1] * Base + s[i]]
           read == Read(s)
<1>1. n \in Nat /\ \A i \in 1 .. n : s[i] \in Nat
  BY BaseAssumption DEF ByteValues
<1>2. \A x, y \in Nat : x * Base + y \in Nat
  BY BaseAssumption
<1>3. \A i \in 1 .. n, x \in Nat : step[<<i, x>>] = x * Base + s[i]
  OBVIOUS
<1>4. \A i \in 0 .. n : D[i] = Nat
  OBVIOUS
<1>5. read = CHOOSE f : Eqn(f)
  BY DEF Read
<1> HIDE DEF n, D, step, read
<1>6. \E f : Eqn(f)
  <2>1. 0 \in D[0] /\ \A i \in 1 .. n : \A x \in D[i - 1] : step[<<i, x>>] \in D[i]
    <3>1. 0 \in D[0] /\ \A i \in 1 .. n : D[i - 1] = Nat /\ D[i] = Nat
      BY <1>1, <1>4
    <3>2. \A i \in 1 .. n, x \in Nat : step[<<i, x>>] \in Nat
      BY <1>1, <1>2, <1>3
    <3> QED
      BY <3>1, <3>2
  <2>2. PICK f : Recursive(f, n, 0, step) /\ \A i \in 0 .. n : f[i] \in D[i]
    BY <1>1, <2>1, Recursion
  <2>3. ASSUME NEW i \in 0 .. n, i # 0
        PROVE  step[<<i, f[i - 1]>>] = f[i - 1] * Base + s[i]
    <3>1. i \in 1 .. n /\ i - 1 \in 0 .. n
      BY <1>1, <2>3
    <3> QED
      BY <1>3, <1>4, <2>2, <3>1
  <2> QED
    BY <2>2, <2>3 DEF Recursive
<1>7. Eqn(read)
  <2> HIDE DEF Eqn
  <2> QED
    BY <1>5, <1>6
<1>8. /\ read[0] = 0
      /\ \A i \in 1 .. n : read[i] = read[i - 1] * Base + s[i]
  BY <1>1, <1>7
<1>9. \A i \in 0 .. n : read[i] \in Nat
  <2> DEFINE T == {k \in 0 .. n : read[k] \in Nat}
  <2>1. 0 \in T
    BY <1>1, <1>8
  <2>2. ASSUME NEW i \in 1 .. n, i - 1 \in T PROVE i \in T
    <3>1. read[i - 1] \in Nat /\ i \in 0 .. n
      BY <1>1, <2>2
    <3> QED
      BY <1>1, <1>2, <1>8, <3>1
  <2> HIDE DEF T
  <2>3. \A i \in 0 .. n : i \in T
    BY <1>1, <2>1, <2>2, Induction
  <2> QED
    BY <2>3 DEF T
<1> QED
  BY <1>8, <1>9 DEF n, read

(* Writing them, the last one first.                                       *)
LEMMA ShiftStep ==
  ASSUME NEW n \in Nat, NEW len \in Nat
  PROVE  /\ Shifted(n, len)[0] = n /\ \A i \in 0 .. len : Shifted(n, len)[i] \in Nat
         /\ \A i \in 1 .. len : Shifted(n, len)[i] = Shifted(n, len)[i - 1] \div Base
<1> DEFINE D == [i \in 0 .. len |-> Nat]
           step == [p \in (1 .. len) \X Nat |-> p[2] \div Base]
           Eqn(f) == f = [i \in 0 .. len |-> IF i = 0 THEN n ELSE f[i - 1] \div Base]
           left == Shifted(n, len)
<1>1. \A x \in Nat : x \div Base \in Nat
  BY BaseAssumption
<1>2. \A i \in 1 .. len, x \in Nat : step[<<i, x>>] = x \div Base
  OBVIOUS
<1>3. \A i \in 0 .. len : D[i] = Nat
  OBVIOUS
<1>4. left = CHOOSE f : Eqn(f)
  BY DEF Shifted
<1> HIDE DEF D, step, left
<1>5. \E f : Eqn(f)
  <2>1. n \in D[0] /\ \A i \in 1 .. len : \A x \in D[i - 1] : step[<<i, x>>] \in D[i]
    <3>1. n \in D[0] /\ \A i \in 1 .. len : D[i - 1] = Nat /\ D[i] = Nat
      BY <1>3
    <3>2. \A i \in 1 .. len, x \in Nat : step[<<i, x>>] \in Nat
      BY <1>1, <1>2
    <3> QED
      BY <3>1, <3>2
  <2>2. PICK f : Recursive(f, len, n, step) /\ \A i \in 0 .. len : f[i] \in D[i]
    BY <2>1, Recursion
  <2>3. ASSUME NEW i \in 0 .. len, i # 0
        PROVE  step[<<i, f[i - 1]>>] = f[i - 1] \div Base
    <3>1. i \in 1 .. len /\ i - 1 \in 0 .. len
      BY <2>3
    <3> QED
      BY <1>2, <1>3, <2>2, <3>1
  <2> QED
    BY <2>2, <2>3 DEF Recursive
<1>6. Eqn(left)
  <2> HIDE DEF Eqn
  <2> QED
    BY <1>4, <1>5
<1>7. left[0] = n /\ \A i \in 1 .. len : left[i] = left[i - 1] \div Base
  BY <1>6
<1>8. \A i \in 0 .. len : left[i] \in Nat
  <2> DEFINE T == {k \in 0 .. len : left[k] \in Nat}
  <2>1. 0 \in T
    BY <1>7
  <2>2. ASSUME NEW i \in 1 .. len, i - 1 \in T PROVE i \in T
    <3>1. left[i - 1] \in Nat /\ i \in 0 .. len
      BY <2>2
    <3> QED
      BY <1>1, <1>7, <3>1
  <2> HIDE DEF T
  <2>3. \A i \in 0 .. len : i \in T
    BY <2>1, <2>2, Induction
  <2> QED
    BY <2>3 DEF T
<1> QED
  BY <1>7, <1>8 DEF left

LEMMA DivModOfSum ==
  \A x : \A q \in Nat : \A r \in 0 .. Base - 1 :
    x = q * Base + r => x \div Base = q /\ x % Base = r
  BY BaseAssumption

(* The bytes of a number are those it was read from, and it is read from   *)
(* them again.                                                             *)
LEMMA BytesOfNumber ==
  ASSUME NEW len \in Nat, NEW n \in Numbers(len)
  PROVE  /\ n \in Nat /\ FromBytes(ToBytes(n, len)) = n
         /\ ToBytes(n, len) \in Seq(ByteValues) /\ Len(ToBytes(n, len)) = len
<1>1. PICK s \in [1 .. len -> ByteValues] : n = FromBytes(s)
  BY DEF Numbers
<1>2. s \in Seq(ByteValues) /\ Len(s) = len
  BY <1>1
<1> DEFINE read == Read(s)
           left == Shifted(n, len)
<1>3. n = read[len] /\ n \in Nat
  BY <1>1, <1>2, ReadStep DEF FromBytes
<1>4. \A i \in 0 .. len : left[i] = read[len - i]
  <2> DEFINE T == {k \in 0 .. len : left[k] = read[len - k]}
  <2>1. 0 \in T
    BY <1>3, ShiftStep
  <2>2. ASSUME NEW i \in 1 .. len, i - 1 \in T PROVE i \in T
    <3> DEFINE k == len - i
    <3>1. /\ k \in 0 .. len /\ k + 1 \in 1 .. len /\ (k + 1) - 1 = k
          /\ len - (i - 1) = k + 1 /\ i \in 0 .. len
      OBVIOUS
    <3>2. left[i - 1] = read[k + 1]
      BY <2>2, <3>1
    <3>3. left[i] = left[i - 1] \div Base
      BY <1>3, ShiftStep
    <3>4. read[k + 1] = read[k] * Base + s[k + 1] /\ read[k] \in Nat
      BY <1>2, <3>1, ReadStep
    <3>5. s[k + 1] \in 0 .. Base - 1
      BY <1>1, <3>1 DEF ByteValues
    <3>6. read[k + 1] \div Base = read[k]
      <4> HIDE DEF left, read, k
      <4> QED
        BY <3>4, <3>5, DivModOfSum, Zenon
    <3> QED
      BY <3>1, <3>2, <3>3, <3>6
  <2> HIDE DEF T
  <2>3. \A i \in 0 .. len : i \in T
    BY <2>1, <2>2, Induction
  <2> QED
    BY <2>3 DEF T
<1>5. ASSUME NEW i \in 1 .. len PROVE left[len - i] % Base = s[i]
  <2>1. len - i \in 0 .. len /\ len - (len - i) = i /\ i - 1 \in 0 .. len
    OBVIOUS
  <2>2. left[len - i] = read[i]
    BY <1>4, <2>1
  <2>3. read[i] = read[i - 1] * Base + s[i] /\ read[i - 1] \in Nat
    BY <1>2, <2>1, ReadStep
  <2>4. s[i] \in 0 .. Base - 1
    BY <1>1 DEF ByteValues
  <2>5. read[i] % Base = s[i]
    <3> HIDE DEF read
    <3> QED
      BY <2>3, <2>4, DivModOfSum, Zenon
  <2> QED
    BY <2>2, <2>5
<1>6. ToBytes(n, len) = s
  <2>1. ToBytes(n, len) = [i \in 1 .. len |-> left[len - i] % Base]
    BY DEF ToBytes
  <2> HIDE DEF left
  <2> QED
    BY <1>1, <1>5, <2>1
<1> QED
  BY <1>1, <1>2, <1>3, <1>6

LEMMA NumberNat ==
  ASSUME NEW s \in Seq(ByteValues)
  PROVE  FromBytes(s) \in Nat
<1>1. Len(s) \in 0 .. Len(s)
  OBVIOUS
<1> QED
  BY <1>1, ReadStep DEF FromBytes

-----------------------------------------------------------------------------
(* Formats                                                                 *)

(* A length is only asked of fields read before.                           *)
Getters == [len : {"fixed", "behind", "said"}, n : Nat]
WellFormed(format) ==
  /\ format \in Seq(Getters)
  /\ \A i \in DOMAIN format :
       format[i].len = "said" => format[i].n \in 1 .. i - 1

Readings(val) == [offset : 0 .. Len(val), fields : Seq(Seq(ByteValues))]
ReadFields(val, i) == {read \in Readings(val) : Len(read.fields) = i}

(* How far a getter that is asked for n bytes moves.                       *)
Taken(val, offset, n) == IF n >= 1 /\ offset + n <= Len(val) THEN n ELSE 0

LEMMA GetMoves ==
  ASSUME NEW val \in Seq(ByteValues), NEW i \in Nat, NEW read \in ReadFields(val, i),
         NEW n \in Int
  PROVE  /\ Get(val, read, n) \in ReadFields(val, i + 1)
         /\ Get(val, read, n).offset = read.offset + Taken(val, read.offset, n)
         /\ Get(val, read, n).fields =
              Append(read.fields,
                     SubSeq(val, read.offset + 1, Get(val, read, n).offset))
<1> DEFINE at == read.offset
           end == at + Taken(val, at, n)
           new == SubSeq(val, at + 1, end)
           fields == Append(read.fields, new)
<1>1. /\ read.offset \in 0 .. Len(val) /\ read.fields \in Seq(Seq(ByteValues))
      /\ Len(read.fields) = i /\ read = [offset |-> read.offset, fields |-> read.fields]
  BY DEF ReadFields, Readings
<1>2. end \in at .. Len(val)
  BY <1>1 DEF Taken
<1>3. new \in Seq(ByteValues)
  <2>1. \A k \in at + 1 .. end : val[k] \in ByteValues
    BY <1>1, <1>2
  <2> QED
    BY <1>1, <1>2, <2>1, SubSeqProperties
<1>4. fields \in Seq(Seq(ByteValues)) /\ Len(fields) = i + 1
  <2> HIDE DEF new
  <2> QED
    BY <1>1, <1>3
<1>5. Get(val, read, n) = [offset |-> end, fields |-> fields]
  <2>1. CASE n >= 1 /\ read.offset + n <= Len(val)
    BY <2>1 DEF Get, Stored, Taken
  <2>2. CASE ~(n >= 1 /\ read.offset + n <= Len(val))
    <3>1. Get(val, read, n) = [read EXCEPT !.fields = Append(read.fields, <<>>)]
      BY <2>2 DEF Get
    <3>2. Get(val, read, n) = [offset |-> at, fields |-> Append(read.fields, <<>>)]
      BY <1>1, <3>1
    <3>3. end = at /\ SubSeq(val, at + 1, at) = <<>>
      BY <1>1, <2>2, SubSeqEmpty DEF Taken
    <3> QED
      BY <3>2, <3>3
  <2> QED
    BY <2>1, <2>2
<1> HIDE DEF end, fields
<1>6. [offset |-> end, fields |-> fields] \in ReadFields(val, i + 1)
  BY <1>1, <1>2, <1>4 DEF ReadFields, Readings
<1>7. Get(val, read, n).offset = end /\ Get(val, read, n).fields = fields
  BY <1>5
<1>8. Get(val, read, n) \in ReadFields(val, i + 1)
  BY <1>5, <1>6
<1>9. fields = Append(read.fields, SubSeq(val, read.offset + 1, Get(val, read, n).offset))
  BY <1>7, Zenon DEF fields
<1> QED
  BY <1>7, <1>8, <1>9, Zenon DEF end

LEMMA AskedInt ==
  ASSUME NEW val \in Seq(ByteValues), NEW read \in Readings(val), NEW getter \in Getters,
         getter.len = "said" => getter.n \in DOMAIN read.fields
  PROVE  Asked(getter, val, read) \in Int
<1>1. getter.n \in Nat /\ getter.len \in {"fixed", "behind", "said"}
  BY DEF Getters
<1>2. CASE getter.len = "fixed"
  BY <1>1, <1>2 DEF Asked
<1>3. CASE getter.len = "behind"
  <2>1. Asked(getter, val, read) = Len(val) - getter.n
    BY <1>3 DEF Asked
  <2> QED
    BY <1>1, <2>1
<1>4. CASE getter.len = "said"
  <2>1. read.fields[getter.n] \in Seq(ByteValues)
    BY <1>4 DEF Readings
  <2>2. FromBytes(read.fields[getter.n]) \in Nat
    BY <2>1, NumberNat
  <2>3. Asked(getter, val, read) = FromBytes(read.fields[getter.n])
    BY <1>4 DEF Asked
  <2> QED
    BY <2>2, <2>3
<1> QED
  BY <1>1, <1>2, <1>3, <1>4

LEMMA TheOne ==
  ASSUME NEW x PROVE The({x}) = x
  BY DEF The

(* One getter after the other.                                             *)
LEMMA AfterStep ==
  ASSUME NEW format, WellFormed(format), NEW val \in Seq(ByteValues)
  PROVE  /\ After(format, val)[0] = [offset |-> 0, fields |-> <<>>]
         /\ \A i \in 0 .. Len(format) : After(format, val)[i] \in ReadFields(val, i)
         /\ \A i \in 1 .. Len(format) :
              LET before == After(format, val)[i - 1]
                  asked == Asked(format[i], val, before)
              IN  After(format, val)[i] = Get(val, before, asked) /\ asked \in Int
<1> DEFINE n == Len(format)
           start == [offset |-> 0, fields |-> <<>>]
           D == [i \in 0 .. n |-> ReadFields(val, i)]
           Next1(i, before) ==
             The({Get(val, read, Asked(format[i], val, read)) : read \in {before}})
           Step1(i, before) == Get(val, before, Asked(format[i], val, before))
           step == [p \in (1 .. n) \X Readings(val) |-> Next1(p[1], p[2])]
           Eqn(f) == f = [i \in 0 .. n |-> IF i = 0 THEN start ELSE Next1(i, f[i - 1])]
           after == After(format, val)
<1>1. n \in Nat
  BY DEF WellFormed
<1>2. ASSUME NEW i, NEW before PROVE Next1(i, before) = Step1(i, before)
  <2>1. {Get(val, read, Asked(format[i], val, read)) : read \in {before}}
          = {Step1(i, before)}
    OBVIOUS
  <2> QED
    BY <2>1, TheOne
<1>3. \A i \in 1 .. n : \A read \in Readings(val) : step[<<i, read>>] = Next1(i, read)
  OBVIOUS
<1>4. ASSUME NEW i \in 1 .. n, NEW before \in ReadFields(val, i - 1)
      PROVE  Step1(i, before) \in ReadFields(val, i) /\ Asked(format[i], val, before) \in Int
  <2>1. /\ format[i] \in Getters
        /\ format[i].len = "said" => format[i].n \in 1 .. i - 1
    BY DEF WellFormed
  <2>2. /\ before \in Readings(val)
        /\ before.fields \in Seq(Seq(ByteValues)) /\ Len(before.fields) = i - 1
    BY DEF ReadFields, Readings
  <2>3. Asked(format[i], val, before) \in Int
    BY <2>1, <2>2, AskedInt
  <2>4. i - 1 \in Nat /\ (i - 1) + 1 = i
    BY <1>1
  <2> QED
    BY <2>3, <2>4, GetMoves
<1>5. \A i \in 0 .. n : D[i] = ReadFields(val, i)
  OBVIOUS
<1>6. after = CHOOSE f : Eqn(f)
  BY DEF After
<1>7. start \in ReadFields(val, 0)
  BY DEF ReadFields, Readings
<1> HIDE DEF n, D, step, Next1, Step1, start, after
<1>8. \E f : Eqn(f)
  <2>1. start \in D[0]
    BY <1>1, <1>5, <1>7
  <2>2. \A i \in 1 .. n : \A x \in D[i - 1] :
          step[<<i, x>>] \in D[i] /\ step[<<i, x>>] = Next1(i, x)
    <3> SUFFICES ASSUME NEW i \in 1 .. n, NEW x \in D[i - 1]
                 PROVE  step[<<i, x>>] \in D[i] /\ step[<<i, x>>] = Next1(i, x)
      OBVIOUS
    <3>1. D[i - 1] = ReadFields(val, i - 1) /\ D[i] = ReadFields(val, i)
      BY <1>1, <1>5
    <3>2. x \in Readings(val)
      BY <3>1 DEF ReadFields
    <3>3. step[<<i, x>>] = Next1(i, x)
      BY <1>3, <3>2
    <3>4. Step1(i, x) \in ReadFields(val, i)
      BY <1>4, <3>1
    <3> QED
      BY <1>2, <3>1, <3>3, <3>4
  <2>3. PICK f : Recursive(f, n, start, step) /\ \A i \in 0 .. n : f[i] \in D[i]
    BY <1>1, <2>1, <2>2, Recursion
  <2>4. ASSUME NEW i \in 0 .. n, i # 0
        PROVE  step[<<i, f[i - 1]>>] = Next1(i, f[i - 1])
    <3>1. i \in 1 .. n /\ i - 1 \in 0 .. n
      BY <1>1, <2>4
    <3> QED
      BY <2>2, <2>3, <3>1
  <2> QED
    BY <2>3, <2>4 DEF Recursive
<1>9. Eqn(after)
  <2> HIDE DEF Eqn
  <2> QED
    BY <1>6, <1>8
<1>10. after[0] = start /\ \A i \in 1 .. n : after[i] = Step1(i, after[i - 1])
  BY <1>1, <1>2, <1>9
<1>11. \A i \in 0 .. n : after[i] \in ReadFields(val, i)
  <2> DEFINE T == {k \in 0 .. n : after[k] \in ReadFields(val, k)}
  <2>1. 0 \in T
    BY <1>1, <1>7, <1>10
  <2>2. ASSUME NEW i \in 1 .. n, i - 1 \in T PROVE i \in T
    <3>1. after[i - 1] \in ReadFields(val, i - 1) /\ i \in 0 .. n
      BY <1>1, <2>2
    <3> QED
      BY <1>4, <1>10, <3>1
  <2> HIDE DEF T
  <2>3. \A i \in 0 .. n : i \in T
    BY <1>1, <2>1, <2>2, Induction
  <2> QED
    BY <2>3 DEF T
<1>12. ASSUME NEW i \in 1 .. n PROVE Asked(format[i], val, after[i - 1]) \in Int
  <2>1. i - 1 \in 0 .. n
    BY <1>1
  <2> QED
    BY <1>4, <1>11, <2>1
<1> QED
  BY <1>10, <1>11, <1>12 DEF n, start, after, Step1

(* Where the getters have moved to, the i-th of them the last one.         *)
Place(format, val, i) == After(format, val)[i].offset

(* What a Parse function leaves: each field is the piece of the value that *)
(* its getter moved over, which is as long as asked for, or nothing.       *)
LEMMA Reading ==
  ASSUME NEW format, WellFormed(format), NEW val \in Seq(ByteValues)
  PROVE  /\ Place(format, val, 0) = 0
         /\ Parse(format, val).offset = Place(format, val, Len(format))
         /\ Fields(format, val) \in Seq(Seq(ByteValues))
         /\ Len(Fields(format, val)) = Len(format)
         /\ \A i \in 0 .. Len(format) : Place(format, val, i) \in 0 .. Len(val)
         /\ \A i \in 1 .. Len(format) :
              LET from == Place(format, val, i - 1)
                  asked == Asked(format[i], val, Parse(format, val))
              IN  /\ asked \in Int
                  /\ Place(format, val, i) = from + Taken(val, from, asked)
                  /\ from <= Place(format, val, i)
                  /\ Fields(format, val)[i] = SubSeq(val, from + 1, Place(format, val, i))
<1> DEFINE n == Len(format)
           after == After(format, val)
           at == [i \in 0 .. n |-> after[i].offset]
           piece == [i \in 1 .. n |-> SubSeq(val, at[i - 1] + 1, at[i])]
           asked(i, read) == Asked(format[i], val, read)
<1>1. n \in Nat /\ Len(val) \in Nat /\ \A i \in 1 .. n : i - 1 \in 0 .. n
  BY DEF WellFormed
<1>2. after[0] = [offset |-> 0, fields |-> <<>>]
  BY AfterStep
<1>3. ASSUME NEW i \in 0 .. n
      PROVE  /\ after[i] \in ReadFields(val, i) /\ after[i].offset = at[i]
             /\ after[i].fields \in Seq(Seq(ByteValues)) /\ Len(after[i].fields) = i
             /\ at[i] \in 0 .. Len(val)
  <2>1. after[i] \in ReadFields(val, i)
    BY AfterStep
  <2> HIDE DEF after
  <2> QED
    BY <2>1 DEF ReadFields, Readings
<1>4. ASSUME NEW i \in 1 .. n
      PROVE  /\ asked(i, after[i - 1]) \in Int
             /\ at[i] = at[i - 1] + Taken(val, at[i - 1], asked(i, after[i - 1]))
             /\ at[i - 1] <= at[i]
             /\ after[i].fields = Append(after[i - 1].fields, piece[i])
  <2> DEFINE before == after[i - 1]
             k == asked(i, before)
  <2>1. after[i] = Get(val, before, k) /\ k \in Int
    BY AfterStep
  <2>2. /\ before \in ReadFields(val, i - 1) /\ before.offset = at[i - 1]
        /\ at[i - 1] \in 0 .. Len(val) /\ i - 1 \in Nat
    BY <1>1, <1>3
  <2>3. after[i].offset = at[i] /\ piece[i] = SubSeq(val, at[i - 1] + 1, at[i])
    <3> HIDE DEF after
    <3>1. i \in 0 .. n
      BY <1>1
    <3>2. after[i].offset = at[i]
      BY <3>1
    <3> HIDE DEF at
    <3> QED
      BY <3>2
  <2> HIDE DEF after, at, piece, before, k
  <2>4. /\ after[i].offset = before.offset + Taken(val, before.offset, k)
        /\ after[i].fields =
             Append(before.fields, SubSeq(val, before.offset + 1, after[i].offset))
    BY <2>1, <2>2, GetMoves
  <2>5. at[i] = at[i - 1] + Taken(val, at[i - 1], k)
    BY <2>2, <2>3, <2>4
  <2>6. at[i - 1] <= at[i]
    BY <1>1, <2>1, <2>2, <2>5 DEF Taken
  <2>7. after[i].fields = Append(before.fields, piece[i])
    BY <2>2, <2>3, <2>4
  <2> QED
    BY <2>1, <2>5, <2>6, <2>7 DEF before, k
<1> HIDE DEF after, n
<1>5. \A i \in 0 .. n : \A k \in 1 .. i : after[i].fields[k] = piece[k]
  <2> DEFINE T == {i \in 0 .. n : \A k \in 1 .. i : after[i].fields[k] = piece[k]}
  <2> HIDE DEF at, piece
  <2>1. 0 \in T
    BY <1>1
  <2>2. ASSUME NEW i \in 1 .. n, i - 1 \in T PROVE i \in T
    <3>1. i \in 0 .. n /\ i - 1 \in 0 .. n
      BY <1>1
    <3>2. /\ after[i - 1].fields \in Seq(Seq(ByteValues))
          /\ Len(after[i - 1].fields) = i - 1
      BY <1>3, <3>1
    <3>3. after[i].fields = Append(after[i - 1].fields, piece[i])
      BY <1>4
    <3>4. ASSUME NEW k \in 1 .. i PROVE after[i].fields[k] = piece[k]
      <4>1. CASE k = i
        BY <3>2, <3>3, <4>1
      <4>2. CASE k # i
        <5>1. k \in 1 .. i - 1
          BY <1>1, <4>2
        <5>2. after[i].fields[k] = after[i - 1].fields[k]
          BY <3>2, <3>3, <5>1
        <5> QED
          BY <2>2, <5>1, <5>2
      <4> QED
        BY <4>1, <4>2
    <3> QED
      BY <3>1, <3>4
  <2> HIDE DEF T
  <2>3. \A i \in 0 .. n : i \in T
    BY <1>1, <2>1, <2>2, Induction
  <2> QED
    BY <2>3 DEF T
<1>6. n \in 0 .. n /\ \A i \in 1 .. n : i \in 0 .. n
  BY <1>1
<1>7. ASSUME NEW i \in 1 .. n PROVE asked(i, after[i - 1]) = asked(i, after[n])
  <2>1. format[i] \in Getters /\ (format[i].len = "said" => format[i].n \in 1 .. i - 1)
    BY DEF WellFormed, n
  <2>2. CASE format[i].len = "fixed"
    BY <2>2 DEF Asked
  <2>3. CASE format[i].len = "behind"
    BY <2>3 DEF Asked
  <2>4. CASE format[i].len = "said"
    <3> DEFINE k == format[i].n
    <3>1. k \in 1 .. i - 1 /\ k \in 1 .. n /\ i - 1 \in 0 .. n
      BY <1>1, <2>1, <2>4
    <3> HIDE DEF k, piece
    <3>2. after[i - 1].fields[k] = piece[k] /\ after[n].fields[k] = piece[k]
      BY <1>5, <1>6, <3>1
    <3>3. \A read : asked(i, read) = FromBytes(read.fields[k])
      BY <2>4 DEF Asked, k
    <3> QED
      BY <3>2, <3>3
  <2> QED
    BY <2>1, <2>2, <2>3, <2>4 DEF Getters
<1>8. \A i \in 0 .. n : Place(format, val, i) = at[i]
  BY DEF Place, after
<1>9. Parse(format, val) = after[n] /\ Fields(format, val) = after[n].fields
  BY DEF Parse, Fields, after, n
<1>10. at[0] = 0
  BY <1>1, <1>2
<1>11. /\ Fields(format, val) \in Seq(Seq(ByteValues)) /\ Len(Fields(format, val)) = n
       /\ Parse(format, val).offset = at[n]
  BY <1>3, <1>6, <1>9
<1>12. ASSUME NEW i \in 1 .. n
       PROVE  /\ asked(i, Parse(format, val)) \in Int
              /\ at[i] = at[i - 1] + Taken(val, at[i - 1], asked(i, Parse(format, val)))
              /\ at[i - 1] <= at[i]
              /\ Fields(format, val)[i] = SubSeq(val, at[i - 1] + 1, at[i])
  <2>1. Fields(format, val)[i] = piece[i]
    <3> HIDE DEF piece
    <3> QED
      BY <1>5, <1>6, <1>9
  <2>2. piece[i] = SubSeq(val, at[i - 1] + 1, at[i])
    OBVIOUS
  <2> HIDE DEF piece, at
  <2> QED
    BY <1>4, <1>7, <1>9, <2>1, <2>2
<1>13. \A i \in 0 .. n : at[i] \in 0 .. Len(val)
  BY <1>3
<1> HIDE DEF at
<1>14. /\ Place(format, val, 0) = 0 /\ Parse(format, val).offset = Place(format, val, n)
       /\ \A i \in 0 .. n : Place(format, val, i) \in 0 .. Len(val)
  <2>1. 0 \in 0 .. n
    BY <1>1
  <2> QED
    BY <1>6, <1>8, <1>10, <1>11, <1>13, <2>1
<1>15. ASSUME NEW i \in 1 .. n
       PROVE  /\ Place(format, val, i) =
                   Place(format, val, i - 1)
                     + Taken(val, Place(format, val, i - 1), asked(i, Parse(format, val)))
              /\ Place(format, val, i - 1) <= Place(format, val, i)
              /\ Fields(format, val)[i] =
                   SubSeq(val, Place(format, val, i - 1) + 1, Place(format, val, i))
  <2>1. Place(format, val, i) = at[i] /\ Place(format, val, i - 1) = at[i - 1]
    BY <1>1, <1>6, <1>8
  <2> QED
    BY <1>12, <2>1
<1> QED
  BY <1>11, <1>12, <1>14, <1>15 DEF n

-----------------------------------------------------------------------------
(* The formats of wmpctrl.c                                                *)

LEMMA FormatsWellFormed ==
  /\ WellFormed(NumberFormat) /\ Len(NumberFormat) = 1
  /\ WellFormed(SecKeyFormat) /\ Len(SecKeyFormat) = 2
  /\ WellFormed(BoardFormat) /\ Len(BoardFormat) = 3
  /\ WellFormed(WifiFormat) /\ Len(WifiFormat) = 12
<1>1. /\ U8 \in Getters /\ U16 \in Getters /\ U32 \in Getters /\ Behind(Word) \in Getters
      /\ SaidBy(5) \in Getters /\ SaidBy(10) \in Getters
      /\ \A g \in {U8, U16, U32, Behind(Word)} : g.len # "said"
      /\ SaidBy(5).n = 5 /\ SaidBy(10).n = 10
  BY WordAssumption DEF U8, U16, U32, Fixed, Behind, SaidBy, Getters
<1>2. WellFormed(NumberFormat) /\ Len(NumberFormat) = 1
  BY <1>1 DEF WellFormed, NumberFormat
<1>3. WellFormed(SecKeyFormat) /\ Len(SecKeyFormat) = 2
  BY <1>1 DEF WellFormed, SecKeyFormat
<1>4. WellFormed(BoardFormat) /\ Len(BoardFormat) = 3
  BY <1>1 DEF WellFormed, BoardFormat
<1>5. WellFormed(WifiFormat) /\ Len(WifiFormat) = 12
  <2>1. WifiFormat \in Seq(Getters) /\ Len(WifiFormat) = 12
    BY <1>1 DEF WifiFormat
  <2>2. ASSUME NEW i \in 1 .. 12, WifiFormat[i].len = "said"
        PROVE  WifiFormat[i].n \in 1 .. i - 1
    <3>1. i = 11 \/ i = 12
      BY <1>1, <2>2 DEF WifiFormat
    <3> QED
      BY <1>1, <3>1 DEF WifiFormat
  <2>3. DOMAIN WifiFormat = 1 .. 12
    BY <2>1
  <2> QED
    BY <2>1, <2>2, <2>3 DEF WellFormed
<1> QED
  BY <1>2, <1>3, <1>4, <1>5

(* A getter of a fixed length has its bytes, where that many are left.     *)
LEMMA FixedMoves ==
  ASSUME NEW format, WellFormed(format), NEW val \in Seq(ByteValues),
         NEW i \in 1 .. Len(format), NEW n \in Nat, n >= 1, format[i] = Fixed(n),
         Place(format, val, i - 1) + n <= Len(val)
  PROVE  Place(format, val, i) = Place(format, val, i - 1) + n
<1>1. Asked(format[i], val, Parse(format, val)) = n
  BY DEF Asked, Fixed
<1>2. /\ Place(format, val, i) =
           Place(format, val, i - 1)
             + Taken(val, Place(format, val, i - 1), Asked(format[i], val, Parse(format, val)))
  BY Reading
<1> QED
  BY <1>1, <1>2 DEF Taken

(* A WIFICFG that is long enough has its ten numbers.                      *)
LEMMA WifiNumbers ==
  ASSUME NEW val \in Seq(ByteValues), Len(val) >= WifiHead
  PROVE  /\ Place(WifiFormat, val, 10) = WifiHead
         /\ FromBytes(Fields(WifiFormat, val)[10]) = val[WifiHead]
<1> DEFINE at(i) == Place(WifiFormat, val, i)
<1>1. Half \in Nat /\ Half > 0 /\ Len(val) \in Nat
  BY WordAssumption
<1>2. Len(val) >= 8 + 2 * Half
  BY DEF WifiHead
<1>3. /\ \A i \in {1, 2, 3, 4, 5, 6, 9, 10} : WifiFormat[i] = Fixed(1)
      /\ \A i \in {7, 8} : WifiFormat[i] = Fixed(Half)
  BY DEF WifiFormat, U8, U16
<1>4. ASSUME NEW i \in {1, 2, 3, 4, 5, 6, 9, 10}, at(i - 1) + 1 <= Len(val)
      PROVE  at(i) = at(i - 1) + 1
  <2>1. i \in 1 .. Len(WifiFormat) /\ WifiFormat[i] = Fixed(1)
    BY <1>3, FormatsWellFormed
  <2>2. 1 \in Nat /\ 1 >= 1 /\ WellFormed(WifiFormat)
    BY FormatsWellFormed
  <2> QED
    BY <1>4, <2>1, <2>2, FixedMoves
<1>5. ASSUME NEW i \in {7, 8}, at(i - 1) + Half <= Len(val)
      PROVE  at(i) = at(i - 1) + Half
  <2>1. i \in 1 .. Len(WifiFormat) /\ WifiFormat[i] = Fixed(Half)
    BY <1>3, FormatsWellFormed
  <2>2. Half \in Nat /\ Half >= 1 /\ WellFormed(WifiFormat)
    BY <1>1, FormatsWellFormed
  <2> QED
    BY <1>5, <2>1, <2>2, FixedMoves
<1>6. at(0) = 0
  BY Reading, FormatsWellFormed
<1> HIDE DEF at
<1>7. at(6) = 6
  <2>1. at(1) = 1
    BY <1>1, <1>2, <1>4, <1>6
  <2>2. at(2) = 2
    BY <1>1, <1>2, <1>4, <2>1
  <2>3. at(3) = 3
    BY <1>1, <1>2, <1>4, <2>2
  <2>4. at(4) = 4
    BY <1>1, <1>2, <1>4, <2>3
  <2>5. at(5) = 5
    BY <1>1, <1>2, <1>4, <2>4
  <2> QED
    BY <1>1, <1>2, <1>4, <2>5
<1>8. at(8) = 6 + 2 * Half
  <2>1. at(7) = 6 + Half
    BY <1>1, <1>2, <1>5, <1>7
  <2> QED
    BY <1>1, <1>2, <1>5, <2>1
<1>9. at(9) = 7 + 2 * Half
  BY <1>1, <1>2, <1>4, <1>8
<1>10. at(10) = 8 + 2 * Half
  BY <1>1, <1>2, <1>4, <1>9
<1>11. Fields(WifiFormat, val)[10] = SubSeq(val, 8 + 2 * Half, 8 + 2 * Half)
  <2>1. 10 \in 1 .. Len(WifiFormat) /\ 10 - 1 = 9 /\ 7 + 2 * Half + 1 = 8 + 2 * Half
    BY <1>1, FormatsWellFormed
  <2>2. Fields(WifiFormat, val)[10] = SubSeq(val, at(10 - 1) + 1, at(10))
    BY <2>1, Reading, FormatsWellFormed DEF at
  <2> QED
    BY <1>9, <1>10, <2>1, <2>2
<1>12. FromBytes(Fields(WifiFormat, val)[10]) = val[8 + 2 * Half]
  <2> DEFINE h == 8 + 2 * Half
             s == SubSeq(val, h, h)
  <2>1. h \in 1 .. Len(val) /\ val[h] \in ByteValues
    BY <1>1, <1>2, ElementOfSeq
  <2> HIDE DEF h
  <2>2. s \in Seq(ByteValues) /\ Len(s) = 1 /\ s[1] = val[h]
    BY <2>1
  <2> HIDE DEF s
  <2>3. Read(s)[1] = Read(s)[1 - 1] * Base + s[1] /\ Read(s)[0] = 0
    <3>1. 1 \in 1 .. Len(s)
      BY <2>2
    <3> QED
      BY <2>2, <3>1, ReadStep
  <2>4. FromBytes(s) = val[h]
    BY <2>1, <2>2, <2>3, BaseAssumption DEF FromBytes, ByteValues
  <2> QED
    BY <1>11, <2>4 DEF h, s
<1> QED
  BY <1>10, <1>12 DEF at, WifiHead

(* What is behind them is its name and its key, each as long as its length *)
(* field says or missing.                                                  *)
LEMMA WifiRest ==
  ASSUME NEW val \in Seq(ByteValues), Len(val) >= WifiHead
  PROVE  LET f == Fields(WifiFormat, val)
             rest == Len(val) - WifiHead
             ssidlen == IF FromBytes(f[10]) <= rest THEN FromBytes(f[10]) ELSE 0
             keylen == IF FromBytes(f[5]) <= rest - ssidlen THEN FromBytes(f[5]) ELSE 0
         IN  Accepts(WifiFormat, val) <=> ssidlen + keylen = rest
<1> DEFINE f == Fields(WifiFormat, val)
           at(i) == Place(WifiFormat, val, i)
           n == FromBytes(f[10])
           k == FromBytes(f[5])
<1>1. WellFormed(WifiFormat) /\ Len(WifiFormat) = 12
  BY FormatsWellFormed
<1>2. n \in Nat /\ k \in Nat
  <2>1. f \in Seq(Seq(ByteValues)) /\ Len(f) = 12
    BY <1>1, Reading
  <2>2. f[10] \in Seq(ByteValues) /\ f[5] \in Seq(ByteValues)
    <3> HIDE DEF f
    <3>1. 10 \in 1 .. Len(f) /\ 5 \in 1 .. Len(f)
      BY <2>1
    <3> QED
      BY <2>1, <3>1, ElementOfSeq
  <2> QED
    BY <2>2, NumberNat
<1>3. /\ WifiFormat[11] = SaidBy(10) /\ WifiFormat[12] = SaidBy(5)
  BY DEF WifiFormat
<1>4. /\ Asked(WifiFormat[11], val, Parse(WifiFormat, val)) = n
      /\ Asked(WifiFormat[12], val, Parse(WifiFormat, val)) = k
  BY <1>3 DEF Asked, SaidBy, Fields
<1>5. at(11) = at(10) + Taken(val, at(10), n) /\ at(12) = at(11) + Taken(val, at(11), k)
  <2>1. 11 \in 1 .. Len(WifiFormat) /\ 12 \in 1 .. Len(WifiFormat)
    BY <1>1
  <2>2. /\ at(11) = at(11 - 1)
             + Taken(val, at(11 - 1), Asked(WifiFormat[11], val, Parse(WifiFormat, val)))
        /\ at(12) = at(12 - 1)
             + Taken(val, at(12 - 1), Asked(WifiFormat[12], val, Parse(WifiFormat, val)))
    BY <1>1, <2>1, Reading
  <2> QED
    BY <1>4, <2>2
<1>6. at(10) = WifiHead /\ WifiHead \in Nat
  BY WifiNumbers, WordAssumption DEF WifiHead
<1>7. Accepts(WifiFormat, val) <=> at(12) = Len(val)
  BY <1>1, Reading DEF Accepts
<1> DEFINE rest == Len(val) - WifiHead
           ssidlen == IF n <= rest THEN n ELSE 0
           keylen == IF k <= rest - ssidlen THEN k ELSE 0
<1> HIDE DEF n, k, at, f
<1>8. Len(val) \in Nat /\ rest \in Nat
  BY <1>6
<1>9. at(11) = WifiHead + ssidlen /\ ssidlen \in Nat
  BY <1>2, <1>5, <1>6, <1>8 DEF Taken
<1>10. at(12) = WifiHead + ssidlen + keylen /\ keylen \in Nat
  <2> HIDE DEF ssidlen
  <2> QED
    BY <1>2, <1>5, <1>6, <1>8, <1>9 DEF Taken
<1>11. at(12) = Len(val) <=> ssidlen + keylen = rest
  <2> HIDE DEF ssidlen, keylen
  <2> QED
    BY <1>6, <1>8, <1>9, <1>10
<1> QED
  BY <1>7, <1>11 DEF n, k, f

-----------------------------------------------------------------------------
(* What is packed is unpacked                                              *)

LEMMA Concat ==
  \A a, b \in Seq(ByteValues) :
    /\ a \o b \in Seq(ByteValues) /\ Len(a \o b) = Len(a) + Len(b)
    /\ \A i \in 1 .. Len(a) : (a \o b)[i] = a[i]
    /\ \A i \in 1 .. Len(b) : (a \o b)[Len(a) + i] = b[i]
<1> TAKE a, b \in Seq(ByteValues)
<1> QED
  BY ConcatProperties

LEMMA ConcatThree ==
  \A a, b, c \in Seq(ByteValues) : a \o (b \o c) = (a \o b) \o c
<1> TAKE a, b, c \in Seq(ByteValues)
<1>1. (a \o b) \o c = a \o (b \o c)
  BY ONLY ConcatAssociative, a \in Seq(ByteValues), b \in Seq(ByteValues),
          c \in Seq(ByteValues), SMTT(30)
<1> QED
  BY <1>1, Zenon

LEMMA PutFits ==
  ASSUME NEW val \in Seq(ByteValues), NEW bytes \in Seq(ByteValues),
         Len(val) + Len(bytes) <= AttrCap
  PROVE  /\ Put(val, bytes) = val \o bytes
         /\ val \o bytes \in Seq(ByteValues) /\ Len(val \o bytes) = Len(val) + Len(bytes)
<1>1. val \o bytes \in Seq(ByteValues) /\ Len(val \o bytes) = Len(val) + Len(bytes)
  BY ConcatProperties
<1>2. bytes = <<>> => val = val \o bytes
  BY ConcatEmptySeq
<1> QED
  BY <1>1, <1>2, AttrCapAssumption DEF Put

LEMMA PutFirst ==
  ASSUME NEW bytes \in Seq(ByteValues), Len(bytes) <= AttrCap
  PROVE  Put(<<>>, bytes) = bytes
<1>1. <<>> \in Seq(ByteValues) /\ Len(<<>>) + Len(bytes) <= AttrCap
  OBVIOUS
<1>2. <<>> \o bytes = bytes
  BY ConcatEmptySeq
<1>3. Put(<<>>, bytes) = <<>> \o bytes
  BY <1>1, PutFits
<1> QED
  BY <1>2, <1>3

(* A part of a value.                                                      *)
LEMMA Middle ==
  ASSUME NEW a \in Seq(ByteValues), NEW b \in Seq(ByteValues), NEW c \in Seq(ByteValues)
  PROVE  SubSeq((a \o b) \o c, Len(a) + 1, Len(a) + Len(b)) = b
<1> DEFINE s == (a \o b) \o c
           m == Len(a) + 1
           n == Len(a) + Len(b)
<1>1. a \o b \in Seq(ByteValues) /\ Len(a \o b) = Len(a) + Len(b)
  BY Concat
<1>2. \A i \in 1 .. n : s[i] = (a \o b)[i]
  <2> DEFINE d == a \o b
  <2> HIDE DEF d
  <2>1. d \in Seq(ByteValues) /\ Len(d) = n
    BY <1>1 DEF d
  <2>2. \A i \in 1 .. Len(d) : (d \o c)[i] = d[i]
    BY <2>1, Concat
  <2> QED
    BY <2>1, <2>2 DEF d
<1>3. \A i \in 1 .. Len(b) : (a \o b)[Len(a) + i] = b[i]
  BY Concat
<1>4. \A i \in m .. n : s[i] \in ByteValues
  BY <1>1, <1>2
<1> HIDE DEF s
<1>5. /\ SubSeq(s, m, n) \in Seq(ByteValues)
      /\ Len(SubSeq(s, m, n)) = IF m <= n THEN n - m + 1 ELSE 0
      /\ \A i \in 1 .. n - m + 1 : SubSeq(s, m, n)[i] = s[m + i - 1]
  BY <1>4, SubSeqProperties
<1>6. Len(SubSeq(s, m, n)) = Len(b)
  BY <1>5
<1>7. ASSUME NEW i \in 1 .. Len(b) PROVE SubSeq(s, m, n)[i] = b[i]
  <2>1. SubSeq(s, m, n)[i] = s[m + i - 1] /\ m + i - 1 = Len(a) + i
    BY <1>5
  <2>2. s[Len(a) + i] = (a \o b)[Len(a) + i]
    BY <1>2
  <2> QED
    BY <1>3, <2>1, <2>2
<1> QED
  BY <1>5, <1>6, <1>7, SeqEqual DEF s

(* attrs of one number                                                     *)
LEMMA NumberUnpacks ==
  ASSUME NEW n \in Numbers(Word), Word <= AttrCap
  PROVE  /\ PackNumber(n) \in Seq(ByteValues)
         /\ FromBytes(Fields(NumberFormat, PackNumber(n))[1]) = n
<1> DEFINE val == ToBytes(n, Word)
<1>1. Word \in Nat /\ Word >= 1
  BY WordAssumption
<1>2. val \in Seq(ByteValues) /\ Len(val) = Word /\ FromBytes(val) = n
  BY <1>1, BytesOfNumber
<1> HIDE DEF val
<1>3. PackNumber(n) = val
  <2>1. Put(<<>>, val) = val
    BY <1>2, PutFirst
  <2> QED
    BY <2>1 DEF PackNumber, val
<1>4. WellFormed(NumberFormat) /\ Len(NumberFormat) = 1 /\ 1 \in 1 .. Len(NumberFormat)
  BY FormatsWellFormed
<1>5. NumberFormat[1] = Fixed(Word)
  BY DEF NumberFormat, U32
<1>6. Place(NumberFormat, val, 0) = 0
  BY <1>2, <1>4, Reading
<1>7. Place(NumberFormat, val, 1) = Word
  <2>1. Place(NumberFormat, val, 1 - 1) + Word <= Len(val)
    BY <1>1, <1>2, <1>6
  <2>2. Place(NumberFormat, val, 1) = Place(NumberFormat, val, 1 - 1) + Word
    BY <1>1, <1>2, <1>4, <1>5, <2>1, FixedMoves
  <2> QED
    BY <1>1, <1>6, <2>2
<1>8. Fields(NumberFormat, val)[1]
        = SubSeq(val, Place(NumberFormat, val, 1 - 1) + 1, Place(NumberFormat, val, 1))
  BY <1>2, <1>4, Reading
<1>9. Fields(NumberFormat, val)[1] = val
  BY <1>2, <1>6, <1>7, <1>8, SubSeqFull
<1> QED
  BY <1>2, <1>3, <1>9

(* The last getter asks for all that is left: it has it, or leaves its     *)
(* field empty where nothing is.                                           *)
LEMMA RestMoves ==
  ASSUME NEW format, WellFormed(format), NEW val \in Seq(ByteValues),
         NEW i \in 1 .. Len(format), format[i] = Behind(Place(format, val, i - 1))
  PROVE  Place(format, val, i) = Len(val)
<1> DEFINE from == Place(format, val, i - 1)
<1>1. i - 1 \in 0 .. Len(format)
  BY DEF WellFormed
<1>2. from \in 0 .. Len(val) /\ Len(val) \in Nat
  <2>1. Len(val) \in Nat
    OBVIOUS
  <2>2. \A k \in 0 .. Len(format) : Place(format, val, k) \in 0 .. Len(val)
    BY Reading
  <2> QED
    BY <1>1, <2>1, <2>2
<1>3. Asked(format[i], val, Parse(format, val)) = Len(val) - from
  BY DEF Asked, Behind
<1>4. Place(format, val, i)
        = from + Taken(val, from, Asked(format[i], val, Parse(format, val)))
  BY Reading
<1> HIDE DEF from
<1> QED
  BY <1>2, <1>3, <1>4 DEF Taken

(* attrSecKey: a number and the key behind it                              *)
LEMMA SecKeyUnpacks ==
  ASSUME NEW n \in Numbers(Word), NEW key \in Texts(Word), Word <= AttrCap
  PROVE  LET val == PackSecKey(n, key)
             f == Fields(SecKeyFormat, val)
         IN  val \in Seq(ByteValues) /\ FromBytes(f[1]) = n /\ f[2] = key
<1> DEFINE num == ToBytes(n, Word)
           val == (<<>> \o num) \o key
           at(i) == Place(SecKeyFormat, val, i)
<1>1. Word \in Nat /\ Word >= 1
  BY WordAssumption
<1>2. num \in Seq(ByteValues) /\ Len(num) = Word /\ FromBytes(num) = n
  BY <1>1, BytesOfNumber
<1>3. key \in Seq(ByteValues) /\ Word + Len(key) <= AttrCap /\ Len(key) \in Nat
  BY <1>1, AttrCapAssumption DEF Texts
<1> HIDE DEF num
<1>4. <<>> \in Seq(ByteValues) /\ Len(<<>>) = 0
  OBVIOUS
<1>5. <<>> \o num = num
  BY <1>2, ConcatEmptySeq
<1>6. val \in Seq(ByteValues) /\ Len(val) = Word + Len(key) /\ PackSecKey(n, key) = val
  <2>1. Put(<<>>, num) = num
    BY <1>2, PutFirst
  <2>2. /\ Put(num, key) = num \o key
        /\ num \o key \in Seq(ByteValues) /\ Len(num \o key) = Word + Len(key)
    BY <1>2, <1>3, PutFits
  <2> QED
    BY <1>5, <2>1, <2>2 DEF PackSecKey, num
<1>7. SubSeq(val, 1, Word) = num /\ SubSeq(val, Word + 1, Word + Len(key)) = key
  <2>1. SubSeq((<<>> \o num) \o key, Len(<<>>) + 1, Len(<<>>) + Len(num)) = num
    BY <1>2, <1>3, <1>4, Middle
  <2>2. SubSeq((num \o key) \o <<>>, Len(num) + 1, Len(num) + Len(key)) = key
    BY <1>2, <1>3, <1>4, Middle
  <2>3. (num \o key) \o <<>> = num \o key
    <3>1. num \o key \in Seq(ByteValues)
      BY <1>2, <1>3, Concat
    <3> QED
      BY <3>1, ConcatEmptySeq
  <2>4. 0 + 1 = 1 /\ 0 + Word = Word
    BY <1>1
  <2> QED
    BY <1>2, <1>4, <1>5, <2>1, <2>2, <2>3, <2>4
<1> HIDE DEF val
<1>8. WellFormed(SecKeyFormat) /\ Len(SecKeyFormat) = 2
  BY FormatsWellFormed
<1>9. 1 \in 1 .. Len(SecKeyFormat) /\ 2 \in 1 .. Len(SecKeyFormat)
  BY <1>8
<1>10. SecKeyFormat[1] = Fixed(Word) /\ SecKeyFormat[2] = Behind(Word)
  BY DEF SecKeyFormat, U32
<1>11. at(1 - 1) = 0
  BY <1>6, <1>8, Reading
<1>12. at(1) = Word
  <2>1. at(1) = at(1 - 1) + Word
    BY <1>1, <1>3, <1>6, <1>8, <1>9, <1>10, <1>11, FixedMoves
  <2> QED
    BY <1>1, <1>11, <2>1
<1>13. at(2) = Len(val)
  <2>1. SecKeyFormat[2] = Behind(at(2 - 1))
    BY <1>10, <1>12
  <2> QED
    BY <1>6, <1>8, <1>9, <2>1, RestMoves
<1>14. /\ Fields(SecKeyFormat, val)[1] = SubSeq(val, at(1 - 1) + 1, at(1))
       /\ Fields(SecKeyFormat, val)[2] = SubSeq(val, at(2 - 1) + 1, at(2))
  BY <1>6, <1>8, <1>9, Reading
<1>15. Fields(SecKeyFormat, val)[1] = num /\ Fields(SecKeyFormat, val)[2] = key
  <2>1. 2 - 1 = 1 /\ 0 + 1 = 1
    OBVIOUS
  <2> HIDE DEF at
  <2> QED
    BY <1>6, <1>7, <1>11, <1>12, <1>13, <1>14, <2>1
<1> QED
  BY <1>2, <1>6, <1>15

(* attrBoard: two numbers and the name behind them                         *)
LEMMA BoardUnpacks ==
  ASSUME NEW major \in Numbers(Half), NEW minor \in Numbers(Half),
         NEW name \in Texts(2 * Half), Word <= AttrCap
  PROVE  LET val == PackBoard(major, minor, name)
             f == Fields(BoardFormat, val)
         IN  /\ val \in Seq(ByteValues)
             /\ FromBytes(f[1]) = major /\ FromBytes(f[2]) = minor /\ f[3] = name
<1> DEFINE one == ToBytes(major, Half)
           two == ToBytes(minor, Half)
           val == (one \o two) \o name
           at(i) == Place(BoardFormat, val, i)
<1>1. Half \in Nat /\ Half >= 1 /\ Word = 2 * Half /\ Word = Half + Half /\ 2 * Half <= AttrCap
  BY WordAssumption
<1>2. /\ one \in Seq(ByteValues) /\ Len(one) = Half /\ FromBytes(one) = major
      /\ two \in Seq(ByteValues) /\ Len(two) = Half /\ FromBytes(two) = minor
  BY <1>1, BytesOfNumber
<1>3. name \in Seq(ByteValues) /\ Word + Len(name) <= AttrCap /\ Len(name) \in Nat
  BY <1>1, AttrCapAssumption DEF Texts
<1> HIDE DEF one, two
<1>4. <<>> \in Seq(ByteValues) /\ Len(<<>>) = 0 /\ <<>> \o one = one
  BY <1>2, ConcatEmptySeq
<1>5. one \o two \in Seq(ByteValues) /\ Len(one \o two) = Word
  BY <1>1, <1>2, Concat
<1>6. val \in Seq(ByteValues) /\ Len(val) = Word + Len(name) /\ PackBoard(major, minor, name) = val
  <2>1. Put(<<>>, one) = one
    BY <1>1, <1>2, PutFirst, AttrCapAssumption
  <2>2. Put(one, two) = one \o two
    BY <1>1, <1>2, PutFits
  <2>3. /\ Put(one \o two, name) = val
        /\ val \in Seq(ByteValues) /\ Len(val) = Word + Len(name)
    BY <1>3, <1>5, PutFits
  <2> HIDE DEF val
  <2> QED
    BY <2>1, <2>2, <2>3 DEF PackBoard, one, two
<1>7. /\ SubSeq(val, 1, Half) = one /\ SubSeq(val, Half + 1, Word) = two
      /\ SubSeq(val, Word + 1, Word + Len(name)) = name
  <2>1. SubSeq((one \o two) \o name, Len(one) + 1, Len(one) + Len(two)) = two
    BY <1>2, <1>3, Middle
  <2>2. SubSeq((<<>> \o one) \o (two \o name), Len(<<>>) + 1, Len(<<>>) + Len(one)) = one
    <3>1. two \o name \in Seq(ByteValues)
      BY <1>2, <1>3, Concat
    <3> QED
      BY <1>2, <1>4, <3>1, Middle
  <2>3. one \o (two \o name) = val
    BY <1>2, <1>3, ConcatThree
  <2>4. SubSeq(((one \o two) \o name) \o <<>>, Word + 1, Word + Len(name)) = name
    BY <1>3, <1>4, <1>5, Middle
  <2>5. ((one \o two) \o name) \o <<>> = (one \o two) \o name
    BY <1>6, ConcatEmptySeq
  <2>6. 0 + 1 = 1 /\ 0 + Half = Half
    BY <1>1
  <2> QED
    BY <1>1, <1>2, <1>4, <2>1, <2>2, <2>3, <2>4, <2>5, <2>6
<1> HIDE DEF val
<1>8. WellFormed(BoardFormat) /\ Len(BoardFormat) = 3
  BY FormatsWellFormed
<1>9. /\ 1 \in 1 .. Len(BoardFormat) /\ 2 \in 1 .. Len(BoardFormat)
      /\ 3 \in 1 .. Len(BoardFormat)
  BY <1>8
<1>10. /\ BoardFormat[1] = Fixed(Half) /\ BoardFormat[2] = Fixed(Half)
       /\ BoardFormat[3] = Behind(Word)
  BY DEF BoardFormat, U16
<1>11. at(1 - 1) = 0
  BY <1>6, <1>8, Reading
<1>12. at(1) = Half
  <2>1. at(1 - 1) + Half <= Len(val)
    BY <1>1, <1>3, <1>6, <1>11
  <2>2. at(1) = at(1 - 1) + Half
    BY <1>1, <1>6, <1>8, <1>9, <1>10, <2>1, FixedMoves
  <2> QED
    BY <1>1, <1>11, <2>2
<1>13. at(2) = Word
  <2>1. at(2 - 1) = Half
    BY <1>12
  <2>2. at(2 - 1) + Half <= Len(val)
    BY <1>1, <1>3, <1>6, <2>1
  <2>3. at(2) = at(2 - 1) + Half
    BY <1>1, <1>6, <1>8, <1>9, <1>10, <2>2, FixedMoves
  <2> QED
    BY <1>1, <2>1, <2>3
<1>14. at(3) = Len(val)
  <2>1. BoardFormat[3] = Behind(at(3 - 1))
    BY <1>10, <1>13
  <2> QED
    BY <1>6, <1>8, <1>9, <2>1, RestMoves
<1>15. /\ Fields(BoardFormat, val)[1] = SubSeq(val, at(1 - 1) + 1, at(1))
       /\ Fields(BoardFormat, val)[2] = SubSeq(val, at(2 - 1) + 1, at(2))
       /\ Fields(BoardFormat, val)[3] = SubSeq(val, at(3 - 1) + 1, at(3))
  BY <1>6, <1>8, <1>9, Reading
<1>16. /\ Fields(BoardFormat, val)[1] = one /\ Fields(BoardFormat, val)[2] = two
       /\ Fields(BoardFormat, val)[3] = name
  <2>1. 2 - 1 = 1 /\ 3 - 1 = 2 /\ 0 + 1 = 1
    OBVIOUS
  <2> HIDE DEF at
  <2> QED
    BY <1>6, <1>7, <1>11, <1>12, <1>13, <1>14, <1>15, <2>1
<1> QED
  BY <1>2, <1>6, <1>16
=============================================================================
