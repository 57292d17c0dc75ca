------------------------------- MODULE WmpAttr -------------------------------
(***************************************************************************)
(* The values of attributes: the BUFF of buff.c and the Pack and Parse     *)
(* functions of wmpctrl.c.  A Parse function calls one getter per field,   *)
(* ignores which of them failed, and accepts when the getters together     *)
(* have moved to the end; so a format is the sequence of its getters.      *)
(* A field is the bytes its getter stored, none when it failed.            *)
(***************************************************************************)
EXTENDS Integers, Sequences, SequencesExt

CONSTANTS
  Base,     \* the number of values of a byte (256 in the code)
  AttrCap,  \* BUFF_SIZE, the longest value of an attribute (1024)
  Half,     \* sizeof(uint16_t) (2)
  Word      \* sizeof(uint32_t) (4)

ByteValues == 0 .. Base - 1

ASSUME BaseAssumption == Base \in Nat /\ Base >= 2
ASSUME AttrCapAssumption == AttrCap \in Nat
ASSUME WordAssumption == Half \in Nat /\ Half > 0 /\ Word = 2 * Half

-----------------------------------------------------------------------------
(* Numbers, most significant byte first                                    *)

Shifted(n, len) ==
  LET left[i \in 0 .. len] == IF i = 0 THEN n ELSE left[i - 1] \div Base
  IN  left
ToBytes(n, len) == [i \in 1 .. len |-> Shifted(n, len)[len - i] % Base]

Read(s) ==
  LET read[i \in 0 .. Len(s)] == IF i = 0 THEN 0 ELSE read[i - 1] * Base + s[i]
  IN  read
FromBytes(s) == Read(s)[Len(s)]

(* The values of an unsigned integer of that many bytes.                   *)
Numbers(len) == {FromBytes(s) : s \in [1 .. len -> ByteValues]}

(* A key or a name: its array is shorter than a BUFF, by more than the room *)
(* of the numbers in front of it.                                          *)
Texts(room) == {s \in Seq(ByteValues) : Len(s) <= AttrCap - room}

-----------------------------------------------------------------------------
(* buffRawPut, whose result the Pack functions ignore                      *)

Put(val, bytes) ==
  IF bytes = <<>> \/ Len(val) + Len(bytes) > AttrCap THEN val ELSE val \o bytes

PackNumber(n) == Put(<<>>, ToBytes(n, Word))
PackBoard_Swapped(major, minor, name) ==
  Put(Put(Put(<<>>, ToBytes(minor, Half)), ToBytes(major, Half)), name)
PackBoard(major, minor, name) ==
  Put(Put(Put(<<>>, ToBytes(major, Half)), ToBytes(minor, Half)), name)
PackSecKey(keylen, key) == Put(Put(<<>>, ToBytes(keylen, Word)), key)

-----------------------------------------------------------------------------
(* buffRawGet and the formats                                              *)

(* The length a getter asks for is fixed, or what the value has behind its *)
(* first n bytes, or what an earlier field says, 0 if there is none.       *)
Fixed(n) == [len |-> "fixed", n |-> n]
Behind(n) == [len |-> "behind", n |-> n]
SaidBy(i) == [len |-> "said", n |-> i]

U8 == Fixed(1)
U16 == Fixed(Half)
U32 == Fixed(Word)

NumberFormat == <<U32>>
SecKeyFormat == <<U32, Behind(Word)>>
BoardFormat == <<U16, U16, Behind(Word)>>
WifiFormat_KeyFirst ==
  <<U8, U8, U8, U8, U8, U8, U16, U16, U8, U8, SaidBy(5), SaidBy(10)>>
(* radiotype channel encrypt arithmetic keylen acctenable power wlanindex  *)
(* ssidsupp ssidlen ssid key                                               *)
WifiFormat ==
  <<U8, U8, U8, U8, U8, U8, U16, U16, U8, U8, SaidBy(10), SaidBy(5)>>
WifiHead == 8 + 2 * Half

Asked(getter, val, read) ==
  CASE getter.len = "fixed" -> getter.n
    [] getter.len = "behind" -> Len(val) - getter.n
    [] getter.len = "said" -> FromBytes(read.fields[getter.n])

Stored(val, read, n) == SubSeq(val, read.offset + 1, read.offset + n)
Get_OneByte(val, read, n) ==
  IF n >= 1 /\ read.offset + n <= Len(val)
  THEN [offset |-> read.offset + 1,
        fields |-> Append(read.fields, Stored(val, read, n))]
  ELSE [read EXCEPT !.fields = Append(@, <<>>)]
(* Nothing is read, and the place in the value stays, when that much is    *)
(* not left, or less than one byte is asked for.                           *)
Get(val, read, n) ==
  IF n >= 1 /\ read.offset + n <= Len(val)
  THEN [offset |-> read.offset + n,
        fields |-> Append(read.fields, Stored(val, read, n))]
  ELSE [read EXCEPT !.fields = Append(@, <<>>)]

The(singleton) == CHOOSE x \in singleton : TRUE

(* The set has TLC evaluate what is read up to a getter only once.         *)
After(format, val) ==
  LET after[i \in 0 .. Len(format)] ==
        IF i = 0 THEN [offset |-> 0, fields |-> <<>>]
        ELSE The({Get(val, read, Asked(format[i], val, read)) :
                    read \in {after[i - 1]}})
  IN  after
Parse(format, val) == After(format, val)[Len(format)]

Fields(format, val) == Parse(format, val).fields
Accepts(format, val) == Parse(format, val).offset = Len(val)
=============================================================================
