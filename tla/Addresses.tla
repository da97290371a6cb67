----------------------------- MODULE Addresses ------------------------------
(***************************************************************************)
(* The script an address of wallet_check.py stands for: Bech32 and Bech32m *)
(* with the whole checksum of the code, Base58 with bytes and characters   *)
(* of smaller bases, in which the numbers fit.                             *)
(*                                                                         *)
(* A Bech32 address is [hrp, data, cased]: the codes of the characters     *)
(* before the separator, the numbers of those behind it (-1 for one that   *)
(* is not of the alphabet), and whether its letters are of one case.       *)
(***************************************************************************)
EXTENDS Integers, Sequences, FiniteSets, SequencesExt, Bitwise

CONSTANTS
  Byte,    \* how many values a byte of a Base58 address has: 256 in the code
  Digit,   \* how many a character has: 58
  None     \* where the code raises ValueError

-----------------------------------------------------------------------------
(* Bech32 *)

Generators == <<996825010, 642813549, 513874426, 1027748829, 705979059>>

\* bech32_polymod.
Polymod(values) ==
  LET mix(chk, v) ==
        FoldLeft(LAMBDA c, i : IF (chk \div 2 ^ (24 + i)) % 2 = 1 THEN c ^^ Generators[i] ELSE c,
                 ((chk % (2 ^ 25)) * 32) ^^ v, <<1, 2, 3, 4, 5>>)
  IN  FoldLeft(mix, 1, values)

HrpExpand(hrp) ==
  [i \in DOMAIN hrp |-> hrp[i] \div 32] \o <<0>> \o [i \in DOMAIN hrp |-> hrp[i] % 32]

\* What the checksum comes to in either encoding.
Const == [bech32 |-> 1, bech32m |-> 734539939]

\* bech32_decode: the data without the checksum, and the encoding.
Bech32Decode(addr) ==
  LET chk == Polymod(HrpExpand(addr.hrp) \o addr.data)
      known == {const \in DOMAIN Const : Const[const] = chk}
  IN  IF \/ ~addr.cased \/ addr.hrp = <<>> \/ Len(addr.data) < 6
         \/ \E i \in DOMAIN addr.data : addr.data[i] = -1
         \/ known = {}
      THEN None
      ELSE [data |-> SubSeq(addr.data, 1, Len(addr.data) - 6), const |-> CHOOSE c \in known : TRUE]

\* Bits of numbers of so many bits, and back.
BitsOf(data, width) ==
  [i \in 1 .. Len(data) * width |->
     (data[1 + (i - 1) \div width] \div 2 ^ (width - 1 - ((i - 1) % width))) % 2]
NumbersOf(bits, width) ==
  [i \in 1 .. Len(bits) \div width |->
     FoldLeft(LAMBDA n, b : 2 * n + b, 0, SubSeq(bits, width * (i - 1) + 1, width * i))]

\* Faulty: what is left over is not looked at.
ConvertBitsLoose(data, from, to) == NumbersOf(BitsOf(data, from), to)

\* convertbits without padding: fewer bits than a number has are left over,
\* and they are zero.
ConvertBits(data, from, to) ==
  LET bits == BitsOf(data, from)
      used == (Len(bits) \div to) * to
  IN  IF Len(bits) - used >= from \/ \E i \in used + 1 .. Len(bits) : bits[i] = 1 THEN None
      ELSE NumbersOf(bits, to)

-----------------------------------------------------------------------------
(* Base58 *)

\* The digits of a number, none for zero; and the number.
NumberOf(digits, base) == FoldLeft(LAMBDA n, d : n * base + d, 0, digits)
DigitsOf(n, base) ==
  LET digits[m \in Nat] == IF m = 0 THEN <<>> ELSE Append(digits[m \div base], m % base)
  IN  digits[n]

\* How many zeros digits begin with.
Zeros(digits) ==
  Cardinality({i \in DOMAIN digits : \A j \in 1 .. i : digits[j] = 0})

\* The checksum of four bytes, any function of the rest (external).
Checksum(body) ==
  [i \in 1 .. 4 |-> FoldLeft(LAMBDA n, b : n * (i + 1) + b + 1, i, body) % Byte]

\* b58decode_check, of the numbers of the characters.
B58DecodeCheck(chars) ==
  LET raw == [i \in 1 .. Zeros(chars) |-> 0] \o DigitsOf(NumberOf(chars, Digit), Byte)
      body == SubSeq(raw, 1, Len(raw) - 4)
  IN  IF Len(raw) < 5 \/ SubSeq(raw, Len(raw) - 3, Len(raw)) # Checksum(body) THEN None ELSE body

-----------------------------------------------------------------------------
(* address_to_script *)

HumanReadable == <<98, 99>>   \* "bc"

\* A script is what it pays to and its bytes.
SegwitScript(addr) ==
  LET decoded == Bech32Decode(addr)
      version == decoded.data[1]
      program == ConvertBits(Tail(decoded.data), 5, 8)
  IN  IF \/ decoded = None \/ addr.hrp # HumanReadable
         \/ program = None
         \/ version = 0 /\ decoded.const # "bech32"
         \/ version = 0 /\ Len(program) \notin {20, 32}
         \/ version # 0 /\ decoded.const # "bech32m"
      THEN None
      ELSE [pays |-> version, program |-> program]

Versions == [p2pkh |-> 0, p2sh |-> 5 % Byte]

LegacyScript(chars) ==
  LET body == B58DecodeCheck(chars)
      kinds == {kind \in DOMAIN Versions : Versions[kind] = body[1]}
  IN  IF body = None \/ kinds = {} THEN None
      ELSE [pays |-> CHOOSE kind \in kinds : TRUE, program |-> Tail(body)]

-----------------------------------------------------------------------------
(* How addresses are made (external): BIP 173, BIP 350 and Base58Check.     *)

SegwitData(version, program) ==
  LET bits == BitsOf(program, 8)
  IN  <<version>> \o NumbersOf(bits \o [i \in 1 .. (5 - (Len(bits) % 5)) % 5 |-> 0], 5)

Bech32Address(hrp, data, const) ==
  LET chk == Polymod(HrpExpand(hrp) \o data \o <<0, 0, 0, 0, 0, 0>>) ^^ Const[const]
  IN  [hrp |-> hrp, cased |-> TRUE,
       data |-> data \o [i \in 1 .. 6 |-> (chk \div 32 ^ (6 - i)) % 32]]

SegwitAddress(version, program) ==
  Bech32Address(HumanReadable, SegwitData(version, program),
                IF version = 0 THEN "bech32" ELSE "bech32m")

LegacyAddress(kind, program) ==
  LET raw == <<Versions[kind]>> \o program \o Checksum(<<Versions[kind]>> \o program)
  IN  [i \in 1 .. Zeros(raw) |-> 0] \o DigitsOf(NumberOf(raw, Byte), Digit)

-----------------------------------------------------------------------------
\* An address gives the script it was made for, and a text that gives a script
\* is its one address: not one of another network, not one with the other
\* checksum, or with more data than the program has.
OnlyAddressOf(hrp, version, program, extra, const) ==
  LET addr == Bech32Address(hrp, SegwitData(version, program) \o extra, const)
      script == SegwitScript(addr)
  IN  /\ addr = SegwitAddress(version, program) =>
           script = IF version = 0 /\ Len(program) \notin {20, 32} THEN None
                    ELSE [pays |-> version, program |-> program]
      /\ script # None => addr = SegwitAddress(script.pays, script.program)

\* With any one character another one it is refused.
TypoIsRefused(version, program, at, as) ==
  LET addr == SegwitAddress(version, program)
      i == 1 + (at % Len(addr.data))
  IN  addr.data[i] # as => SegwitScript([addr EXCEPT !.data[i] = as]) = None

\* The same of Base58, in which a character in front may be a zero byte more.
LegacyIsExact(kind, program) ==
  LET chars == LegacyAddress(kind, program)
  IN  /\ LegacyScript(chars) = [pays |-> kind, program |-> program]
      /\ \A d \in 0 .. Digit - 1 :
           LET script == LegacyScript(<<d>> \o chars)
           IN  script # None => LegacyAddress(script.pays, script.program) = <<d>> \o chars
=============================================================================
