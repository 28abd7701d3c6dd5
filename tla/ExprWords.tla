------------------------------ MODULE ExprWords ------------------------------
(***************************************************************************)
(* Types, words and memory.  A value is the bit pattern of a 64-bit word,  *)
(* a natural number below 2^Bits; memory is little-endian bytes.  Bytes of *)
(* ByteBits bits and words of WordSize bytes stand for 8 and 8: every rule *)
(* below is about "narrower than a word" and "a whole word" only.          *)
(***************************************************************************)
EXTENDS Integers, Sequences, FiniteSetsExt, Bitwise

CONSTANTS ByteBits, WordSize
ASSUME WordAssumption == ByteBits \in Nat \ {0} /\ WordSize \in Nat \ {0, 1}

Bits == ByteBits * WordSize
Word(v) == v % 2^Bits

\* A bit pattern of the given width read as a signed number.
Signed(v, bits) == IF v >= 2^(bits - 1) THEN v - 2^bits ELSE v

-----------------------------------------------------------------------------
\* Type of aholyc.h; size in bytes.
IntTy(size, unsig) == [k |-> "int", size |-> size, unsig |-> unsig]
I64 == IntTy(WordSize, FALSE)
U64 == IntTy(WordSize, TRUE)
I16 == IntTy(2, FALSE)
U16 == IntTy(2, TRUE)
I8 == IntTy(1, FALSE)
U8 == IntTy(1, TRUE)
ptr_to(base) == [k |-> "ptr", size |-> WordSize, base |-> base]
array_of(base, len) == [k |-> "arr", size |-> base.size * len, base |-> base]
\* mem: the members, each with its type and offset.
Class(size, mem) == [k |-> "class", size |-> size, mem |-> mem]

is_ptrish(ty) == ty.k \in {"ptr", "arr"}
is_agg(ty) == ty.k \in {"class", "arr"}
value_unsig(ty) == ty.k = "int" /\ ty.unsig
Narrow(ty) == ty.k = "int" /\ ty.size < WordSize

\* "everything widens to 64-bit"
value_type(ty) ==
    CASE ty.k = "int" -> IF ty.unsig THEN U64 ELSE I64
      [] ty.k = "arr" -> ptr_to(ty.base)
      [] OTHER -> ty

elem_size(ty) == ty.base.size

\* What is left of word v in storage of type ty, and that widened again.
Trunc(v, ty) == v % 2^(ByteBits * ty.size)
Widen(v, ty) == IF ty.k = "int" /\ ~ty.unsig
                THEN Word(Signed(v, ByteBits * ty.size)) ELSE v
Narrowed(v, ty) == Widen(Trunc(v, ty), ty)

-----------------------------------------------------------------------------
Inside(m, a, ty) == {a, a + ty.size - 1} \subseteq DOMAIN m

Load(m, a, ty) ==
    Widen(MapThenSumSet(LAMBDA i : m[a + i] * 2^(ByteBits * i), 0 .. ty.size - 1), ty)

Store(m, a, ty, v) ==
    [x \in DOMAIN m |-> IF x \in a .. a + ty.size - 1
                        THEN (v \div 2^(ByteBits * (x - a))) % 2^ByteBits
                        ELSE m[x]]

(* An outcome: the value, the memory, the variables that live outside it   *)
(* (temporaries; for JavaScript every variable whose address is not        *)
(* taken), and whether everything so far had a defined result.             *)
Is(o, v) == [o EXCEPT !.v = v]
Undefined(o) == [o EXCEPT !.ok = FALSE]
Read(o, a, ty) == IF Inside(o.m, a, ty) THEN Is(o, Load(o.m, a, ty)) ELSE Undefined(o)
Write(o, a, ty, v) == IF Inside(o.m, a, ty) THEN [o EXCEPT !.m = Store(@, a, ty, v)]
                      ELSE Undefined(o)

-----------------------------------------------------------------------------
(* The machine's operations on words, by LLVM's names; C's operators on    *)
(* hc_i64 and hc_u64 are the same functions.                               *)
Quot(a, b) == LET q == (IF a < 0 THEN -a ELSE a) \div (IF b < 0 THEN -b ELSE b)
              IN IF (a < 0) = (b < 0) THEN q ELSE -q
Bool(b) == IF b THEN 1 ELSE 0

Apply(op, a, b) ==
    LET sa == Signed(a, Bits)
        sb == Signed(b, Bits) IN
    CASE op = "add" -> Word(a + b)
      [] op = "sub" -> Word(a - b)
      [] op = "mul" -> Word(a * b)
      [] op = "sdiv" -> Word(Quot(sa, sb))
      [] op = "udiv" -> a \div b
      [] op = "srem" -> Word(sa - sb * Quot(sa, sb))
      [] op = "urem" -> a % b
      [] op = "and" -> a & b
      [] op = "or" -> a | b
      [] op = "xor" -> a ^^ b
      [] op = "shl" -> Word(a * 2^b)
      [] op = "ashr" -> Word(sa \div 2^b)
      [] op = "lshr" -> a \div 2^b
      [] op = "eq" -> Bool(a = b)
      [] op = "ne" -> Bool(a # b)
      [] op = "slt" -> Bool(sa < sb)
      [] op = "sle" -> Bool(sa <= sb)
      [] op = "ult" -> Bool(a < b)
      [] op = "ule" -> Bool(a <= b)

\* Division by zero, the quotient that does not fit and a shift by the word's
\* width or more have no defined result on either backend.
HasResult(op, a, b) ==
    CASE op \in {"udiv", "urem"} -> b # 0
      [] op \in {"sdiv", "srem"} -> b # 0 /\ ~(a = 2^(Bits - 1) /\ b = 2^Bits - 1)
      [] op \in {"shl", "ashr", "lshr"} -> b < Bits
      [] OTHER -> TRUE
Does(o, op, a, b) == IF HasResult(op, a, b) THEN Is(o, Apply(op, a, b)) ELSE Undefined(o)

\* Two operands evaluated one after the other: their values, what they leave.
Two(Ev(_, _), l, r, o, leftFirst) ==
    LET first == Ev(IF leftFirst THEN l ELSE r, o)
        last == Ev(IF leftFirst THEN r ELSE l, first)
    IN [a |-> IF leftFirst THEN first.v ELSE last.v,
        b |-> IF leftFirst THEN last.v ELSE first.v, o |-> last]
=============================================================================
