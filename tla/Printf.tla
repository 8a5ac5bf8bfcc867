------------------------------- MODULE Printf -------------------------------
(***************************************************************************)
(* The formatter of logging.cpp: _vsnprintf walks over a format of one     *)
(* literal character and one directive, collects flags, width, precision   *)
(* and length, and converts an argument; every character goes through      *)
(* _out_buffer into a buffer of limited size, as sprintf and snprintf do.  *)
(* The floating point conversions are compiled out (xmake.lua).  A         *)
(* character is a string of length one; a format ends with NUL.            *)
(***************************************************************************)
EXTENDS Integers, FiniteSets, SequencesExt

CONSTANTS
  Directives,    (* what the caller means, as records (see FormatOf)       *)
  Ints, Longs,   (* values of arguments                                    *)
  Texts,         (* arguments of %s, without their NUL                     *)
  Counts,        (* sizes of the caller's buffer                           *)
  Cells,         (* bound: cells of memory from the buffer's start on      *)
  CharBits, ShortBits, IntBits, LongBits,
  PRINTF_NTOA_BUFFER_SIZE

\* A sequence of whatever characters.
IsText(s) == s \in Seq(Range(s))

\* base to the power of n.
Power(base, n) ==
  LET p[i \in 0..n] == IF i = 0 THEN 1 ELSE base * p[i - 1] IN p[n]

ASSUME PrintfAssumption ==
  /\ {CharBits, ShortBits, IntBits, LongBits} \subseteq Nat
  /\ \A c \in Counts : c \in Nat /\ c < Power(2, LongBits)
  /\ Ints \subseteq Int /\ Longs \subseteq Int
  /\ \A s \in Texts : IsText(s)
  /\ Cells \in Nat /\ PRINTF_NTOA_BUFFER_SIZE \in Nat
  /\ 0 < CharBits /\ CharBits < ShortBits /\ ShortBits < IntBits /\ IntBits < LongBits
  /\ \A v \in Ints : -Power(2, IntBits - 1) <= v /\ v < Power(2, IntBits - 1)
  /\ \A v \in Longs : -Power(2, LongBits - 1) <= v /\ v < Power(2, LongBits - 1)
  /\ LongBits \div 4 <= PRINTF_NTOA_BUFFER_SIZE     (* a pointer fits     *)

VARIABLES
  directive, value, str, maxlen,   (* the call                             *)
  args,       (* the integers left in the va_list                          *)
  format,     (* what is left of the format                                *)
  stage,      (* what _vsnprintf looks for next                            *)
  flags, width, precision,
  text,       (* the characters given to out; idx is its length            *)
  buffer      (* memory from the caller's buffer on                        *)

call == <<directive, value, str, maxlen>>
spec == <<flags, width, precision>>
vars == <<call, args, format, stage, spec, text, buffer>>

NUL == "NUL"
Untouched == "untouched"

idx == Len(text)

-----------------------------------------------------------------------------
(* Numbers.                                                                *)

DigitChars == <<"0", "1", "2", "3", "4", "5", "6", "7", "8", "9">>
Lower == DigitChars \o <<"a", "b", "c", "d", "e", "f">>
Upper == DigitChars \o <<"A", "B", "C", "D", "E", "F">>

Repeated(c, n) == [i \in 1..n |-> c]     (* empty for n <= 0 *)

Unsigned(v, bits) == v % Power(2, bits)
Signed(v, bits)   == Unsigned(v + Power(2, bits - 1), bits) - Power(2, bits - 1)

\* What i rounds of the loop of _ntoa_long leave of v.
Quotient(v, base, i) ==
  LET rest[j \in 0..i] == IF j = 0 THEN v ELSE rest[j - 1] \div base IN rest[i]

\* How many rounds there are: one, and more while something is left.
DigitCount(v, base) ==
  CHOOSE n \in 1..LongBits : /\ Quotient(v, base, n) = 0
                             /\ \A m \in 1..(n - 1) : Quotient(v, base, m) # 0

\* The digit that the round after i others writes.
DigitAt(v, base, i) == Quotient(v, base, i) % base

\* A buffer of digits takes no more than its size.
Push(buf, c) ==
  IF Len(buf) < PRINTF_NTOA_BUFFER_SIZE THEN Append(buf, c) ELSE buf

Fill(buf, n) ==
  buf \o Repeated("0", (IF n < PRINTF_NTOA_BUFFER_SIZE THEN n
                        ELSE PRINTF_NTOA_BUFFER_SIZE) - Len(buf))

\* The text _out_rev writes for buf, which is reversed.
out_rev(buf, w, f) ==
  LET pad == Repeated(" ", w - Len(buf))
  IN  CASE "LEFT" \in f                     -> Reverse(buf) \o pad
        [] f \cap {"LEFT", "ZEROPAD"} = {} -> pad \o Reverse(buf)
        [] OTHER                            -> Reverse(buf)

ntoa_format(digits, negative, base, prec, wide, f) ==
  LET left   == "LEFT" \in f
      zero   == "ZEROPAD" \in f
      signed == negative \/ f \cap {"PLUS", "SPACE"} # {}
      w      == IF ~left /\ wide > 0 /\ zero /\ signed THEN wide - 1 ELSE wide
      padded == CASE left  -> digits
                  [] ~left /\ zero  -> Fill(Fill(digits, prec), w)
                  [] ~left /\ ~zero -> Fill(digits, prec)
      len    == Len(padded)
      drop   == IF "PRECISION" \notin f /\ len > 0 /\ (len = prec \/ len = w)
                THEN (IF len > 1 /\ base = 16 THEN 2 ELSE 1) ELSE 0
      room   == SubSeq(padded, 1, len - drop)
      radix  == CASE base = 16 -> Push(room, "x")
                  [] base = 2  -> Push(room, "b")
                  [] OTHER     -> room
      hashed == IF "HASH" \in f THEN Push(radix, "0") ELSE padded
      full   == CASE negative                        -> Push(hashed, "-")
                  [] ~negative /\ "PLUS" \in f       -> Push(hashed, "+")
                  [] ~negative /\ "PLUS" \notin f /\ "SPACE" \in f -> Push(hashed, " ")
                  [] OTHER                           -> hashed
  IN  out_rev(full, w, f)

ntoa(v, negative, base, prec, w, f) ==
  LET size  == DigitCount(v, base)
      kept  == IF size < PRINTF_NTOA_BUFFER_SIZE THEN size
               ELSE PRINTF_NTOA_BUFFER_SIZE
      chars == IF "UPPERCASE" \in f THEN Upper ELSE Lower
      digits == IF "PRECISION" \in f /\ v = 0 THEN <<>>
                ELSE [i \in 1..kept |-> chars[DigitAt(v, base, i - 1) + 1]]
  IN  ntoa_format(digits, negative, base, prec, w,
                  IF v = 0 THEN f \ {"HASH"} ELSE f)

-----------------------------------------------------------------------------
(* The output functions.                                                   *)

\* Fault: one cell too many.
OutBuffer_OffByOne(at, s) ==
  [k \in DOMAIN buffer |->
     IF at <= k /\ k < at + Len(s) /\ k <= maxlen THEN s[k - at + 1] ELSE buffer[k]]

\* Writes s at position at, as repeated calls of _out_buffer do.
OutBuffer(at, s) ==
  [k \in DOMAIN buffer |->
     IF at <= k /\ k < at + Len(s) /\ k < maxlen THEN s[k - at + 1] ELSE buffer[k]]

Emit(s) == text' = text \o s /\ buffer' = OutBuffer(idx, s)

-----------------------------------------------------------------------------
(* _vsnprintf.                                                             *)

IsDigit(c) == c \in Range(DigitChars)
DigitValue(c) == CHOOSE d \in 0..9 : DigitChars[d + 1] = c

\* The length of the number the format starts with.
Digits == CHOOSE n \in 0..Len(format) :
            /\ \A i \in 1..n : IsDigit(format[i])
            /\ n < Len(format) => ~IsDigit(format[n + 1])

atoi ==
  LET i[n \in 0..Digits] == IF n = 0 THEN 0 ELSE i[n - 1] * 10 + DigitValue(format[n])
  IN  i[Digits]

Next1 == Head(format)
Skip(n) == format' = SubSeq(format, n + 1, Len(format))
Take == args' = Tail(args)

At(s) == stage = s
Goto(s) == stage' = s

Literal ==
  /\ At("text") /\ Next1 \notin {"%", NUL}
  /\ Emit(<<Next1>>) /\ Skip(1)
  /\ UNCHANGED <<call, args, stage, spec>>

Percent ==
  /\ At("text") /\ Next1 = "%"
  /\ Skip(1) /\ Goto("flags")
  /\ flags' = {}
  /\ UNCHANGED <<call, args, width, precision, text, buffer>>

FlagOf == [c \in {"0", "-", "+", " ", "#"} |->
  CASE c = "0" -> "ZEROPAD" [] c = "-" -> "LEFT" [] c = "+" -> "PLUS"
    [] c = " " -> "SPACE" [] c = "#" -> "HASH"]

Flag ==
  /\ At("flags") /\ Next1 \in DOMAIN FlagOf
  /\ flags' = flags \cup {FlagOf[Next1]}
  /\ Skip(1)
  /\ UNCHANGED <<call, args, stage, width, precision, text, buffer>>

NoFlag ==
  /\ At("flags") /\ Next1 \notin DOMAIN FlagOf
  /\ Goto("width")
  /\ UNCHANGED <<call, args, format, spec, text, buffer>>

\* Fault: the sign stays.
StarWidth_Raw(n) == n
StarWidth(n) == IF n < 0 THEN -n ELSE n

Width ==
  /\ At("width") /\ Goto("precision")
  /\ \/ /\ IsDigit(Next1)
        /\ width' = atoi /\ Skip(Digits)
        /\ UNCHANGED <<args, flags>>
     \/ /\ Next1 = "*"
        /\ width' = StarWidth(Head(args))
        /\ flags' = (IF Head(args) < 0 THEN flags \cup {"LEFT"} ELSE flags)
        /\ Take /\ Skip(1)
     \/ /\ ~IsDigit(Next1) /\ Next1 # "*"
        /\ width' = 0
        /\ UNCHANGED <<args, flags, format>>
  /\ UNCHANGED <<call, precision, text, buffer>>

NoPrecision ==
  /\ At("precision") /\ Next1 # "." /\ Goto("length")
  /\ precision' = 0
  /\ UNCHANGED <<call, args, format, flags, width, text, buffer>>

\* After the point: a number, a star, or neither.
Precision ==
  /\ At("precision") /\ Next1 = "." /\ Goto("precision_value")
  /\ flags' = flags \cup {"PRECISION"}
  /\ precision' = 0
  /\ Skip(1)
  /\ UNCHANGED <<call, args, width, text, buffer>>

PrecisionValue ==
  /\ At("precision_value") /\ Goto("length")
  /\ \/ /\ IsDigit(Next1)
        /\ precision' = atoi /\ Skip(Digits)
        /\ UNCHANGED args
     \/ /\ Next1 = "*"
        /\ precision' = (IF Head(args) > 0 THEN Head(args) ELSE 0)
        /\ Take /\ Skip(1)
     \/ /\ ~IsDigit(Next1) /\ Next1 # "*"
        /\ UNCHANGED <<args, precision, format>>
  /\ UNCHANGED <<call, flags, width, text, buffer>>

Length ==
  /\ At("length") /\ Goto("specifier")
  /\ \/ /\ Next1 = "l" /\ format[2] = "l"
        /\ flags' = flags \cup {"LONG", "LONG_LONG"} /\ Skip(2)
     \/ /\ Next1 = "h" /\ format[2] = "h"
        /\ flags' = flags \cup {"SHORT", "CHAR"} /\ Skip(2)
     \/ /\ Next1 = "l" /\ format[2] # "l"
        /\ flags' = flags \cup {"LONG"} /\ Skip(1)
     \/ /\ Next1 = "h" /\ format[2] # "h"
        /\ flags' = flags \cup {"SHORT"} /\ Skip(1)
     \/ /\ Next1 \in {"t", "j", "z"}
        /\ flags' = flags \cup {"LONG"} /\ Skip(1)
     \/ /\ Next1 \notin {"l", "h", "t", "j", "z"}
        /\ UNCHANGED <<flags, format>>
  /\ UNCHANGED <<call, args, width, precision, text, buffer>>

Converted == Skip(1) /\ Goto("text") /\ UNCHANGED <<call, spec>>

Base(c) == CASE c \in {"x", "X"} -> 16 [] c = "o" -> 8 [] c = "b" -> 2 [] OTHER -> 10

\* Fault: the 0 flag counts although there is a precision.
IntFlags_KeepZero(c) ==
  ((flags \cup (IF c = "X" THEN {"UPPERCASE"} ELSE {}))
     \ (IF Base(c) = 10 THEN {"HASH"} ELSE {}))
     \ (IF c \notin {"i", "d"} THEN {"PLUS", "SPACE"} ELSE {})

\* The flags that remain for an integer conversion c.
IntFlags(c) ==
  ((flags \cup (IF c = "X" THEN {"UPPERCASE"} ELSE {}))
     \ (IF Base(c) = 10 THEN {"HASH"} ELSE {}))
     \ ((IF c \notin {"i", "d"} THEN {"PLUS", "SPACE"} ELSE {})
          \cup (IF "PRECISION" \in flags THEN {"ZEROPAD"} ELSE {}))

Wide == IF flags \cap {"LONG", "LONG_LONG"} # {} THEN LongBits ELSE IntBits

\* The bits that va_arg and its cast leave of an argument.
ArgBits ==
  CASE Wide = LongBits                           -> LongBits
    [] Wide # LongBits /\ "CHAR" \in flags       -> CharBits
    [] Wide # LongBits /\ "CHAR" \notin flags /\ "SHORT" \in flags -> ShortBits
    [] OTHER                                     -> IntBits

SignedInt ==
  /\ At("specifier") /\ Next1 \in {"d", "i"}
  /\ LET v == Signed(Head(args), ArgBits)
     IN  Emit(ntoa(Unsigned(IF v > 0 THEN v ELSE 0 - v, Wide), v < 0, 10,
                   precision, width, IntFlags(Next1)))
  /\ Take /\ Converted

UnsignedInt ==
  /\ At("specifier") /\ Next1 \in {"u", "x", "X", "o", "b"}
  /\ Emit(ntoa(Unsigned(Head(args), ArgBits), FALSE, Base(Next1),
               precision, width, IntFlags(Next1)))
  /\ Take /\ Converted

Padded(s) ==
  LET pad == Repeated(" ", width - Len(s))
  IN  IF "LEFT" \in flags THEN s \o pad ELSE pad \o s

\* Which character an argument is does not matter here.
Char ==
  /\ At("specifier") /\ Next1 = "c"
  /\ Emit(Padded(<<"c">>))
  /\ Take /\ Converted

\* Reads at most precision characters, all of them if it is 0.
String ==
  /\ At("specifier") /\ Next1 = "s"
  /\ LET shown == IF "PRECISION" \in flags /\ precision < Len(str)
                  THEN SubSeq(str, 1, precision) ELSE str
     IN  Emit(Padded(shown))
  /\ UNCHANGED args /\ Converted

Pointer ==
  /\ At("specifier") /\ Next1 = "p"
  /\ Emit(ntoa(Unsigned(Head(args), LongBits), FALSE, 16, precision,
               LongBits \div 4, flags \cup {"ZEROPAD", "UPPERCASE"}))
  /\ Take /\ Converted

\* A second percent sign, or anything else, stands for itself.
Itself ==
  /\ At("specifier")
  /\ Next1 \notin {"d", "i", "u", "x", "X", "o", "b", "c", "s", "p", NUL}
  /\ Emit(<<Next1>>)
  /\ UNCHANGED args /\ Converted

\* Fault: the NUL of a text that does not fit is lost.
Terminate_Unclamped ==
  /\ At("text") /\ Next1 = NUL /\ Goto("done")
  /\ buffer' = OutBuffer(idx, <<NUL>>)
  /\ UNCHANGED <<call, args, format, spec, text>>

\* Position maxlen - 1, as a size_t, when the text does not fit.
Terminate ==
  /\ At("text") /\ Next1 = NUL /\ Goto("done")
  /\ buffer' = OutBuffer(IF idx < maxlen THEN idx
                         ELSE Unsigned(maxlen - 1, LongBits), <<NUL>>)
  /\ UNCHANGED <<call, args, format, spec, text>>

-----------------------------------------------------------------------------
(* The caller.  A directive is a record: flags, a sequence of characters;  *)
(* width and prec, each [kind, n], of kind "none", "number", "star" or, for *)
(* prec, "point"; length, a sequence of characters; conv, a character.     *)

\* The numeral of v: as many digits as it takes, the first worth most.
Places(v, base) ==
  CHOOSE n \in 1..LongBits : /\ v < Power(base, n)
                             /\ n = 1 \/ Power(base, n - 1) <= v

Numeral(v, base, chars) ==
  LET n == Places(v, base)
  IN  [i \in 1..n |-> chars[((v \div Power(base, n - i)) % base) + 1]]

Written(num) ==
  CASE num.kind = "star"   -> <<"*">>
    [] num.kind = "number" -> Numeral(num.n, 10, DigitChars)
    [] OTHER               -> <<>>

FormatOf(d) ==
  <<"=", "%">> \o d.flags \o Written(d.width)
    \o (IF d.prec.kind = "none" THEN <<>> ELSE <<".">> \o Written(d.prec))
    \o d.length \o <<d.conv, NUL>>

Nums(kinds) == [kind : kinds, n : Int]

\* A number fits an unsigned int (line 263), a star is an int that has an
\* opposite (line 797); a 0 is no width but a flag.
ASSUME DirectiveAssumption ==
  \A d \in Directives :
    /\ d.flags \in Seq(DOMAIN FlagOf)
    /\ d.width \in Nums({"none", "number", "star"})
    /\ d.prec \in Nums({"none", "point", "number", "star"})
    /\ \A num \in {d.width, d.prec} :
         /\ num.kind = "number" => num.n \in Nat /\ num.n < Power(2, IntBits)
         /\ num.kind = "star" =>
              -Power(2, IntBits - 1) < num.n /\ num.n < Power(2, IntBits - 1)
    /\ d.width.kind = "number" => d.width.n # 0
    /\ d.length \in {<<>>, <<"h">>, <<"h", "h">>, <<"l">>, <<"l", "l">>, <<"j">>,
                     <<"z">>, <<"t">>}

IsLong(d) == d.conv = "p" \/ d.length \notin {<<>>, <<"h">>, <<"h", "h">>}

StarsOf(num) == IF num.kind = "star" THEN <<num.n>> ELSE <<>>

Init ==
  /\ directive \in Directives
  /\ value \in (CASE directive.conv \in {"s", "c", "%"} -> {0}
                 [] IsLong(directive)                 -> Longs
                 [] OTHER                             -> Ints)
  /\ str \in IF directive.conv = "s" THEN Texts ELSE {<<>>}
  /\ maxlen \in Counts
  /\ args = StarsOf(directive.width) \o StarsOf(directive.prec) \o <<value>>
  /\ format = FormatOf(directive)
  /\ stage = "text"
  /\ flags = {} /\ width = 0 /\ precision = 0
  /\ text = <<>>
  /\ buffer = [k \in 0..(Cells - 1) |-> Untouched]

Next ==
  \/ Literal \/ Percent \/ Flag \/ NoFlag \/ Width
  \/ NoPrecision \/ Precision \/ PrecisionValue \/ Length
  \/ SignedInt \/ UnsignedInt \/ Char \/ String \/ Pointer \/ Itself
  \/ Terminate

Spec == Init /\ [][Next]_vars
-----------------------------------------------------------------------------
(* What C's printf makes of the directive.                                 *)

Has(c) == c \in Range(directive.flags)

CLeft  == Has("-") \/ (directive.width.kind = "star" /\ directive.width.n < 0)
CWidth == IF directive.width.kind = "none" THEN 0
          ELSE IF directive.width.n < 0 THEN -directive.width.n ELSE directive.width.n

\* -1 if there is none; a negative star counts as none.
CPrec == CASE directive.prec.kind = "none"  -> -1
           [] directive.prec.kind = "point" -> 0
           [] OTHER -> IF directive.prec.n < 0 THEN -1 ELSE directive.prec.n

CBits == CASE directive.length = <<"h", "h">> -> CharBits
           [] directive.length = <<"h">>      -> ShortBits
           [] IsLong(directive)               -> LongBits
           [] OTHER                           -> IntBits

CSigned == directive.conv \in {"d", "i"}
CNum    == IF CSigned THEN Signed(value, CBits) ELSE Unsigned(value, CBits)
CMag    == IF CNum < 0 THEN -CNum ELSE CNum
CBase   == IF directive.conv = "p" THEN 16 ELSE Base(directive.conv)

CNumeral ==
  IF CPrec = 0 /\ CMag = 0 THEN <<>>
  ELSE Numeral(CMag, CBase, IF directive.conv \in {"X", "p"} THEN Upper ELSE Lower)

CDigits ==
  LET digits == Repeated("0", CPrec - Len(CNumeral)) \o CNumeral
  IN  IF Has("#") /\ CBase = 8 /\ (digits = <<>> \/ Head(digits) # "0")
      THEN <<"0">> \o digits ELSE digits

\* (The x of %#X is lower case in this formatter, and so it is here.)
CPrefix ==
  CASE CSigned /\ CNum < 0                          -> <<"-">>
    [] CSigned /\ CNum >= 0 /\ Has("+")             -> <<"+">>
    [] CSigned /\ CNum >= 0 /\ ~Has("+") /\ Has(" ") -> <<" ">>
    [] CBase = 16 /\ Has("#") /\ CNum # 0           -> <<"0", "x">>
    [] CBase = 2 /\ Has("#") /\ CNum # 0            -> <<"0", "b">>
    [] OTHER                                        -> <<>>

CPad(s) ==
  LET pad == Repeated(" ", CWidth - Len(s)) IN IF CLeft THEN s \o pad ELSE pad \o s

CInteger ==
  IF Has("0") /\ ~CLeft /\ CPrec = -1
  THEN CPrefix \o Repeated("0", CWidth - Len(CPrefix) - Len(CDigits)) \o CDigits
  ELSE CPad(CPrefix \o CDigits)

CText ==
  CASE directive.conv = "s" ->
         CPad(IF CPrec >= 0 /\ CPrec < Len(str) THEN SubSeq(str, 1, CPrec) ELSE str)
    [] directive.conv = "c" -> CPad(<<"c">>)
    [] directive.conv = "%" -> <<"%">>
    [] directive.conv = "p" ->
         CPad(Repeated("0", LongBits \div 4 - Len(CNumeral)) \o CNumeral)
    [] OTHER                -> CInteger

-----------------------------------------------------------------------------
(* Where the formatter and C differ.                                       *)

CZeroFills == Has("0") /\ ~CLeft /\ CPrec = -1

\* The number with its zeros and prefix is longer than buf.
TooLong ==
  \/ Len(CPrefix) + Len(CDigits) > PRINTF_NTOA_BUFFER_SIZE
  \/ CZeroFills /\ CWidth > PRINTF_NTOA_BUFFER_SIZE

\* Line 313 leaves the precision's zeros out, too, when the field is left
\* justified; of a 0, which has no digit of its own (line 383), nothing is left.
LeftPrecision ==
  CLeft /\ CPrec > (IF CMag = 0 THEN 0 ELSE Len(CNumeral))

\* Line 1037 makes the width that of a pointer, whatever the caller's, and line
\* 313 leaves out a left justified pointer's zeros.
PointerField ==
  /\ directive.conv = "p"
  /\ CWidth > LongBits \div 4 \/ (CLeft /\ Len(CNumeral) < LongBits \div 4)

\* Line 817 takes a negative precision for 0, which hides a 0, the 0 flag and a
\* whole string.
NegativePrecision ==
  /\ directive.prec.kind = "star" /\ directive.prec.n < 0
  /\ \/ directive.conv = "s" /\ str # <<>>
     \/ /\ directive.conv \notin {"s", "c", "%"}
        /\ CMag = 0 \/ (CZeroFills /\ CWidth > Len(CPrefix \o CDigits))

\* Line 332 makes room for the prefix by dropping what fills the field, be it
\* zeros or digits, and drops one place for the two of 0b.
PrefixInField ==
  /\ Has("#") /\ CBase # 10 /\ directive.prec.kind = "none"
  /\ \/ CWidth = Len(CNumeral)
     \/ CZeroFills /\ CWidth > Len(CNumeral) /\ CBase = 2
     \/ CZeroFills /\ CWidth = Len(CNumeral) + 1 /\ CBase = 16

\* Line 349 adds its zero to those of the precision, and none to an empty 0.
OctalPrecision ==
  /\ Has("#") /\ CBase = 8
  /\ (CMag # 0 /\ CPrec > Len(CNumeral)) \/ CNumeral = <<>>

Differs ==
  \/ NegativePrecision
  \/ /\ directive.conv \notin {"s", "c", "%"}
     /\ TooLong \/ LeftPrecision \/ PrefixInField \/ OctalPrecision \/ PointerField

\* The directives that C defines (b since C23): no length but for integers, and
\* of a pointer only the field.
IntegerConvs == {"d", "i", "u", "x", "X", "o", "b"}
Defined ==
  /\ directive.conv \in IntegerConvs \cup {"c", "s", "p", "%"}
  /\ directive.length # <<>> => directive.conv \in IntegerConvs
  /\ directive.conv = "p" => Range(directive.flags) \subseteq {"-"}
                             /\ directive.prec.kind = "none"

-----------------------------------------------------------------------------
(* Properties.                                                             *)

TypeOK ==
  /\ flags \subseteq {"ZEROPAD", "LEFT", "PLUS", "SPACE", "HASH", "PRECISION",
                      "LONG", "LONG_LONG", "SHORT", "CHAR"}
  /\ width \in Nat /\ precision \in Nat
  /\ IsText(text) /\ args \in Seq(Int)
  /\ DOMAIN buffer = 0..(Cells - 1)

\* Apart from the six cases above the text is the one that C's printf gives.
\* The directives the kernel uses (%d, %s and %#lX) are never among them.
FormatsAsC == stage = "done" /\ Defined /\ ~Differs => text = <<"=">> \o CText

\* snprintf stores as much of the text as there is room for and a NUL after it,
\* and nothing anywhere else (lines 197-203 and 1070); with no room, nothing.
Truncated ==
  stage = "done" =>
    LET stored == IF idx < maxlen THEN idx ELSE maxlen - 1
    IN  \A k \in DOMAIN buffer :
          buffer[k] = CASE k < stored -> text[k + 1]
                        [] k = stored -> NUL
                        [] OTHER      -> Untouched
=============================================================================
