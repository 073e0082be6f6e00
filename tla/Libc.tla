-------------------------------- MODULE Libc --------------------------------
(***************************************************************************)
(* The part of the C library that the kernel shares with programs          *)
(* (common/libc): printf as a machine that is fed the format a character   *)
(* at a time, snprintf under it, and atoi, memmove and strtok_r.           *)
(*                                                                         *)
(* A character is a number: 0 .. 15 are the digits, others are named       *)
(* below.  Arguments come from small sets; int, long and pointers have     *)
(* WBITS bits, long long has twice as many.                                *)
(***************************************************************************)
EXTENDS Integers, Sequences, SequencesExt, FiniteSetsExt

CONSTANTS WBITS,        \* bits of an int
          Args,         \* ints to print, signed
          LongArgs,     \* long longs to print
          SnpLen,       \* the length given to snprintf
          MaxFormat,    \* bound on the length of the format
          MaxMem        \* bound on the memory and strings for memmove and strtok_r

ASSUME LibcAssumption ==
  /\ {WBITS, SnpLen, MaxFormat, MaxMem} \subseteq Nat
  /\ Args \subseteq -(2 ^ (WBITS - 1)) .. 2 ^ (WBITS - 1) - 1
  /\ LongArgs \subseteq -(2 ^ (2 * WBITS - 1)) .. 2 ^ (2 * WBITS - 1) - 1

SPC == 16
MINUS == 17
XCHAR == 18
LETTER == 19

VARIABLES
  pf,       \* the PF between two characters of the format
  nformat,  \* how many characters of the format were sent
  sent,     \* all that was sent on, charcount characters
  snpbuf,   \* the buffer of snprintf, bufpos characters
  field     \* history: the last number printed, its field and where it is in sent

libcVars == <<pf, nformat, sent, snpbuf, field>>

\* __pf_endfield
NoField == [in_pct |-> FALSE, size |-> 0, spacing |-> 0, rightspc |-> FALSE,
            fillchar |-> SPC, altformat |-> FALSE]

libcInit ==
  /\ pf = NoField
  /\ nformat = 0
  /\ sent = <<>>
  /\ snpbuf = <<>>
  /\ field = [any |-> FALSE]

-----------------------------------------------------------------------------
(* Output *)

\* __snprintf_send: what does not fit is dropped; one place is for the NUL.
snprintf_send(txt) ==
  snpbuf' = snpbuf \o SubSeq(txt, 1, IF Len(snpbuf) + Len(txt) <= SnpLen - 1 THEN Len(txt)
                                     ELSE SnpLen - 1 - Len(snpbuf))

pf_print(txt) == sent' = sent \o txt /\ snprintf_send(txt)

pf_fill(spc) == [i \in 1 .. spc |-> pf.fillchar]

\* Faulty variant: the padding comes first whatever the fill character is.
PadsFirst(prefix, prefix2, stuff) ==
  LET len == Len(prefix) + Len(prefix2) + Len(stuff)
      spc == IF pf.spacing > len THEN pf.spacing - len ELSE 0
  IN  (IF pf.rightspc THEN <<>> ELSE pf_fill(spc)) \o prefix \o prefix2 \o stuff
        \o (IF pf.rightspc THEN pf_fill(spc) ELSE <<>>)

\* __pf_printstuff: prefixes after spaces and before zeros.
pf_printstuff(prefix, prefix2, stuff) ==
  LET len == Len(prefix) + Len(prefix2) + Len(stuff)
      spc == IF pf.spacing > len THEN pf.spacing - len ELSE 0
      fill == pf_fill(spc)
  IN  CASE pf.rightspc -> prefix \o prefix2 \o stuff \o fill
        [] ~pf.rightspc /\ pf.fillchar # 0 -> fill \o prefix \o prefix2 \o stuff
        [] OTHER -> prefix \o prefix2 \o fill \o stuff

\* The digits of __pf_printnum, and the size of its buffer.
DigitsIn(base) ==
  LET d[n \in 0 .. 2 ^ (2 * WBITS) - 1] == IF n < base THEN <<n>> ELSE Append(d[n \div base], n % base)
  IN  d
Decimal == DigitsIn(10)
Hex == DigitsIn(16)
Octal == DigitsIn(8)
NUMBER_BUF_SIZE == (2 * WBITS) \div 3 + 2

\* What __pf_getnum takes from the arguments: a long long after ll, but for a pointer.
LLONGSZ == 2
IsLong(ch) == pf.size = LLONGSZ /\ ch # "p"
ArgsOf(ch) == IF IsLong(ch) THEN LongArgs ELSE Args
Unsigned(ch, arg) == arg % 2 ^ (IF IsLong(ch) THEN 2 * WBITS ELSE WBITS)

\* __pf_getnum, __pf_setbase and __pf_printnum.
NumberText(ch, arg) ==
  LET unsigned == Unsigned(ch, arg)
      pointer == pf.altformat \/ ch = "p"
  IN  CASE ch = "d" -> pf_printstuff(IF arg < 0 THEN <<MINUS>> ELSE <<>>, <<>>,
                                     Decimal[(IF arg < 0 THEN -arg ELSE arg) % 2 ^ (2 * WBITS)])
        [] ch = "u" -> pf_printstuff(<<>>, <<>>, Decimal[unsigned])
        [] ch = "o" -> pf_printstuff(<<>>, IF pointer THEN <<0>> ELSE <<>>, Octal[unsigned])
        [] ch \in {"x", "p"} -> pf_printstuff(<<>>, IF pointer THEN <<0, XCHAR>> ELSE <<>>, Hex[unsigned])

-----------------------------------------------------------------------------
(* __pf_send, one character of the format *)

Feed == nformat < MaxFormat /\ nformat' = nformat + 1

\* Outside a % field a character goes through; % starts a field.
SendPlain ==
  /\ Feed /\ ~pf.in_pct
  /\ pf_print(<<LETTER>>)
  /\ UNCHANGED <<pf, field>>

SendPercent ==
  /\ Feed /\ ~pf.in_pct
  /\ pf' = [pf EXCEPT !.in_pct = TRUE]
  /\ UNCHANGED <<sent, snpbuf, field>>

\* __pf_modifier
SendModifier(ch) ==
  /\ Feed /\ pf.in_pct
  /\ pf' = CASE ch = "#" -> [pf EXCEPT !.altformat = TRUE]
             [] ch = "-" -> [pf EXCEPT !.rightspc = TRUE]
             [] ch = "l" -> [pf EXCEPT !.size = IF @ = 1 THEN LLONGSZ ELSE 1]
             [] ch = "0" /\ pf.spacing > 0 -> [pf EXCEPT !.spacing = @ * 10]
             [] ch = "0" /\ pf.spacing = 0 -> [pf EXCEPT !.fillchar = 0]
             [] ch = "5" -> [pf EXCEPT !.spacing = @ * 10 + 5]
  /\ UNCHANGED <<sent, snpbuf, field>>

SendNumber(ch, arg) ==
  /\ Feed /\ pf.in_pct
  /\ arg \in ArgsOf(ch)
  /\ pf_print(NumberText(ch, arg))
  /\ field' = [any |-> TRUE, ch |-> ch, arg |-> arg, num |-> Unsigned(ch, arg), pf |-> pf,
               first |-> Len(sent) + 1, last |-> Len(sent')]
  /\ pf' = NoField

\* %s, %c, %% and characters that are no format.
SendText(txt) ==
  /\ Feed /\ pf.in_pct
  /\ pf_print(pf_printstuff(<<>>, <<>>, txt))
  /\ pf' = NoField
  /\ UNCHANGED field

libcNext ==
  \/ SendPlain \/ SendPercent
  \/ \E ch \in {"#", "-", "l", "0", "5"} : SendModifier(ch)
  \/ \E ch \in {"d", "o", "u", "p", "x"}, arg \in Args \cup LongArgs : SendNumber(ch, arg)
  \/ \E txt \in {<<>>, <<LETTER>>} : SendText(txt)

libcSpec == libcInit /\ [][libcNext]_libcVars

-----------------------------------------------------------------------------
(* atoi, memmove, strtok_r *)

\* The first index from i on at which P does not hold, or past the end.
FirstNot(s, i, skip) == Min({k \in i .. Len(s) + 1 : k = Len(s) + 1 \/ s[k] \notin skip})

atoi(s) ==
  LET i == FirstNot(s, 1, {SPC})
      neg == i <= Len(s) /\ s[i] = MINUS
      from == IF neg THEN i + 1 ELSE i
      val == FoldLeft(LAMBDA v, d : (v * 10 + d) % 2 ^ WBITS, 0,
                      SubSeq(s, from, FirstNot(s, from, 0 .. 9) - 1))
      res == (IF neg THEN -val ELSE val) % 2 ^ WBITS
  IN  IF res < 2 ^ (WBITS - 1) THEN res ELSE res - 2 ^ WBITS

\* Copying w units at a time, from the start (memcpy) or from the end.
CopyUnits(m, dst, src, len, w, forward) ==
  LET n == len \div w
      units == [i \in 1 .. n |-> IF forward THEN i - 1 ELSE n - i]
  IN  FoldLeft(LAMBDA mm, u : [a \in DOMAIN mm |->
                 IF a \in dst + u * w .. dst + u * w + w - 1 THEN mm[src + (a - dst)] ELSE mm[a]],
               m, units)
WORD == 2
Unit(dst, src, len) == IF dst % WORD = 0 /\ src % WORD = 0 /\ len % WORD = 0 THEN WORD ELSE 1
memcpy(m, dst, src, len) == CopyUnits(m, dst, src, len, Unit(dst, src, len), TRUE)
memmove(m, dst, src, len) ==
  IF dst < src THEN memcpy(m, dst, src, len)
  ELSE CopyUnits(m, dst, src, len, Unit(dst, src, len), FALSE)

\* strtok_r called until it returns NULL: the bounds of the words of s from i on.
SEP == 0
strtok_r(s) ==
  LET words[i \in 1 .. Len(s) + 2] ==
        LET head == FirstNot(s, i, {SEP})
            tail == FirstNot(s, head, {1, 2})
        IN  IF i > Len(s) \/ head > Len(s) THEN <<>>
            ELSE <<<<head, tail - 1>>>> \o words[tail + 1]
  IN  words[1]

-----------------------------------------------------------------------------
(* Properties *)

\* memmove with any overlap, and the words that strtok_r finds.
StringsAreRight ==
  /\ LET m == [a \in 0 .. MaxMem - 1 |-> a]
     IN  \A dst, src \in 0 .. MaxMem - 1 : \A len \in 0 .. MaxMem - Max({dst, src}) :
           memmove(m, dst, src, len) =
             [a \in DOMAIN m |-> IF a \in dst .. dst + len - 1 THEN src + (a - dst) ELSE a]
  /\ \A n \in 0 .. MaxMem - 2 : \A s \in [1 .. n -> {SEP, 1}] :
       Range(strtok_r(s)) =
         {<<i, j>> \in (1 .. n) \X (1 .. n) :
           /\ i <= j /\ \A k \in i .. j : s[k] # SEP
           /\ i = 1 \/ s[i - 1] = SEP
           /\ j = n \/ s[j + 1] = SEP}

\* snprintf keeps the beginning of what is printed and never more than its buffer
\* takes; the longest number fits __pf_printnum's buffer, an int or a long long; and an
\* int printed with %d in any field, the smallest one too, is at least as wide as the
\* field and is read back by atoi.  (With - and 0 together zeros are put behind the number: left out.)
NumbersReadBack ==
  /\ StringsAreRight
  /\ snpbuf = SubSeq(sent, 1, Min({Len(sent), SnpLen - 1}))
  /\ field.any =>
       LET txt == SubSeq(sent, field.first, field.last)
       IN  /\ Len(txt) >= field.pf.spacing
           /\ Len(Octal[field.num]) < NUMBER_BUF_SIZE
           /\ field.ch = "d" /\ field.arg \in Args /\ ~(field.pf.rightspc /\ field.pf.fillchar = 0) =>
                atoi(txt) = field.arg
=============================================================================
