------------------------------- MODULE Printf -------------------------------
(***************************************************************************)
(* The formatted print of libc and the kernel, with snprintf as its        *)
(* client.  A format is sent one character at a time; a character is a     *)
(* one-letter string.  Int and long have IntBits bits, long long has       *)
(* LLBits.                                                                 *)
(***************************************************************************)
EXTENDS Integers, SequencesExt

CONSTANTS IntBits, LLBits,       \* the widths of int, long, size_t and of long long
          Lens,                  \* the lengths of buffer given to snprintf
          Alphabet, Plain,       \* the characters a format is made of, and its text
          Strings, Chars,        \* arguments of %s (<<"NULL">> among them) and of %c
          MaxMods, MaxWidth,     \* the modifiers of a field and its width
          MaxFields, MaxText     \* the fields, and the text before the last literal

Digit == <<"0","1","2","3","4","5","6","7","8","9","a","b","c","d","e","f">>
Decimal == {Digit[i] : i \in 1..10}
DigitValue(c) == (CHOOSE i \in 1..16 : Digit[i] = c) - 1
NUMBER_BUF_SIZE == (LLBits \div 3) + 2

VARIABLES pf,      \* the state of the print: the fields of PF
          snp,     \* the client's buffer: its length, what it holds, what it holds after the end
          sent,    \* all the text that was sent
          field,   \* the characters of the field being read, its argument and where its text began
          fields   \* how many fields were begun
vars == <<pf, snp, sent, field, fields>>

endfield == [in_pct |-> FALSE, size |-> "INTSZ", num |-> 0, sign |-> 0, spacing |-> 0,
             rightspc |-> FALSE, fillchar |-> " ", base |-> 0, baseprefix |-> FALSE,
             altformat |-> FALSE, charcount |-> 0, overrun |-> FALSE]
__pf_endfield(p) == [endfield EXCEPT !.charcount = p.charcount, !.overrun = p.overrun]

\* Mutant: no room is left for the terminator.
NoRoomForNul(s, txt) ==
  LET room == s.len - Len(s.buf)
  IN  [s EXCEPT !.buf = @ \o SubSeq(txt, 1, IF Len(txt) < room THEN Len(txt) ELSE room)]

\* What is sent goes to the client, which keeps what there is room for.
__snprintf_send(s, txt) ==
  LET room == s.buflen - Len(s.buf)
  IN  [s EXCEPT !.buf = @ \o SubSeq(txt, 1, IF Len(txt) < room THEN Len(txt) ELSE room)]

Print_(p, txt) ==
  /\ snp' = __snprintf_send(snp, txt)
  /\ sent' = sent \o txt
  /\ pf' = [p EXCEPT !.charcount = @ + Len(txt)]

__pf_modifier(p, ch) ==
  CASE ch = "#" -> [p EXCEPT !.altformat = TRUE]
    [] ch = "-" -> [p EXCEPT !.rightspc = TRUE]
    [] ch = "l" -> [p EXCEPT !.size = IF @ = "LONGSZ" THEN "LLONGSZ" ELSE "LONGSZ"]
    [] ch = "z" -> [p EXCEPT !.size = "SIZETSZ"]
    [] ch = "0" -> IF p.spacing > 0 THEN [p EXCEPT !.spacing = @ * 10]
                   ELSE [p EXCEPT !.fillchar = "0"]
    [] OTHER    -> [p EXCEPT !.spacing = @ * 10 + DigitValue(ch)]

Bits(size) == IF size = "LLONGSZ" THEN LLBits ELSE IntBits
\* The values an argument of this size can have: the edges of its range.
Args(size, ch) ==
  LET n == 2 ^ Bits(size)
  IN  IF ch = "d" THEN {0 - n \div 2, 0 - 1, 0, 7, n \div 2 - 1} ELSE {0, 8, n - 1}

\* The magnitude is negated as a signed number and kept as an unsigned one.
__pf_getnum(p, ch, arg) ==
  IF ch = "d" /\ arg < 0
  THEN [p EXCEPT !.sign = 0 - 1,
                 !.num = (0 - arg) % 2 ^ LLBits]
  ELSE [p EXCEPT !.num = arg]

__pf_setbase(p, ch) ==
  [p EXCEPT !.base = CASE ch \in {"d", "u"} -> 10 [] ch \in {"x", "p"} -> 16 [] OTHER -> 8,
            !.baseprefix = p.altformat \/ ch = "p"]

__pf_fill(p, n) == [i \in 1..n |-> p.fillchar]

\* Mutant: the prefixes come after the padding, whatever it is.
PrefixAfterFill(p, prefix, prefix2, stuff) ==
  LET len == Len(prefix) + Len(prefix2) + Len(stuff)
      spc == IF p.spacing > len THEN p.spacing - len ELSE 0
      pad(b) == IF b THEN __pf_fill(p, spc) ELSE <<>>
  IN  pad(~p.rightspc) \o prefix \o prefix2 \o stuff \o pad(p.rightspc)

__pf_printstuff(p, prefix, prefix2, stuff) ==
  LET len == Len(prefix) + Len(prefix2) + Len(stuff)
      spc == IF p.spacing > len THEN p.spacing - len ELSE 0
      pad(b) == IF b THEN __pf_fill(p, spc) ELSE <<>>
  IN  pad(~p.rightspc /\ p.fillchar # "0") \o prefix \o prefix2
        \o pad(~p.rightspc /\ p.fillchar = "0") \o stuff \o pad(p.rightspc)

DigitsOf(num, base) ==
  LET d[n \in 0..num] == IF n < base THEN <<Digit[n + 1]>>
                         ELSE Append(d[n \div base], Digit[(n % base) + 1])
  IN  d[num]

__pf_printnum(p) ==
  __pf_printstuff(p, IF p.sign # 0 THEN <<"-">> ELSE <<>>,
                  IF p.baseprefix /\ p.base = 16 THEN <<"0", "x">>
                  ELSE IF p.baseprefix /\ p.base = 8 THEN <<"0">> ELSE <<>>,
                  DigitsOf(p.num, p.base))

(***************************************************************************)
(* __pf_send, one action for each kind of character.                       *)
(***************************************************************************)
Literal(ch) ==
  /\ ~pf.in_pct /\ ch # "%" /\ ch \in Plain /\ Len(sent) < MaxText
  /\ Print_(pf, <<ch>>)
  /\ field' = [field EXCEPT !.ch = ""]
  /\ UNCHANGED fields

Percent ==
  /\ ~pf.in_pct /\ fields < MaxFields
  /\ pf' = [pf EXCEPT !.in_pct = TRUE]
  /\ field' = [text |-> <<>>, arg |-> 0, from |-> Len(sent), ch |-> "%"]
  /\ fields' = fields + 1
  /\ UNCHANGED <<snp, sent>>

Modifier(ch) ==
  /\ pf.in_pct /\ ch \in {"#", "-", "l", "z"} \union Decimal /\ Len(field.text) < MaxMods
  /\ pf' = __pf_modifier(pf, ch)
  /\ pf'.spacing <= MaxWidth
  /\ field' = [field EXCEPT !.text = Append(@, ch)]
  /\ UNCHANGED <<snp, sent, fields>>

Number(ch) ==
  /\ pf.in_pct /\ ch \in {"d", "o", "u", "p", "x"}
  /\ \E arg \in Args(IF ch = "p" THEN "INTSZ" ELSE pf.size, ch) :
       LET p == __pf_setbase(__pf_getnum(pf, ch, arg), ch)
           over == Len(DigitsOf(p.num, p.base)) + 1 > NUMBER_BUF_SIZE
       IN  /\ Print_([__pf_endfield(p) EXCEPT !.overrun = @ \/ over], __pf_printnum(p))
           /\ field' = [field EXCEPT !.arg = arg, !.ch = ch]
  /\ UNCHANGED fields

StringArg(ch) ==
  /\ pf.in_pct /\ ch = "s"
  /\ \E str \in Strings :
       /\ Print_(__pf_endfield(pf),
                 __pf_printstuff(pf, <<>>, <<>>,
                                 IF str = <<"NULL">> THEN <<"(", "n", "u", "l", "l", ")">> ELSE str))
       /\ field' = [field EXCEPT !.ch = ch]
  /\ UNCHANGED fields

OtherChar(ch) ==
  /\ pf.in_pct /\ ch \notin {"#", "-", "l", "z", "d", "o", "u", "p", "x", "s"} \union Decimal
  /\ \E x \in (IF ch = "c" THEN Chars ELSE {ch}) :
       /\ Print_(__pf_endfield(pf), __pf_printstuff(pf, <<>>, <<>>, IF x = "NUL" THEN <<>> ELSE <<x>>))
       /\ field' = [field EXCEPT !.ch = ch]
  /\ UNCHANGED fields

\* vsnprintf: room is kept for the terminator; __vprintf begins.
Init ==
  /\ pf = endfield
  /\ \E len \in Lens : snp = [len |-> len, buflen |-> IF len = 0 THEN 0 ELSE len - 1, buf |-> <<>>]
  /\ sent = <<>> /\ fields = 0
  /\ field = [text |-> <<>>, arg |-> 0, from |-> 0, ch |-> ""]

__pf_send(ch) == \/ Literal(ch)  \/ Modifier(ch) \/ Number(ch) \/ StringArg(ch) \/ OtherChar(ch)
                 \/ ch = "%" /\ Percent
Next == \E ch \in Alphabet : __pf_send(ch)
Spec == Init /\ [][Next]_vars

(***************************************************************************)
(* What the text of a field means.                                         *)
(***************************************************************************)
Width == FoldLeft(LAMBDA w, c : IF c \in Decimal THEN 10 * w + DigitValue(c) ELSE w, 0, field.text)
FieldText == SubSeq(sent, field.from + 1, Len(sent))
Strip(s) == SelectSeq(s, LAMBDA c : c # " ")
Value(s, base) == FoldLeft(LAMBDA v, c : base * v + DigitValue(c), 0, s)
ReadNumber(s, base) ==
  LET neg == s # <<>> /\ Head(s) = "-"
      t   == IF neg THEN Tail(s) ELSE s
      u   == IF Len(t) > 1 /\ t[2] = "x" THEN SubSeq(t, 3, Len(t)) ELSE t
  IN  IF \A i \in 1..Len(u) : u[i] \in {Digit[k] : k \in 1..base}
      THEN (IF neg THEN 0 - 1 ELSE 1) * Value(u, base) ELSE 9999
FieldEnded == ~pf.in_pct /\ field.ch \in {"d", "o", "u", "p", "x"}

\* A number printed into a field of any width, with any padding and prefix,
\* reads back as the argument, the most negative one included, and the field
\* is as wide as was asked; its digits fit the buffer they are made in.
\* Excepted is zero fill on the right, as in "%-05d", which appends zeros to
\* the number; the 0 of "%-10d" is a digit of the width and no fill.
ReadsBack ==
  /\ ~pf.overrun
  /\ FieldEnded =>
       LET base == CASE field.ch \in {"d", "u"} -> 10 [] field.ch = "o" -> 8 [] OTHER -> 16
           zerofill == \E i \in DOMAIN field.text :
                         field.text[i] = "0" /\ \A j \in 1..(i - 1) : field.text[j] \notin Decimal
       IN  /\ ("-" \in ToSet(field.text) /\ zerofill) \/ ReadNumber(Strip(FieldText), base) = field.arg
           /\ Len(FieldText) >= Width

\* What snprintf leaves in the buffer is as much of the text as the buffer has
\* room for beside the terminator, and what it returns is the text's length.
Truncates ==
  /\ snp.buf = SubSeq(sent, 1, IF Len(sent) < snp.buflen THEN Len(sent) ELSE snp.buflen)
  /\ snp.len > 0 => Len(snp.buf) < snp.len
  /\ pf.charcount = Len(sent)
=============================================================================
