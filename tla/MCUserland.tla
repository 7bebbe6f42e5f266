----------------------------- MODULE MCUserland -----------------------------
(***************************************************************************)
(* Programs and the libraries they are linked with, for TLC: frack,        *)
(* badcall, 64-bit arithmetic, printf, strings and malloc.  A behaviour is *)
(* one of one of them; the variables of the others stay at Off.            *)
(***************************************************************************)
EXTENDS Frack, Badcall

(* Every operation of badcall's menu, and the group of assignment 1.       *)
MCMenu == {menu_ops[i][1] : i \in DOMAIN menu_ops} \cup {"1"}

VARIABLES which,
  ll_a, ll_b,   \* Millicode
  pf, snp, sent, field, fields,   \* Printf
  s_mem,   \* Strings
  m_h, m_test, m_pc, m_r, m_said   \* Malloc

Arithmetic == INSTANCE Millicode WITH
  a <- ll_a, b <- ll_b, HALF_BITS <- 2

FormatChars ==
  {"%", "#", "-", "l", "z", "0", "1", "6", "d", "o", "u", "x", "p", "s", "c", "k"}
Format == INSTANCE Printf WITH
  IntBits <- 5, LLBits <- 10, Lens <- {0, 4},
  Alphabet <- FormatChars, Plain <- {"0", "k"}, Strings <- {<<"NULL">>, <<>>, <<"s", "t">>},
  Chars <- {"c", "NUL"}, MaxMods <- 3, MaxWidth <- 11, MaxFields <- 1, MaxText <- 1

StrTexts ==
  {[text |-> <<" ", "\t", "-", "0", "8">>, value |-> 0 - 8],
   [text |-> <<"+", "1", "2", "-", "3">>, value |-> 12],
   [text |-> <<"-", "1", "2", "8">>, value |-> 0 - 128],
   [text |-> <<"1", "2", "7">>, value |-> 127],
   [text |-> <<>>, value |-> 0], [text |-> <<"-", "+", "4">>, value |-> 0]}
Str == INSTANCE Strings WITH
  mem <- s_mem, Size <- 6, WORD <- 2, CharMax <- 3,
  Seps <- {1}, IntBits <- 8, Texts <- StrTexts

Heap == INSTANCE Malloc WITH
  h <- m_h, test <- m_test, pc <- m_pc, r <- m_r,
  said <- m_said, MBLOCKSIZE <- 8, PageUnits <- 4, Limits <- {0, 16}, SMALLSIZE <- 16,
  MEDIUMSIZE <- 24, BIGSIZE <- 56, HUGESIZE <- 256, Sizes <- {0, 13, 40},
  Slots <- {1, 2, 3}

arithmeticVars == <<ll_a, ll_b>>
formatVars == <<pf, snp, sent, field, fields>>
strVars == <<s_mem>>
heapVars == <<m_h, m_test, m_pc, m_r, m_said>>
vars == <<which, frackVars, badcallVars, arithmeticVars, formatVars, strVars, heapVars>>

Off == "off"

Init ==
  /\ which \in {"frack", "badcall", "millicode", "printf", "strings", "malloc"}
  /\ IF which = "frack" THEN FrackInit
     ELSE /\ ops = Off /\ vols = Off /\ model = Off /\ crash = Off /\ volume = Off
          /\ legal = Off /\ complaints = Off
  /\ IF which = "badcall" THEN BadcallInit
     ELSE /\ kern = Off /\ procs = Off /\ said = Off /\ item = Off /\ before = Off
          /\ faultin = Off /\ picks = Off
  /\ IF which = "millicode" THEN Arithmetic!Init
     ELSE /\ ll_a = Off /\ ll_b = Off
  /\ IF which = "printf" THEN Format!Init
     ELSE /\ pf = Off /\ snp = Off /\ sent = Off /\ field = Off /\ fields = Off
  /\ IF which = "strings" THEN Str!Init
     ELSE /\ s_mem = Off
  /\ IF which = "malloc" THEN Heap!Init
     ELSE /\ m_h = Off /\ m_test = Off /\ m_pc = Off /\ m_r = Off /\ m_said = Off

Next ==
  /\ UNCHANGED which
  /\ IF which = "frack" THEN FrackNext ELSE UNCHANGED frackVars
  /\ IF which = "badcall" THEN BadcallNext ELSE UNCHANGED badcallVars
  /\ IF which = "millicode" THEN Arithmetic!Next ELSE UNCHANGED arithmeticVars
  /\ IF which = "printf" THEN Format!Next ELSE UNCHANGED formatVars
  /\ IF which = "strings" THEN Str!Next ELSE UNCHANGED strVars
  /\ IF which = "malloc" THEN Heap!Next ELSE UNCHANGED heapVars

Spec == Init /\ [][Next]_vars

-----------------------------------------------------------------------------
(* A volume that frack's check passes is explained by a prefix of the      *)
(* workload, and it does not complain of one that is in order (checkfs,    *)
(* checkonefilecontents, change_is_present).                               *)
FrackSound == which = "frack" => NothingMissed /\ NoFalseAlarm

(* The tests of badcall pass in any order, on either kind of volume and    *)
(* after one that ran out of memory, no processes of a test wait for each  *)
(* other for ever, and a test closes, waits for and removes what it made   *)
(* (report_checkN, the tests of waitpid).  Six tests are excepted on an    *)
(* SFS, whose directories have no "." and ".." (Fails_on), and so is a     *)
(* test that itself ran out of memory.                                     *)
BadcallsPass == which = "badcall" => TestsPass /\ NotStuck /\ NothingLeft

(* The arithmetic of long longs by halves (__qdivrem, __muldi3, the shifts *)
(* and comparisons) is that of the integers modulo their size; a digit of  *)
(* the quotient that was estimated too large is put right.                 *)
ArithmeticExact == which = "millicode" => Arithmetic!DivisionExact /\ Arithmetic!WordsExact

(* A number that __printf puts into a field of any width, padding and      *)
(* prefix reads back as the argument; snprintf keeps what there is room    *)
(* for beside the terminator and returns the length of all of the text.    *)
PrintfExact == which = "printf" => Format!ReadsBack /\ Format!Truncates

(* memmove, memcpy, the searches, strtok_r, qsort and atoi give what their *)
(* mathematical definitions give, overlaps and duplicates included.        *)
StringsExact == which = "strings" => Str!MovesExact /\ Str!StringsExact

(* The user heap's headers tile it, no two free blocks are neighbours, no  *)
(* check of the library ends the program, and malloctest's tests pass in   *)
(* any order.                                                              *)
HeapTiled == which = "malloc" => Heap!HeapTiled /\ Heap!MallocTestsPass
=============================================================================
