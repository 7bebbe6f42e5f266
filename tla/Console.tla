------------------------------- MODULE Console -------------------------------
(***************************************************************************)
(* The console (dev/generic/console.c) on the serial port                  *)
(* (dev/lamebus/lser.c, con_lser.c), with kprintf's locks (lib/kprintf.c). *)
(*                                                                         *)
(* Output goes one character at a time through a device that interrupts    *)
(* when it is done.  A thread that may sleep waits for its turn at cs_wsem *)
(* and the interrupt handler passes the turn on; code that may not sleep   *)
(* (a handler, or anything under a spinlock) polls the same device under   *)
(* ls_lock, while a sleeping thread's character may still be on its way.   *)
(* Input goes through a ring that the handler fills and readers empty.     *)
(* The handler runs on the boot CPU and the threads on the others, so that *)
(* every step of one may come between two steps of another.                *)
(***************************************************************************)
EXTENDS Integers, Sequences, SequencesExt, FiniteSets

CONSTANTS
  Writer,     \* threads that write to the console device
  Printer,    \* threads that call kprintf
  Poller,     \* code that calls kprintf and may not sleep
  Reader,     \* threads that read from the console device
  Text,       \* what each of the first three writes, a sequence over Char
  Early,      \* what was printed before there was a console
  BufferSize, \* CONSOLE_INPUT_BUFFER_SIZE
  DelaySize,  \* DELAYBUFSIZE
  Casts,      \* who takes part: sets of actors, each with Boot
  Lines,      \* what may be typed, sequences over Char
  ReadSize    \* bytes a reader asks for

NL == "nl"
CR == "cr"
None == "none"
Boot == "boot"
Irq == "irq"
Sender == Writer \cup Printer \cup {Boot}
Actor == Sender \cup Poller \cup Reader

(* What the constants must satisfy.                                        *)
ConsoleConstants ==
  /\ BufferSize \in Nat \ {0, 1} /\ DelaySize \in Nat /\ ReadSize \in Nat \ {0}
  /\ Len(Early) <= DelaySize

VARIABLES
  up,        \* the_console # NULL
  delayed,   \* delayed_outbuf
  wsem,      \* cs_wsem
  rsem,      \* cs_rsem
  lock,      \* holder of con_userlock_write, con_userlock_read, kprintf_lock,
             \*   kprintf_spinlock and ls_lock
  wbusy,     \* ls_wbusy
  dev,       \* the serial port: its registers, and the character on its way
  handler,   \* what lser_irq has still to do: a subset of {"start", "input"}
  ring, head, tail,   \* cs_gotchars
  pc,        \* where each actor is
  text,      \* what it has still to write
  left,      \* what a reader has still room for
  typed,     \* characters still to come from the keyboard
  out,       \* characters sent, with who sent them
  kept,      \* characters put into the ring
  taken      \* characters taken from it

vars == <<up, delayed, wsem, rsem, lock, wbusy, dev, handler, ring, head, tail,
          pc, text, left, typed, out, kept, taken>>

inVars == <<rsem, ring, head, tail, left, typed, kept, taken>>
outVars == <<wsem, wbusy, dev, out>>

Locks == {"write", "read", "kprintf", "polled", "serial"}

Port == [sending : {<<>>} \cup (Actor \X {"a", "b", NL, CR}),
         ready : BOOLEAN,    \* LSER_IRQ_ACTIVE in WIRQ
         enabled : BOOLEAN, forced : BOOLEAN,
         char : {None, "a", "b", NL, CR}]  \* in CHAR, with RIRQ active

Init ==
  /\ up = FALSE
  /\ delayed = <<>>
  /\ wsem = 1 /\ rsem = 0
  /\ lock = [l \in Locks |-> None]
  /\ wbusy = FALSE
  /\ dev = [sending |-> <<>>, ready |-> FALSE, enabled |-> TRUE,
            forced |-> FALSE, char |-> None]
  /\ handler = {}
  /\ ring = [i \in 0..BufferSize - 1 |-> None] /\ head = 0 /\ tail = 0
  /\ \E cast \in Casts :
       /\ pc = [a \in Actor |-> IF a = Boot THEN "early"
                               ELSE IF a \in cast THEN "begin" ELSE "absent"]
       /\ typed \in IF cast \cap Reader = {} THEN {<<>>} ELSE Lines
  /\ text = [a \in Actor \ Reader |-> IF a = Boot THEN Early ELSE Text[a]]
  /\ left = [r \in Reader |-> ReadSize]
  /\ out = <<>> /\ kept = <<>> /\ taken = <<>>

Goto(a, where) == pc' = [pc EXCEPT ![a] = where]
Take(l, a) == lock[l] = None /\ lock' = [lock EXCEPT ![l] = a]
Drop(l) == lock' = [lock EXCEPT ![l] = None]

-----------------------------------------------------------------------------
(* Boot.                                                                   *)

(* putch while there is no console: putch_delayed.                         *)
putch_delayed ==
  /\ pc[Boot] = "early" /\ text[Boot] # <<>>
  /\ Len(delayed) < DelaySize
  /\ delayed' = Append(delayed, Head(text[Boot]))
  /\ text' = [text EXCEPT ![Boot] = Tail(@)]
  /\ UNCHANGED <<up, lock, handler, pc>> /\ UNCHANGED inVars /\ UNCHANGED outVars

(* config_con: there is a console from here on, and flush_delay_buf writes *)
(* the buffer to it.                                                       *)
config_con ==
  /\ pc[Boot] = "early" /\ text[Boot] = <<>>
  /\ up' = TRUE
  /\ text' = [text EXCEPT ![Boot] = delayed]
  /\ delayed' = <<>>
  /\ Goto(Boot, "next")
  /\ UNCHANGED <<lock, handler>> /\ UNCHANGED inVars /\ UNCHANGED outVars

-----------------------------------------------------------------------------
(* Output by threads that may sleep.                                       *)

UserLock(a) == IF a \in Writer THEN "write" ELSE "kprintf"

(* con_io takes con_userlock_write, kprintf takes kprintf_lock.            *)
start_write(a) ==
  /\ up /\ pc[Boot] = "end"
  /\ pc[a] = "begin"
  /\ Take(UserLock(a), a)
  /\ Goto(a, "next")
  /\ UNCHANGED <<up, delayed, text, handler>> /\ UNCHANGED inVars /\ UNCHANGED outVars

(* con_io writes a carriage return before each newline.                    *)
ExpandNewline(a) ==
  text' = [text EXCEPT ![a] =
             IF a \in Writer /\ Head(@) = NL THEN <<CR, NL>> \o Tail(@) ELSE @]

(* The character at the head is taken up.                                  *)
next_char(a) ==
  /\ pc[a] = "next" /\ text[a] # <<>>
  /\ ExpandNewline(a)
  /\ Goto(a, "wait")
  /\ UNCHANGED <<up, delayed, lock, handler>> /\ UNCHANGED inVars /\ UNCHANGED outVars

(* putch_intr: P(cs_wsem) ...                                              *)
putch_intr(a) ==
  /\ pc[a] = "wait" /\ wsem > 0
  /\ wsem' = wsem - 1
  /\ Goto(a, "send")
  /\ UNCHANGED <<up, delayed, lock, handler, text, wbusy, dev, out>> /\ UNCHANGED inVars

(* ... and cs_send, which is lser_write: if the port is busy it panics     *)
(* under ls_lock.                                                          *)
lser_write(a) ==
  /\ pc[a] = "send" /\ lock["serial"] = None
  /\ IF wbusy
     THEN Goto(a, "panic") /\ UNCHANGED <<wbusy, dev, text>>
     ELSE /\ wbusy' = TRUE
          /\ dev' = [dev EXCEPT !.sending = <<a, Head(text[a])>>]
          /\ text' = [text EXCEPT ![a] = Tail(@)]
          /\ Goto(a, IF a \in Writer /\ Head(text[a]) = CR THEN "wait" ELSE "next")
  /\ UNCHANGED <<up, delayed, lock, handler, wsem, out>> /\ UNCHANGED inVars

end_write(a) ==
  /\ pc[a] = "next" /\ text[a] = <<>>
  /\ IF a = Boot THEN UNCHANGED lock ELSE Drop(UserLock(a))
  /\ Goto(a, "end")
  /\ UNCHANGED <<up, delayed, handler, text>> /\ UNCHANGED inVars /\ UNCHANGED outVars

-----------------------------------------------------------------------------
(* Output by polling: kprintf under kprintf_spinlock, and lser_writepolled *)
(* under ls_lock for each character.                                       *)

start_polled(a) ==
  /\ up /\ pc[Boot] = "end"
  /\ pc[a] = "begin"
  /\ Take("polled", a)
  /\ Goto(a, "lock")
  /\ UNCHANGED <<up, delayed, text, handler>> /\ UNCHANGED inVars /\ UNCHANGED outVars

IgnoresBusy(a) ==
  /\ pc[a] = "lock" /\ text[a] # <<>>
  /\ Take("serial", a)
  /\ dev' = [dev EXCEPT !.ready = FALSE, !.enabled = FALSE, !.forced = FALSE]
  /\ Goto(a, "own")
  /\ UNCHANGED <<up, delayed, text, handler, wsem, wbusy, out>> /\ UNCHANGED inVars

(* If the port is busy an interrupt is due that somebody waits for: wait   *)
(* until it is, and clear the ready condition with the interrupt forced.   *)
(* Otherwise turn the interrupt off.                                       *)
lser_writepolled(a) ==
  /\ pc[a] = "lock" /\ text[a] # <<>>
  /\ Take("serial", a)
  /\ IF wbusy
     THEN Goto(a, "drain") /\ UNCHANGED dev
     ELSE /\ dev' = [dev EXCEPT !.ready = FALSE, !.enabled = FALSE, !.forced = FALSE]
          /\ Goto(a, "own")
  /\ UNCHANGED <<up, delayed, text, handler, wsem, wbusy, out>> /\ UNCHANGED inVars

lser_poll_pending(a) ==
  /\ pc[a] = "drain" /\ dev.ready
  /\ dev' = [dev EXCEPT !.ready = FALSE, !.enabled = TRUE, !.forced = TRUE]
  /\ Goto(a, "pending")
  /\ UNCHANGED <<up, delayed, lock, text, handler, wsem, wbusy, out>> /\ UNCHANGED inVars

(* The character, and the wait until it is out.                            *)
polled_send(a) ==
  /\ pc[a] \in {"own", "pending"}
  /\ dev' = [dev EXCEPT !.sending = <<a, Head(text[a])>>]
  /\ text' = [text EXCEPT ![a] = Tail(@)]
  /\ Goto(a, IF pc[a] = "own" THEN "ownsent" ELSE "pendingsent")
  /\ UNCHANGED <<up, delayed, lock, handler, wsem, wbusy, out>> /\ UNCHANGED inVars

AlwaysCleared(a) == [dev EXCEPT !.ready = FALSE, !.enabled = TRUE, !.forced = FALSE]

(* The register afterwards: cleared and enabled if no interrupt was due,   *)
(* left alone if one was.                                                  *)
AfterPolled(a) ==
  IF pc[a] = "ownsent"
  THEN [dev EXCEPT !.ready = FALSE, !.enabled = TRUE, !.forced = FALSE]
  ELSE dev

lser_poll_until_write(a) ==
  /\ pc[a] \in {"ownsent", "pendingsent"} /\ dev.ready
  /\ dev' = AfterPolled(a)
  /\ Drop("serial")
  /\ Goto(a, "lock")
  /\ UNCHANGED <<up, delayed, text, handler, wsem, wbusy, out>> /\ UNCHANGED inVars

end_polled(a) ==
  /\ pc[a] = "lock" /\ text[a] = <<>>
  /\ Drop("polled")
  /\ Goto(a, "end")
  /\ UNCHANGED <<up, delayed, text, handler>> /\ UNCHANGED inVars /\ UNCHANGED outVars

-----------------------------------------------------------------------------
(* The serial port and its interrupt.                                      *)

PortSent ==
  /\ dev.sending # <<>>
  /\ out' = Append(out, dev.sending)
  /\ dev' = [dev EXCEPT !.sending = <<>>, !.ready = TRUE]
  /\ UNCHANGED <<up, delayed, lock, pc, text, handler, wsem, wbusy>> /\ UNCHANGED inVars

PortReceives ==
  /\ up /\ typed # <<>> /\ dev.char = None
  /\ dev' = [dev EXCEPT !.char = Head(typed)]
  /\ typed' = Tail(typed)
  /\ UNCHANGED <<up, delayed, lock, pc, text, handler, wsem, wbusy, out,
                 rsem, ring, head, tail, left, kept, taken>>

Interrupting == dev.forced \/ (dev.enabled /\ dev.ready) \/ dev.char # None

(* lser_irq under ls_lock: what it finds active it clears, and does the    *)
(* rest after the lock is released.                                        *)
lser_irq ==
  /\ handler = {} /\ lock["serial"] = None
  /\ Interrupting
  /\ handler' = (IF dev.ready THEN {"start"} ELSE {})
                 \cup (IF dev.char # None THEN {dev.char} ELSE {})
  /\ wbusy' = (wbusy /\ ~dev.ready)
  /\ dev' = [dev EXCEPT !.ready = FALSE, !.char = None,
                        !.enabled = @ \/ dev.ready, !.forced = @ /\ ~dev.ready]
  /\ UNCHANGED <<up, delayed, lock, pc, text, wsem, out>> /\ UNCHANGED inVars

(* con_start: V(cs_wsem).                                                  *)
con_start ==
  /\ "start" \in handler
  /\ wsem' = wsem + 1
  /\ handler' = handler \ {"start"}
  /\ UNCHANGED <<up, delayed, lock, pc, text, wbusy, dev, out>> /\ UNCHANGED inVars

OverwritesOldest(nexthead) == FALSE

(* The ring is full when one slot is left.                                 *)
RingFull(nexthead) == nexthead = tail

(* con_input, after con_start: a character that finds the ring full is     *)
(* dropped.                                                                *)
con_input ==
  /\ handler # {} /\ "start" \notin handler
  /\ \E ch \in handler :
       LET nexthead == (head + 1) % BufferSize IN
       IF RingFull(nexthead)
       THEN UNCHANGED <<ring, head, rsem, kept>>
       ELSE /\ ring' = [ring EXCEPT ![head] = ch]
            /\ head' = nexthead
            /\ rsem' = rsem + 1
            /\ kept' = Append(kept, ch)
  /\ handler' = {}
  /\ UNCHANGED <<up, delayed, lock, pc, text, tail, left, typed, taken>>
  /\ UNCHANGED outVars

-----------------------------------------------------------------------------
(* Input: con_io under con_userlock_read.                                  *)

start_read(a) ==
  /\ up /\ pc[a] = "begin"
  /\ Take("read", a)
  /\ Goto(a, "getch")
  /\ UNCHANGED <<up, delayed, text, handler>> /\ UNCHANGED inVars /\ UNCHANGED outVars

(* getch_intr: P(cs_rsem) ...                                              *)
getch_intr(a) ==
  /\ pc[a] = "getch" /\ left[a] > 0 /\ rsem > 0
  /\ rsem' = rsem - 1
  /\ Goto(a, "got")
  /\ UNCHANGED <<up, delayed, lock, text, handler, ring, head, tail, left, typed,
                 kept, taken>>
  /\ UNCHANGED outVars

(* ... and the character at the tail.  A return becomes a newline and ends *)
(* the read; so does a fault of the reader's buffer, with the character    *)
(* gone.                                                                   *)
con_io_read(a) ==
  /\ pc[a] = "got"
  /\ tail' = (tail + 1) % BufferSize
  /\ taken' = Append(taken, ring[tail])
  /\ \/ /\ left' = [left EXCEPT ![a] = IF ring[tail] \in {NL, CR} THEN 0 ELSE @ - 1]
        /\ Goto(a, "getch")
     \/ /\ left' = [left EXCEPT ![a] = 0]   \* uiomove fails
        /\ Goto(a, "getch")
  /\ UNCHANGED <<up, delayed, lock, text, handler, rsem, ring, head, typed, kept>>
  /\ UNCHANGED outVars

end_read(a) ==
  /\ pc[a] = "getch" /\ left[a] = 0
  /\ Drop("read")
  /\ Goto(a, "end")
  /\ UNCHANGED <<up, delayed, text, handler>> /\ UNCHANGED inVars /\ UNCHANGED outVars

-----------------------------------------------------------------------------
Sends(a) ==
  start_write(a) \/ next_char(a) \/ putch_intr(a) \/ lser_write(a) \/ end_write(a)

Polls(a) ==
  \/ start_polled(a) \/ lser_writepolled(a) \/ lser_poll_pending(a) \/ polled_send(a)
  \/ lser_poll_until_write(a) \/ end_polled(a)

Reads(a) == start_read(a) \/ getch_intr(a) \/ con_io_read(a) \/ end_read(a)

Interrupt == lser_irq \/ con_start \/ con_input

Next ==
  \/ putch_delayed \/ config_con
  \/ \E a \in Sender : Sends(a)
  \/ \E a \in Poller : Polls(a)
  \/ \E a \in Reader : Reads(a)
  \/ PortSent \/ PortReceives \/ Interrupt

(* The port works, its interrupt is taken, and a thread that can go on     *)
(* does; one that waits for a lock, a semaphore or ls_lock gets it if it   *)
(* is free again and again, since everyone who can take it does so once.   *)
Fairness ==
  /\ WF_vars(PortSent) /\ WF_vars(Interrupt)
  /\ WF_vars(putch_delayed \/ config_con)
  /\ \A a \in Sender : WF_vars(Sends(a))
  /\ \A a \in Poller : WF_vars(Polls(a))

Spec == Init /\ [][Next]_vars /\ Fairness

-----------------------------------------------------------------------------
TypeOK ==
  /\ wsem \in 0..1 /\ rsem \in 0..BufferSize
  /\ lock \in [Locks -> Actor \cup {None}]
  /\ dev \in Port
  /\ head \in 0..BufferSize - 1 /\ tail \in 0..BufferSize - 1

By(a, s) == SelectSeq(s, LAMBDA x : x[1] = a)
Chars(s) == [i \in DOMAIN s |-> s[i][2]]

(* What a sender's text looks like on the line.                            *)
OnLine(a) ==
  IF a \in Writer
  THEN FlattenSeq([i \in DOMAIN Text[a] |->
                     IF Text[a][i] = NL THEN <<CR, NL>> ELSE <<Text[a][i]>>])
  ELSE IF a = Boot THEN Early ELSE Text[a]

(* No two writes to the console device are mixed.                          *)
Unmixed ==
  \A i, j, k \in DOMAIN out :
    i < j /\ j < k /\ out[i][1] \in Writer /\ out[i][1] = out[k][1]
      => out[j][1] = out[i][1] \/ out[j][1] \notin Writer

(* The output is what was written: nothing is lost or doubled or out of    *)
(* order, however the polled characters get between the others, a write    *)
(* to the device is in one piece as far as other such writes go, and       *)
(* nobody writes to a busy port.                                           *)
OutputExact ==
  /\ \A a \in Actor : pc[a] # "panic"
  /\ \A a \in Sender \cup Poller :
       LET sent == By(a, out) IN
       /\ IsPrefix(Chars(sent), OnLine(a))
       /\ pc[a] = "end" => Len(sent) + (IF dev.sending # <<>> /\ dev.sending[1] = a
                                       THEN 1 ELSE 0) = Len(OnLine(a))
  /\ Unmixed

(* What is read is what was typed, in order, but for what found the ring   *)
(* full; and the semaphore counts exactly what is in the ring.             *)
InputExact ==
  /\ IsPrefix(taken, kept)
  /\ (head - tail) % BufferSize = Len(kept) - Len(taken)
  /\ rsem + Cardinality({r \in Reader : pc[r] = "got"}) = Len(kept) - Len(taken)

(* Every write ends: no write-done interrupt that a thread waits for is    *)
(* lost to a polled write.                                                 *)
WritesEnd == <>(\A a \in Sender \cup Poller : pc[a] \in {"end", "absent"})
=============================================================================
