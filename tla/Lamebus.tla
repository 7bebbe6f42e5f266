------------------------------- MODULE Lamebus -------------------------------
(***************************************************************************)
(* The system bus: finding the devices and giving each its driver          *)
(* (autoconf.c, lamebus_probe, lamebus_mark, lamebus_attach_interrupt and  *)
(* the attachment functions), and dispatching the bus interrupt            *)
(* (lamebus_interrupt).                                                    *)
(*                                                                         *)
(* The configuration runs on the boot CPU with interrupts on, so that an   *)
(* interrupt may come between any two of its steps; the spinlock ls_lock   *)
(* makes each step on the slot tables one action.  Interrupts are level    *)
(* triggered: a device asserts its line until its handler has seen to it.  *)
(* One lamebus_interrupt runs at a time: lamebus_find_cpus routes the bus  *)
(* to the boot CPU alone, handlers run with interrupts off, and none of    *)
(* them yields (lt_hardclock is never set, so ltimer's does not call       *)
(* hardclock).  When it looks at the lines again after a handler, only the *)
(* devices can have changed them.                                          *)
(***************************************************************************)
EXTENDS Integers, Sequences, FiniteSets, FiniteSetsExt

CONSTANTS NSLOTS,   \* LB_NSLOTS, without the controller's slot
          Cards,    \* what may be in the slots: a set of functions on Slot
          MaxDuds   \* dud interrupts before lamebus_interrupt panics

Slot == 0..NSLOTS - 1
None == "none"

(* The order of autoconf_lamebus, which drivers take an interrupt, and     *)
(* what is attached to a device in turn.                                   *)
Order == <<"emu", "ltrace", "ltimer", "lrandom", "lhd", "lser">>
Driver == {Order[i] : i \in DOMAIN Order}
TakesInterrupt == {"emu", "ltimer", "lhd", "lser"}
Children(kind) == CASE kind = "ltimer" -> <<"beep", "rtclock">>
                    [] kind = "lrandom" -> <<"random">>
                    [] kind = "lser" -> <<"con">>
                    [] OTHER -> <<>>
Child == {"beep", "rtclock", "random", "con"}

VARIABLES
  card,       \* what is in each slot: a driver's kind, an old revision of
              \*   one, a card without a driver, or nothing
  stage,      \* which kind autoconf_lamebus is trying
  step,       \* what it does next
  found,      \* the slot it is working on
  devunit,    \* the unit number it will get
  kids,       \* what may still be attached to that device
  nextunit,   \* nextunit_<kind>
  parent,     \* the slot each child is attached to
  inuse,      \* ls_slotsinuse
  irqfunc,    \* ls_irqfuncs
  unit,       \* the unit number of the driver of each slot, or -1
  live,       \* slots whose device has been configured and may interrupt
  failed,     \* something was not attached for want of memory
  irqs,       \* CTLREG_IRQS: the slots that assert their line
  scan,       \* where lamebus_interrupt is
  seen,       \* its copy of CTLREG_IRQS
  duds, dudsnow,
  panicked

vars == <<card, stage, step, found, devunit, kids, nextunit, parent, inuse,
          irqfunc, unit, live, failed, irqs, scan, seen, duds, dudsnow, panicked>>

confVars == <<stage, step, found, devunit, kids, nextunit, parent, inuse, irqfunc,
              unit, live, failed>>
irqVars == <<scan, seen, duds, dudsnow, panicked>>

Idle == <<"idle", 0>>
Look(n) == <<"look", n>>
Reload(n) == <<"reload", n>>

(* lamebus_init.                                                           *)
Init ==
  /\ card \in Cards
  /\ stage = 1 /\ step = "probe" /\ found = 0 /\ devunit = 0 /\ kids = <<>>
  /\ nextunit = [k \in Driver \cup Child |-> 0]
  /\ parent = [c \in Child |-> -1]
  /\ inuse = {} /\ irqfunc = [s \in Slot |-> None]
  /\ unit = [s \in Slot |-> -1] /\ live = {} /\ failed = FALSE
  /\ irqs = {} /\ scan = Idle /\ seen = {} /\ duds = 0 /\ dudsnow = 0
  /\ panicked = FALSE

-----------------------------------------------------------------------------
(* Configuration.                                                          *)

Kind == Order[stage]
Configuring(what) == ~panicked /\ scan = Idle /\ stage <= Len(Order) /\ step = what

(* The do ... while of autoconf_lamebus ends at the first result that is   *)
(* not 0, and the next kind starts at its own nextunit.                    *)
NextKind ==
  /\ stage' = stage + 1
  /\ step' = "probe"
  /\ devunit' = IF stage < Len(Order) THEN nextunit[Order[stage + 1]] ELSE 0

Candidates == {s \in Slot : s \notin inuse /\ card[s] = Kind}

(* attach_<kind>_to_lamebus: lamebus_probe for the first free slot with    *)
(* such a card of a revision that is new enough, then memory for it.       *)
attach_to_lamebus ==
  /\ Configuring("probe")
  /\ \/ /\ Candidates = {}
        /\ NextKind
        /\ UNCHANGED <<found, failed>>
     \/ /\ Candidates # {}
        /\ found' = Min(Candidates)
        /\ step' = "mark"
        /\ UNCHANGED <<stage, devunit, failed>>
     \/ /\ Candidates # {}   \* kmalloc fails
        /\ failed' = TRUE
        /\ NextKind
        /\ UNCHANGED found
  /\ UNCHANGED <<kids, nextunit, parent, inuse, irqfunc, unit, live, card, irqs>>
  /\ UNCHANGED irqVars

NotMarked == inuse

Marked == inuse \cup {found}

lamebus_mark ==
  /\ Configuring("mark")
  /\ IF found \in inuse
     THEN panicked' = TRUE /\ UNCHANGED <<inuse, step>>
     ELSE /\ inuse' = Marked
          /\ step' = IF Kind \in TakesInterrupt THEN "attach" ELSE "config"
          /\ UNCHANGED panicked
  /\ UNCHANGED <<stage, found, devunit, kids, nextunit, parent, irqfunc, unit, live,
                 failed, card, irqs, scan, seen, duds, dudsnow>>

lamebus_attach_interrupt ==
  /\ Configuring("attach")
  /\ IF found \notin inuse \/ irqfunc[found] # None
     THEN panicked' = TRUE /\ UNCHANGED <<irqfunc, step>>
     ELSE /\ irqfunc' = [irqfunc EXCEPT ![found] = Kind]
          /\ step' = "config"
          /\ UNCHANGED panicked
  /\ UNCHANGED <<stage, found, devunit, kids, nextunit, parent, inuse, unit, live,
                 failed, card, irqs, scan, seen, duds, dudsnow>>

(* config_<kind>: from here on the device may interrupt.  If it fails the  *)
(* unit number is not used up, and no other device of the kind is tried.   *)
tryattach ==
  /\ Configuring("config")
  /\ \/ /\ unit' = [unit EXCEPT ![found] = devunit]
        /\ live' = live \cup {found}
        /\ nextunit' = [nextunit EXCEPT ![Kind] = devunit + 1]
        /\ kids' = Children(Kind)
        /\ step' = "children"
        /\ UNCHANGED <<stage, devunit, failed>>
     \/ /\ failed' = TRUE
        /\ NextKind
        /\ UNCHANGED <<unit, live, nextunit, kids>>
  /\ UNCHANGED <<found, parent, inuse, irqfunc, card, irqs>> /\ UNCHANGED irqVars

Wanted(c) == nextunit[c] <= 0

(* autoconf_<kind>: a child is tried as unit 0 if there is none yet.       *)
autoconf_child ==
  /\ Configuring("children") /\ kids # <<>>
  /\ kids' = Tail(kids)
  /\ \/ /\ Wanted(Head(kids))
        /\ parent' = [parent EXCEPT ![Head(kids)] = found]
        /\ nextunit' = [nextunit EXCEPT ![Head(kids)] = 1]
        /\ UNCHANGED failed
     \/ Wanted(Head(kids)) /\ failed' = TRUE /\ UNCHANGED <<parent, nextunit>>
     \/ ~Wanted(Head(kids)) /\ UNCHANGED <<parent, nextunit, failed>>
  /\ UNCHANGED <<stage, step, found, devunit, inuse, irqfunc, unit, live, card, irqs>>
  /\ UNCHANGED irqVars

(* The next device of the same kind.                                       *)
autoconf_again ==
  /\ Configuring("children") /\ kids = <<>>
  /\ devunit' = devunit + 1
  /\ step' = "probe"
  /\ UNCHANGED <<stage, found, kids, nextunit, parent, inuse, irqfunc, unit, live,
                 failed, card, irqs>>
  /\ UNCHANGED irqVars

-----------------------------------------------------------------------------
(* Interrupts.                                                             *)

(* A configured device, or a card that nobody drives, asserts its line.    *)
Assert(s) ==
  /\ ~panicked
  /\ s \notin irqs
  /\ (s \in live /\ card[s] \in TakesInterrupt) \/ card[s] = "other"
  /\ irqs' = irqs \cup {s}
  /\ UNCHANGED card /\ UNCHANGED confVars /\ UNCHANGED irqVars

(* lamebus_interrupt reads CTLREG_IRQS.  If the line has gone meanwhile it *)
(* is a stray interrupt, and counts as a dud.                              *)
lamebus_interrupt ==
  /\ ~panicked /\ scan = Idle
  /\ irqs # {} \/ duds < MaxDuds
  /\ scan' = Look(0)
  /\ seen' = irqs
  /\ duds' = IF irqs = {} THEN duds + 1 ELSE duds
  /\ dudsnow' = IF irqs = {} THEN 1 ELSE 0
  /\ UNCHANGED <<panicked, card, irqs>> /\ UNCHANGED confVars

Ahead == {s \in seen : scan[1] = "look" /\ s >= scan[2]}

(* The next slot in the copy: a dud if nobody has it, or nobody takes its  *)
(* interrupt; otherwise the handler, called without ls_lock, which sees to *)
(* the device.                                                             *)
dispatch ==
  /\ ~panicked /\ Ahead # {}
  /\ LET s == Min(Ahead) IN
     IF s \notin inuse \/ irqfunc[s] = None
     THEN /\ duds' = duds + 1 /\ dudsnow' = dudsnow + 1
          /\ scan' = Look(s + 1)
          /\ UNCHANGED irqs
     ELSE /\ irqs' = irqs \ {s}
          /\ scan' = Reload(s + 1)
          /\ UNCHANGED <<duds, dudsnow>>
  /\ UNCHANGED <<seen, panicked, card>> /\ UNCHANGED confVars

ReturnsAtOnce ==
  /\ ~panicked /\ scan[1] = "reload"
  /\ scan' = Idle
  /\ UNCHANGED <<seen, duds, dudsnow, panicked, card, irqs>> /\ UNCHANGED confVars

(* After a handler the register is read again, and the slots after it go   *)
(* on with that.                                                           *)
reload ==
  /\ ~panicked /\ scan[1] = "reload"
  /\ seen' = irqs
  /\ scan' = Look(scan[2])
  /\ UNCHANGED <<duds, dudsnow, panicked, card, irqs>> /\ UNCHANGED confVars

(* The end: the count is cleared by a pass without duds, and too many of   *)
(* them in a row are a panic.                                              *)
interrupt_ends ==
  /\ ~panicked /\ scan[1] = "look" /\ Ahead = {}
  /\ LET n == IF dudsnow = 0 THEN 0 ELSE duds IN
       duds' = n /\ panicked' = (n > MaxDuds)
  /\ scan' = Idle
  /\ seen' = {} /\ dudsnow' = 0
  /\ UNCHANGED <<card, irqs>> /\ UNCHANGED confVars

Handle == dispatch \/ reload \/ interrupt_ends

Configure ==
  \/ attach_to_lamebus \/ lamebus_mark \/ lamebus_attach_interrupt \/ tryattach
  \/ autoconf_child \/ autoconf_again

Next ==
  \/ Configure
  \/ \E s \in Slot : Assert(s)
  \/ lamebus_interrupt \/ Handle

(* The boot CPU takes an interrupt that is asserted and goes through with  *)
(* it.                                                                     *)
Fairness ==
  /\ WF_vars(irqs # {} /\ lamebus_interrupt)
  /\ WF_vars(dispatch) /\ WF_vars(reload) /\ WF_vars(interrupt_ends)

Spec == Init /\ [][Next]_vars /\ Fairness

-----------------------------------------------------------------------------
TypeOK ==
  /\ inuse \subseteq Slot /\ live \subseteq inuse
  /\ irqfunc \in [Slot -> Driver \cup {None}]
  /\ unit \in [Slot -> -1..NSLOTS]
  /\ irqs \subseteq Slot /\ seen \subseteq Slot
  /\ duds \in 0..MaxDuds + NSLOTS + 1

Attached(kind) == {s \in Slot : unit[s] >= 0 /\ card[s] = kind}

(* Each device has one driver, its own: the units of a kind are 0, 1, ...  *)
(* in slot order, the interrupt goes to the driver that was attached, each *)
(* child is on unit 0's kind at most once, nothing panics while it is set  *)
(* up, and unless memory ran out every card with a driver gets it.         *)
DevicesAttached ==
  /\ \A s \in Slot :
       /\ unit[s] >= 0 => unit[s] = Cardinality({t \in Attached(card[s]) : t < s})
       /\ irqfunc[s] # None => irqfunc[s] = card[s] /\ s \in inuse
       /\ s \in live /\ card[s] \in TakesInterrupt => irqfunc[s] = card[s]
  /\ \A c \in Child : parent[c] # -1 =>
       \E i \in DOMAIN Children(card[parent[c]]) : Children(card[parent[c]])[i] = c
  /\ panicked => duds > MaxDuds
  /\ stage > Len(Order) /\ ~failed =>
       /\ \A s \in Slot : card[s] \in Driver => unit[s] >= 0
       /\ \A c \in Child : parent[c] # -1 => unit[parent[c]] = 0

(* No device starves: a line that is asserted is seen to, however often    *)
(* the slots before it assert theirs.                                      *)
InterruptsServed ==
  \A s \in Slot : (s \in irqs /\ irqfunc[s] # None) ~> (s \notin irqs \/ panicked)
=============================================================================
