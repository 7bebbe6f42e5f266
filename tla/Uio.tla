--------------------------------- MODULE Uio --------------------------------
(***************************************************************************)
(* Transfers between a file's data and the buffers of a call: uiomove and  *)
(* its relatives, and the copies to and from user space they are made of.  *)
(* Addresses below USERSPACETOP are the user's; of those, the ones in      *)
(* valid can be touched, and any other faults.                             *)
(***************************************************************************)
EXTENDS Integers, SequencesExt

CONSTANTS AddrBits, USERSPACETOP,    \* the address space
          Bases, Lens, Offset,       \* where buffers begin, how long they are; the file position
          Valids, ZEROS,             \* the valid user addresses; the size of the block of zeros
          MaxMoves, Chunks           \* calls of uiomove, and the sizes they are asked for

Space == 2 ^ AddrBits
Addrs == 0..(Space - 1)
UNTOUCHED == 0 - 1
Least(a, b) == IF a < b THEN a ELSE b

VARIABLES mem,       \* what was stored at each address
          valid, u,  \* the uio
          iov0,      \* its buffers as the call gave them
          stream,    \* what the file gave, or took, so far
          moves, result
vars == <<mem, valid, u, iov0, stream, moves, result>>

\* Mutant: the length is compared after it was cut.
AcceptsCut(bot, len) ==
  LET top == (bot + len - 1) % Space
  IN  IF top < bot \/ bot >= USERSPACETOP THEN [err |-> "EFAULT", stoplen |-> len]
      ELSE [err |-> "OK", stoplen |-> len]

copycheck(bot, len) ==
  LET top == (bot + len - 1) % Space
  IN  IF top < bot \/ bot >= USERSPACETOP THEN [err |-> "EFAULT", stoplen |-> len]
      ELSE [err |-> "OK", stoplen |-> IF top >= USERSPACETOP THEN USERSPACETOP - bot ELSE len]

\* A fault in the middle leaves what was copied before it.
Reach(m, from, len) ==
  IF \E i \in 0..(len - 1) : (from + i) \notin valid /\ from + i < USERSPACETOP
  THEN (CHOOSE i \in 0..(len - 1) : /\ (from + i) \notin valid
                                    /\ \A j \in 0..(i - 1) : (from + j) \in valid)
  ELSE len
\* Mutant: a fault in the middle is not noticed.
IgnoresFault(m, data, dest) ==
  LET c == copycheck(dest, Len(data))
      n == Reach(m, dest, Len(data))
  IN  IF c.err # "OK" \/ c.stoplen # Len(data) THEN [err |-> "EFAULT", mem |-> m]
      ELSE [err |-> "OK",
            mem |-> [a \in Addrs |-> IF a \in dest..(dest + n - 1) THEN data[a - dest + 1] ELSE m[a]]]

copyout(m, data, dest) ==
  LET len == Len(data)
      c   == copycheck(dest, len)
      n   == Reach(m, dest, len)
  IN  IF c.err # "OK" \/ c.stoplen # len THEN [err |-> "EFAULT", mem |-> m]
      ELSE [err |-> IF n < len THEN "EFAULT" ELSE "OK",
            mem |-> [a \in Addrs |-> IF a \in dest..(dest + n - 1) THEN data[a - dest + 1] ELSE m[a]]]
copyin(m, src, len) ==
  LET c == copycheck(src, len)
  IN  IF c.err # "OK" \/ c.stoplen # len \/ Reach(m, src, len) < len THEN [err |-> "EFAULT", data |-> <<>>]
      ELSE [err |-> "OK", data |-> [i \in 1..len |-> m[src + i - 1]]]

\* Strings are copied up to the boundary, the end of the buffer or their end.
copystr(chars, maxlen, stoplen) ==
  LET ends == {i \in 1..Len(chars) : chars[i] = 0 /\ i <= maxlen /\ i <= stoplen}
  IN  IF ends # {} THEN [err |-> "OK", got |-> CHOOSE i \in ends : \A j \in ends : i <= j]
      ELSE [err |-> IF stoplen < maxlen THEN "EFAULT" ELSE "ENAMETOOLONG", got |-> 0]
copyinstr(m, src, len) ==
  LET c == copycheck(src, len)
      n == IF Reach(m, src, c.stoplen) < c.stoplen THEN Reach(m, src, c.stoplen) ELSE c.stoplen
      s == copystr([i \in 1..n |-> IF m[src + i - 1] = UNTOUCHED THEN 0 ELSE m[src + i - 1]], len, c.stoplen)
  IN  IF c.err # "OK" THEN [err |-> "EFAULT", got |-> 0]
      ELSE IF s.err # "OK" /\ n < c.stoplen THEN [err |-> "EFAULT", got |-> 0] ELSE s
copyoutstr(m, chars, dest, len) ==
  LET c == copycheck(dest, len)
      n == Reach(m, dest, Least(Len(chars), c.stoplen))
      s == copystr(chars, len, c.stoplen)
  IN  IF c.err # "OK" THEN [err |-> "EFAULT", mem |-> m]
      ELSE [err |-> IF n < Least(Len(chars), c.stoplen) THEN "EFAULT" ELSE s.err,
            mem |-> [a \in Addrs |-> IF a \in dest..(dest + n - 1) THEN chars[a - dest + 1] ELSE m[a]]]

(***************************************************************************)
(* uiomove of n chars, data being those at ptr when the transfer is a      *)
(* read; got collects what a write takes.                                  *)
(***************************************************************************)
Kernel(m, x, len, data) == [a \in Addrs |-> IF a \in x..(x + len - 1) THEN data[a - x + 1] ELSE m[a]]

RECURSIVE Move(_, _, _, _)
Move(x, m, data, n) ==
  LET iov  == Head(x.iov)
      size == IF iov.len > n THEN n ELSE iov.len
      piece == SubSeq(data, 1, size)
      out  == CASE x.segflg = "SYSSPACE" /\ x.rw = "READ" -> [err |-> "OK", mem |-> Kernel(m, iov.base, size, piece)]
                [] x.segflg # "SYSSPACE" /\ x.rw = "READ" -> copyout(m, piece, iov.base)
                [] OTHER -> [err |-> "OK", mem |-> m]
      in   == CASE x.rw = "READ" -> [err |-> "OK", data |-> <<>>]
                [] x.segflg = "SYSSPACE" /\ x.rw = "WRITE" ->
                     [err |-> "OK", data |-> [i \in 1..size |-> m[iov.base + i - 1]]]
                [] OTHER -> copyin(m, iov.base, size)
  IN  IF n = 0 \/ x.resid = 0 THEN [err |-> "OK", u |-> x, mem |-> m, got |-> <<>>]
      ELSE IF size = 0
      THEN IF Len(x.iov) = 1 THEN [err |-> "panic", u |-> x, mem |-> m, got |-> <<>>]
           ELSE Move([x EXCEPT !.iov = Tail(@)], m, data, n)
      ELSE IF out.err # "OK" \/ in.err # "OK" THEN [err |-> "EFAULT", u |-> x, mem |-> out.mem, got |-> <<>>]
      ELSE LET x2 == [x EXCEPT !.iov = <<[base |-> iov.base + size, len |-> iov.len - size]>> \o Tail(@),
                               !.resid = @ - size, !.offset = @ + size]
               r  == Move(x2, out.mem, SubSeq(data, size + 1, Len(data)), n - size)
           IN  [r EXCEPT !.got = in.data \o @]
uiomove(x, m, data, n) == Move(x, m, data, n)

RECURSIVE uiomovezeros(_, _, _)
uiomovezeros(x, m, n) ==
  IF n = 0 THEN [err |-> "OK", u |-> x, mem |-> m, got |-> <<>>]
  ELSE LET amt == IF ZEROS > n THEN n ELSE ZEROS
           r   == uiomove(x, m, [i \in 1..amt |-> 0], amt)
       IN  IF r.err # "OK" THEN r ELSE uiomovezeros(r.u, r.mem, n - amt)

(***************************************************************************)
(* A call makes a uio and the file moves pieces of any size through it.    *)
(***************************************************************************)
Total(iov) == FoldLeft(LAMBDA n, i : n + i.len, 0, iov)
uio_init(seg, rw, iov) == [iov |-> iov, offset |-> Offset, resid |-> Total(iov), segflg |-> seg, rw |-> rw]
Iovs == [base : Bases, len : Lens]
Apart(x, y) == x.base + x.len <= y.base \/ y.base + y.len <= x.base
\* The kernel gives uiomove its own memory, whole, when it asks for SYSSPACE.
InKernel(iov) == \A i \in 1..Len(iov) : iov[i].base >= USERSPACETOP /\ iov[i].base + iov[i].len <= Space

Init ==
  /\ valid \in Valids
  /\ \E seg \in {"SYSSPACE", "USERSPACE"}, rw \in {"READ", "WRITE"}, x \in Iovs, y \in Iovs :
       /\ Apart(x, y)
       /\ seg = "SYSSPACE" => InKernel(<<x, y>>)
       /\ u = uio_init(seg, rw, <<x, y>>) /\ iov0 = <<x, y>>
       /\ mem = [a \in Addrs |-> IF rw = "READ" THEN UNTOUCHED ELSE 100 + a]
  /\ stream = <<>> /\ moves = 0 /\ result = "OK"

Step(r, sent) ==
  /\ moves < MaxMoves /\ result = "OK"
  /\ u' = r.u /\ mem' = r.mem /\ result' = r.err /\ moves' = moves + 1
  /\ stream' = stream \o (IF u.rw = "READ" THEN SubSeq(sent, 1, u.resid - r.u.resid) ELSE r.got)
  /\ UNCHANGED <<valid, iov0>>
\* The file's char at an offset is that offset plus one.
MoveData(n) == LET data == [i \in 1..n |-> u.offset + i] IN Step(uiomove(u, mem, data, n), data)
MoveZeros(n) == u.rw = "READ" /\ Step(uiomovezeros(u, mem, n), [i \in 1..n |-> 0])
Next == \E n \in Chunks : MoveData(n) \/ MoveZeros(n)
Spec == Init /\ [][Next]_vars

\* The addresses of the call's buffers, in the order the stream fills them.
Target == FlattenSeq([k \in 1..Len(iov0) |-> [i \in 1..iov0[k].len |-> iov0[k].base + i - 1]])
Moved == Total(iov0) - u.resid

\* However the transfer is cut into pieces, and wherever it faults, resid and
\* the buffers left agree, offset has advanced by what was moved, what was
\* moved is in the buffers in order, and nothing was stored outside them.
UioExact ==
  /\ result # "panic"
  /\ u.resid = Total(u.iov) /\ u.offset = Offset + Moved /\ Len(stream) = Moved
  /\ \A k \in 1..Moved : mem[Target[k]] = stream[k]
  /\ u.rw = "READ" => \A a \in Addrs : mem[a] # UNTOUCHED => a \in ToSet(Target)

\* A transfer for the user never reaches an address of the kernel, whatever
\* addresses and lengths the user gave, the ones that wrap around included.
UserStaysOut ==
  /\ u.segflg = "USERSPACE" =>
       /\ u.rw = "READ" => \A a \in USERSPACETOP..(Space - 1) : mem[a] = UNTOUCHED
       /\ u.rw = "WRITE" => \A k \in 1..Len(stream) : stream[k] < 100 + USERSPACETOP
  /\ moves = 1 => \A p \in Addrs, len \in {1, 2, 3, USERSPACETOP, Space - 1} :
       /\ copycheck(p, len).err = "OK" => p + copycheck(p, len).stoplen <= USERSPACETOP
       /\ copyinstr(mem, p, len).err = "OK" => p + copyinstr(mem, p, len).got <= USERSPACETOP
       /\ LET m == copyoutstr(mem, <<1, 1, 0>>, p, len).mem
          IN  \A a \in USERSPACETOP..(Space - 1) : m[a] = mem[a]
=============================================================================
