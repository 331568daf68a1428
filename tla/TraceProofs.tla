---------------------------- MODULE TraceProofs ----------------------------
(***************************************************************************)
(* The BIOS tracer, its TTY buffer and the log, for every buffer size,     *)
(* guest and host.                                                         *)
(*                                                                         *)
(* TtyOutput says what handle_tty_output does to the buffer and which      *)
(* events it raises, Reported what psycho_bios_trace_end adds; the         *)
(* theorems follow from the two.                                           *)
(***************************************************************************)
EXTENDS Trace, SequenceTheorems, WellFoundedInduction, TLAPS

(***************************************************************************)
(* The first NUL.                                                          *)
(***************************************************************************)
\* A nonempty set of natural numbers has a least element, which is the one
\* that CHOOSE takes.
LEMMA LeastNat ==
  ASSUME NEW I \in SUBSET Nat, I # {}
  PROVE  /\ Min(I) \in I /\ \A k \in I : Min(I) <= k
         /\ Min(I) = CHOOSE n \in I : \A m \in I : n <= m
PROOF
<1>1. \E n \in I : \A m \in I : <<m, n>> \notin OpToRel(<, Nat)
  BY NatLessThanWellFounded, WFMin
<1>2. \E n \in I : \A m \in I : n <= m
  <2>1. ASSUME NEW m \in Nat, NEW n \in Nat, ~ (n <= m) PROVE <<m, n>> \in OpToRel(<, Nat)
    <3>1. m < n
      BY <2>1
    <3> QED
      BY <3>1 DEF OpToRel
  <2> QED
    BY <1>1, <2>1
<1>3. Min(I) = CHOOSE n \in I : \A m \in I : n <= m
  BY DEF Min
<1> QED
  BY <1>2, <1>3

Nuls(s) == {k \in 1 .. Len(s) : s[k] = NUL}

\* UpToNul of a string that has a NUL.
LEMMA UpToNulCut ==
  ASSUME NEW s, Nuls(s) # {}, Len(s) \in Nat
  PROVE  UpToNul(s) = SubSeq(s, 1, Min(Nuls(s)) - 1)
PROOF
<1>1. SelectInSeq(s, LAMBDA c : c = NUL) = Min(Nuls(s))
  BY DEF SelectInSeq, Nuls
<1>2. Min(Nuls(s)) # 0
  BY LeastNat DEF Nuls
<1> QED
  BY <1>1, <1>2 DEF UpToNul

\* A C string ends at or before any NUL.
LEMMA UpToNulShort ==
  ASSUME NEW s \in Seq(Char), NEW n \in 1 .. Len(s), s[n] = NUL
  PROVE  UpToNul(s) \in Seq(Char) /\ Len(UpToNul(s)) \in 0 .. n - 1
PROOF
<1>1. n \in Nuls(s) /\ Nuls(s) \in SUBSET Nat /\ Len(s) \in Nat
  BY DEF Nuls
<1>2. Min(Nuls(s)) \in 1 .. Len(s) /\ Min(Nuls(s)) <= n
  BY <1>1, LeastNat DEF Nuls
<1>3. UpToNul(s) = SubSeq(s, 1, Min(Nuls(s)) - 1)
  BY <1>1, UpToNulCut
<1> HIDE DEF Nuls
<1> DEFINE m == Min(Nuls(s)) - 1
<1>4. m \in 0 .. Len(s) /\ m <= n - 1
  BY <1>1, <1>2
<1> HIDE DEF m
<1>5. SubSeq(s, 1, m) \in Seq(Char) /\ Len(SubSeq(s, 1, m)) = m
  BY <1>4
<1> QED
  BY <1>1, <1>3, <1>4, <1>5 DEF m

\* The C string in a buffer that holds the line l and then a NUL is what is
\* printable of l.
LEMMA UpToNulOfLine ==
  ASSUME NEW s \in Seq(Char), NEW l \in Seq(Char), Len(l) < Len(s),
         \A k \in 1 .. Len(l) : s[k] = l[k], s[Len(l) + 1] = NUL
  PROVE  UpToNul(s) = Tty!Printable(l)
PROOF
<1> DEFINE n == Len(l)
<1>1. n \in Nat /\ Len(s) \in Nat /\ n + 1 \in Nuls(s)
  BY DEF Nuls
<1>2. Nuls(s) \in SUBSET Nat /\ Nuls(l) \in SUBSET Nat
  BY <1>1 DEF Nuls
<1>3. UpToNul(s) = SubSeq(s, 1, Min(Nuls(s)) - 1)
  BY <1>1, UpToNulCut
<1>4. ASSUME NEW m \in 0 .. n PROVE SubSeq(s, 1, m) = SubSeq(l, 1, m)
  <2>1. /\ SubSeq(s, 1, m) \in Seq(Char) /\ Len(SubSeq(s, 1, m)) = m
        /\ \A k \in 1 .. m : SubSeq(s, 1, m)[k] = s[k]
    BY <1>1
  <2>2. /\ SubSeq(l, 1, m) \in Seq(Char) /\ Len(SubSeq(l, 1, m)) = m
        /\ \A k \in 1 .. m : SubSeq(l, 1, m)[k] = l[k]
    BY <1>1
  <2>3. \A k \in 1 .. m : s[k] = l[k]
    BY <1>1
  <2> QED
    BY <2>1, <2>2, <2>3, SeqEqual
<1>5. CASE Nuls(l) = {}
  <2>1. Min(Nuls(s)) = n + 1
    <3>1. \A k \in Nuls(s) : k >= n + 1
      BY <1>1, <1>5 DEF Nuls
    <3>2. Min(Nuls(s)) \in Nuls(s) /\ Min(Nuls(s)) <= n + 1
      BY <1>1, <1>2, LeastNat
    <3> QED
      BY <1>1, <1>2, <3>1, <3>2
  <2>2. UpToNul(s) = SubSeq(l, 1, n)
    BY <1>1, <1>3, <1>4, <2>1
  <2>3. SubSeq(l, 1, n) = l
    BY SubSeqFull
  <2>4. Tty!Printable(l) = l
    BY <1>5 DEF Tty!Printable, Nuls
  <2> QED
    BY <2>2, <2>3, <2>4
<1>6. CASE Nuls(l) # {}
  <2>1. Min(Nuls(l)) \in Nuls(l) /\ \A k \in Nuls(l) : Min(Nuls(l)) <= k
    BY <1>2, <1>6, LeastNat
  <2>2. Min(Nuls(s)) \in Nuls(s) /\ \A k \in Nuls(s) : Min(Nuls(s)) <= k
    BY <1>1, <1>2, LeastNat
  <2>3. Nuls(l) = Nuls(s) \cap 1 .. n
    BY <1>1 DEF Nuls
  <2>4. Min(Nuls(s)) = Min(Nuls(l))
    <3>1. Min(Nuls(l)) \in Nuls(s) /\ Min(Nuls(l)) \in 1 .. n
      BY <2>1, <2>3
    <3>2. Min(Nuls(s)) <= Min(Nuls(l)) /\ Min(Nuls(s)) \in Nat
      BY <1>2, <2>2, <3>1
    <3>3. Min(Nuls(s)) \in Nuls(l)
      BY <1>1, <2>2, <2>3, <3>1, <3>2 DEF Nuls
    <3> QED
      BY <1>2, <2>1, <3>1, <3>2, <3>3
  <2>5. Min(Nuls(l)) - 1 \in 0 .. n
    BY <1>1, <2>1, <2>3
  <2>6. UpToNul(s) = SubSeq(l, 1, Min(Nuls(l)) - 1)
    BY <1>3, <1>4, <2>4, <2>5
  <2>7. Tty!Printable(l) = SubSeq(l, 1, Min(Nuls(l)) - 1)
    <3>1. Min(Nuls(l)) = CHOOSE k \in Nuls(l) : \A m \in Nuls(l) : k <= m
      BY <1>2, <1>6, LeastNat
    <3> QED
      BY <1>6, <3>1 DEF Tty!Printable, Nuls
  <2> QED
    BY <2>6, <2>7
<1> QED
  BY <1>5, <1>6

(***************************************************************************)
(* The buffer.                                                             *)
(***************************************************************************)
\* The sizes.
LEMMA Sizes ==
  /\ CharSize \in Nat /\ CharSize > 1 /\ TTY_SIZE_MAX = CharSize
  /\ NUL \in Char /\ NEWLINE \in Char /\ NEWLINE # NUL
  /\ MSG_SIZE_MAX \in Nat /\ TTY_SIZE_MAX + 19 < MSG_SIZE_MAX
PROOF
<1>1. PrefixLen("TTY_STDOUT", INFO) = 18
  BY DEF PrefixLen, LevelNameLen, ModuleNameLen, INFO, WARN
<1> QED
  BY <1>1, BiosTraceAssumption, LogAssumption DEF Char, NUL

Data == [1 .. TTY_SIZE_MAX -> Char]

Behind(data, lo, hi) == data \o <<lo, hi, NUL>>

\* Three bytes behind the buffer.
LEMMA ThreeBehind ==
  ASSUME NEW data \in Data, NEW lo \in Char, NEW hi \in Char
  PROVE  /\ Behind(data, lo, hi) \in Seq(Char)
         /\ Len(Behind(data, lo, hi)) = TTY_SIZE_MAX + 3
         /\ Behind(data, lo, hi)[TTY_SIZE_MAX + 1] = lo
         /\ Behind(data, lo, hi)[TTY_SIZE_MAX + 2] = hi
         /\ \A k \in 1 .. TTY_SIZE_MAX : Behind(data, lo, hi)[k] = data[k]
PROOF
<1> DEFINE n == TTY_SIZE_MAX
           h == <<lo, hi, NUL>>
<1>1. h \in Seq(Char) /\ Len(h) = 3 /\ h[1] = lo /\ h[2] = hi
  BY Sizes
<1>2. n \in Nat /\ data \in Seq(Char) /\ Len(data) = n
  BY Sizes DEF Data
<1> HIDE DEF h, n
<1>3. /\ data \o h \in Seq(Char) /\ Len(data \o h) = n + 3
      /\ \A i \in 1 .. n + 3 : (data \o h)[i] = IF i <= n THEN data[i] ELSE h[i - n]
  <2>1. /\ data \o h \in Seq(Char) /\ Len(data \o h) = Len(data) + Len(h)
        /\ \A i \in 1 .. Len(data) + Len(h) :
              (data \o h)[i] = IF i <= Len(data) THEN data[i] ELSE h[i - Len(data)]
    BY <1>1, <1>2, ConcatProperties
  <2> QED
    BY <1>1, <1>2, <2>1
<1>4. Behind(data, lo, hi) = data \o h
  BY DEF h, Behind
<1>5. /\ n + 1 \in 1 .. n + 3 /\ n + 2 \in 1 .. n + 3
      /\ (n + 1) - n = 1 /\ (n + 2) - n = 2
      /\ ~ (n + 1 <= n) /\ ~ (n + 2 <= n)
      /\ \A k \in 1 .. n : k \in 1 .. n + 3 /\ k <= n
  BY <1>2
<1> QED
  BY <1>1, <1>3, <1>4, <1>5 DEF n

\* What a C program finds when it reads data as a string: the two low bytes
\* of len behind it.
LEMMA CStringLen ==
  ASSUME NEW tty, tty.data \in Data, tty.len \in 0 .. TTY_SIZE_MAX
  PROVE  CString(tty) \in Seq(Char) /\ Len(CString(tty)) \in 0 .. TTY_SIZE_MAX + 1
PROOF
<1> DEFINE n == TTY_SIZE_MAX
           lo == tty.len % CharSize
           hi == tty.len \div CharSize
           s == Behind(tty.data, lo, hi)
<1>1. n \in Nat /\ n = CharSize /\ n > 1
  BY Sizes
<1>2. lo \in Char /\ hi \in Char
  BY <1>1 DEF Char
<1>3. lo = NUL \/ hi = NUL
  BY <1>1 DEF NUL
<1> HIDE DEF lo, hi
<1>4. s \in Seq(Char) /\ Len(s) = n + 3 /\ s[n + 1] = lo /\ s[n + 2] = hi
  BY <1>2, ThreeBehind
<1>5. CString(tty) = UpToNul(s)
  BY DEF CString, Behind, lo, hi
<1> HIDE DEF s
<1>6. CASE lo = NUL
  <2>1. UpToNul(s) \in Seq(Char) /\ Len(UpToNul(s)) \in 0 .. (n + 1) - 1
    BY <1>1, <1>4, <1>6, UpToNulShort
  <2> QED
    BY <1>1, <1>5, <2>1
<1>7. CASE hi = NUL
  <2>1. UpToNul(s) \in Seq(Char) /\ Len(UpToNul(s)) \in 0 .. (n + 2) - 1
    BY <1>1, <1>4, <1>7, UpToNulShort
  <2> QED
    BY <1>1, <1>5, <2>1
<1> QED
  BY <1>3, <1>6, <1>7

Filled(tty) == SubSeq(tty.data, 1, tty.len)

CleanBehind(tty) == \A k \in tty.len + 1 .. TTY_SIZE_MAX : tty.data[k] = NUL

\* Behind a line that the buffer was cleared for, at any length, comes a
\* NUL: the buffer's, or the low byte of len when the line fills it.
LEMMA CStringOfLine ==
  ASSUME NEW tty, tty.data \in Data, tty.len \in 0 .. TTY_SIZE_MAX, CleanBehind(tty)
  PROVE  CString(tty) = Tty!Printable(Filled(tty))
PROOF
<1> DEFINE n == TTY_SIZE_MAX
           m == tty.len
           lo == m % CharSize
           hi == m \div CharSize
           s == Behind(tty.data, lo, hi)
           l == Filled(tty)
<1>1. n \in Nat /\ n = CharSize /\ n > 1 /\ m \in 0 .. n
  BY Sizes
<1>2. lo \in Char /\ hi \in Char /\ (m = n => lo = NUL)
  BY <1>1 DEF Char, NUL
<1> HIDE DEF lo, hi
<1>3. /\ s \in Seq(Char) /\ Len(s) = n + 3 /\ s[n + 1] = lo
      /\ \A k \in 1 .. n : s[k] = tty.data[k]
  BY <1>2, ThreeBehind
<1>4. CString(tty) = UpToNul(s)
  BY DEF CString, Behind, lo, hi
<1> HIDE DEF s
<1>5. tty.data \in Seq(Char) /\ Len(tty.data) = n
  BY <1>1 DEF Data
<1>6. l \in Seq(Char) /\ Len(l) = m /\ \A k \in 1 .. m : l[k] = tty.data[k]
  BY <1>1, <1>5 DEF Filled
<1> HIDE DEF l
<1>7. s[m + 1] = NUL
  <2>1. CASE m = n
    BY <1>2, <1>3, <2>1
  <2>2. CASE m # n
    <3>1. m + 1 \in 1 .. n /\ m + 1 \in m + 1 .. n
      BY <1>1, <2>2
    <3>2. tty.data[m + 1] = NUL
      BY <3>1 DEF CleanBehind
    <3> QED
      BY <1>3, <3>1, <3>2
  <2> QED
    BY <2>1, <2>2
<1>8. \A k \in 1 .. m : s[k] = l[k]
  BY <1>1, <1>3, <1>6
<1>9. UpToNul(s) = Tty!Printable(l)
  BY <1>1, <1>3, <1>6, <1>7, <1>8, UpToNulOfLine
<1> QED
  BY <1>4, <1>9 DEF l

(***************************************************************************)
(* What a step does to the context.                                        *)
(***************************************************************************)
\* x is a context of the log and the tracer, at any point of a step.
Context(x) ==
  x \in [modules : [ModuleId -> Level], out : {x.out},
         tty : [data : Data, len : 0 .. TTY_SIZE_MAX],
         curr_func : {x.curr_func}, result : {x.result},
         enable_tty_output : BOOLEAN, torn : BOOLEAN]

\* What is the same in x and y: all but the TTY, its events and the function
\* that is traced.
SameHost(x, y) ==
  y.modules = x.modules /\ y.enable_tty_output = x.enable_tty_output

PutIn(tty, c) == [tty EXCEPT !.data[tty.len + 1] = c, !.len = @ + 1]

\* A character behind the line.
LEMMA PutEffect ==
  ASSUME NEW tty \in [data : Data, len : 0 .. TTY_SIZE_MAX], tty.len < TTY_SIZE_MAX,
         NEW c \in Char
  PROVE  /\ PutIn(tty, c) \in [data : Data, len : 0 .. TTY_SIZE_MAX]
         /\ PutIn(tty, c).len = tty.len + 1
         /\ Filled(PutIn(tty, c)) = Append(Filled(tty), c)
         /\ CleanBehind(tty) => CleanBehind(PutIn(tty, c))
PROOF
<1> DEFINE d == tty.data
           m == tty.len
           e == [d EXCEPT ![m + 1] = c]
<1>1. TTY_SIZE_MAX \in Nat /\ m \in 0 .. TTY_SIZE_MAX - 1 /\ d \in Data
  BY Sizes
<1>2. /\ e \in Data /\ e[m + 1] = c
      /\ \A k \in 1 .. TTY_SIZE_MAX : k # m + 1 => e[k] = d[k]
  BY <1>1 DEF Data
<1>3. PutIn(tty, c).data = e /\ PutIn(tty, c).len = m + 1
  BY <1>1 DEF PutIn
<1>4. PutIn(tty, c) \in [data : Data, len : 0 .. TTY_SIZE_MAX]
  <2>1. PutIn(tty, c) \in [data : {e}, len : {m + 1}]
    BY DEF PutIn
  <2> HIDE DEF e, m
  <2> QED
    BY <1>1, <1>2, <2>1
<1> HIDE DEF e
<1>5. CleanBehind(tty) => CleanBehind(PutIn(tty, c))
  BY <1>1, <1>2, <1>3 DEF CleanBehind
<1>6. d \in Seq(Char) /\ e \in Seq(Char) /\ Len(d) = TTY_SIZE_MAX /\ Len(e) = TTY_SIZE_MAX
  BY <1>1, <1>2 DEF Data
<1>7. Filled(PutIn(tty, c)) = SubSeq(e, 1, m + 1) /\ Filled(tty) = SubSeq(d, 1, m)
  BY <1>3 DEF Filled
<1> HIDE DEF d, m
<1>8. SubSeq(e, 1, m + 1) = Append(SubSeq(d, 1, m), c)
  <2>1. /\ SubSeq(e, 1, m + 1) \in Seq(Char) /\ Len(SubSeq(e, 1, m + 1)) = m + 1
        /\ \A k \in 1 .. m + 1 : SubSeq(e, 1, m + 1)[k] = e[k]
    BY <1>1, <1>6
  <2>2. /\ SubSeq(d, 1, m) \in Seq(Char) /\ Len(SubSeq(d, 1, m)) = m
        /\ \A k \in 1 .. m : SubSeq(d, 1, m)[k] = d[k]
    BY <1>1, <1>6
  <2> DEFINE a == Append(SubSeq(d, 1, m), c)
  <2>3. /\ a \in Seq(Char) /\ Len(a) = m + 1 /\ a[m + 1] = c
        /\ \A k \in 1 .. m : a[k] = SubSeq(d, 1, m)[k]
    <3> DEFINE q == SubSeq(d, 1, m)
    <3>1. q \in Seq(Char) /\ Len(q) = m
      BY <2>2
    <3> HIDE DEF q
    <3>2. /\ Append(q, c) \in Seq(Char) /\ Len(Append(q, c)) = m + 1
          /\ Append(q, c)[m + 1] = c /\ \A k \in 1 .. m : Append(q, c)[k] = q[k]
      BY <1>1, <3>1
    <3> QED
      BY <3>2 DEF q
  <2> HIDE DEF a
  <2>4. \A k \in 1 .. m + 1 : SubSeq(e, 1, m + 1)[k] = a[k]
    <3> SUFFICES ASSUME NEW k \in 1 .. m + 1 PROVE SubSeq(e, 1, m + 1)[k] = a[k]
      OBVIOUS
    <3>1. CASE k = m + 1
      BY <1>1, <1>2, <2>1, <2>3, <3>1
    <3>2. CASE k # m + 1
      <4>1. k \in 1 .. m /\ k \in 1 .. TTY_SIZE_MAX
        BY <1>1, <3>2
      <4> QED
        BY <1>2, <2>1, <2>2, <2>3, <3>2, <4>1
    <3> QED
      BY <3>1, <3>2
  <2> QED
    BY <2>1, <2>3, <2>4, SeqEqual DEF a
<1> QED
  BY <1>3, <1>4, <1>5, <1>7, <1>8 DEF m

\* The three things handle_tty_output does with a character: it delivers the
\* line, it tears it, or it collects the character.
Delivers(x, h, c) ==
  /\ c = NEWLINE
  /\ h.tty = EmptyTty /\ h.torn = FALSE
  /\ \E text \in Seq(Char) :
       /\ Len(text) \in 0 .. TTY_SIZE_MAX + 1
       /\ h.out = <<Event("TTY", "TTY_STDOUT", INFO, text, Len(text)),
                    Event("LOG", "TTY_STDOUT", INFO, text, 18 + Len(text))>>
       /\ CleanBehind(x.tty) => text = Tty!Printable(Append(Filled(x.tty), NEWLINE))

Tears(x, h, c) ==
  /\ c # NEWLINE /\ x.tty.len + 1 = TTY_SIZE_MAX
  /\ h.tty.len = 0 /\ h.torn = TRUE
  /\ h.out = << >> \/ h.out = <<Event("LOG", "BIOS", WARN, << >>, 12)>>

Collects(x, h, c) ==
  /\ c # NEWLINE /\ x.tty.len + 1 < TTY_SIZE_MAX
  /\ h.tty = PutIn(x.tty, c) /\ h.torn = x.torn
  /\ h.out = << >>

\* The empty buffer.
LEMMA EmptyBuffer ==
  /\ EmptyTty \in [data : Data, len : 0 .. TTY_SIZE_MAX]
  /\ EmptyTty.len = 0 /\ CleanBehind(EmptyTty)
PROOF
<1>1. EmptyTty.len = 0 /\ EmptyTty.data = [k \in 1 .. TTY_SIZE_MAX |-> NUL]
  BY DEF EmptyTty
<1>2. EmptyTty.data \in Data
  BY <1>1, Sizes DEF Data
<1>3. EmptyTty \in [data : Data, len : 0 .. TTY_SIZE_MAX]
  BY <1>1, <1>2, Sizes DEF EmptyTty
<1> QED
  BY <1>1, <1>3, Sizes DEF CleanBehind

\* Two events.
LEMMA AppendTwo ==
  ASSUME NEW a, NEW b
  PROVE  Append(Append(<< >>, a), b) = <<a, b>>
PROOF
<1> DEFINE s == <<a>>
<1>1. Append(<< >>, a) = s /\ s \in Seq({a, b}) /\ Len(s) = 1 /\ s[1] = a
  OBVIOUS
<1> HIDE DEF s
<1>2. /\ Append(s, b) \in Seq({a, b}) /\ Len(Append(s, b)) = 2
      /\ Append(s, b)[1] = a /\ Append(s, b)[2] = b
  <2> DEFINE S == {a, b}
  <2>1. s \in Seq(S) /\ b \in S
    BY <1>1
  <2> HIDE DEF S
  <2>2. /\ Append(s, b) \in Seq(S) /\ Len(Append(s, b)) = Len(s) + 1
        /\ \A i \in 1 .. Len(s) : Append(s, b)[i] = s[i]
        /\ Append(s, b)[Len(s) + 1] = b
    BY <2>1, AppendProperties
  <2> QED
    BY <1>1, <2>2 DEF S
<1>3. /\ <<a, b>> \in Seq({a, b}) /\ Len(<<a, b>>) = 2
      /\ <<a, b>>[1] = a /\ <<a, b>>[2] = b
  OBVIOUS
<1>4. \A k \in 1 .. 2 : Append(s, b)[k] = <<a, b>>[k]
  BY <1>2, <1>3
<1> QED
  BY <1>1, <1>2, <1>3, <1>4, SeqEqual

\* handle_tty_output of a context whose buffer has room.
LEMMA TtyOutput ==
  ASSUME NEW x, Context(x), x.out = << >>, x.tty.len < TTY_SIZE_MAX, NEW c \in Char,
         NEW h, h = handle_tty_output(x, c)
  PROVE  /\ Context(h) /\ SameHost(x, h) /\ h.curr_func = x.curr_func
         /\ h.tty.len < TTY_SIZE_MAX
         /\ Delivers(x, h, c) \/ Tears(x, h, c) \/ Collects(x, h, c)
PROOF
<1> DEFINE p == PutChar(x, c)
<1>1. TTY_SIZE_MAX \in Nat /\ TTY_SIZE_MAX > 1 /\ c \in Char
  BY Sizes
<1>2. x.tty \in [data : Data, len : 0 .. TTY_SIZE_MAX]
  BY DEF Context
<1>3. /\ PutIn(x.tty, c) \in [data : Data, len : 0 .. TTY_SIZE_MAX]
      /\ PutIn(x.tty, c).len = x.tty.len + 1
      /\ Filled(PutIn(x.tty, c)) = Append(Filled(x.tty), c)
      /\ CleanBehind(x.tty) => CleanBehind(PutIn(x.tty, c))
  BY <1>2, PutEffect
<1>4. p.tty = PutIn(x.tty, c)
  BY DEF Context, PutChar, PutIn
<1>5. /\ SameHost(x, p) /\ p.curr_func = x.curr_func /\ p.out = << >>
      /\ p.torn = x.torn /\ p.result = x.result
  BY DEF Context, PutChar, SameHost
<1>6. Context(p)
  BY <1>3, <1>4 DEF Context, PutChar
<1>7. p.tty.len \in 1 .. TTY_SIZE_MAX
  BY <1>1, <1>2, <1>3, <1>4
<1>8. h = IF c = NEWLINE THEN DeliverLine(p)
          ELSE IF p.tty.len >= TTY_SIZE_MAX THEN WrapAround(p) ELSE p
  BY DEF handle_tty_output
<1> HIDE DEF p
<1>9. CASE c = NEWLINE
  <2> DEFINE text == CString(p.tty)
             a == Event("TTY", "TTY_STDOUT", INFO, text, Len(text))
             b == Event("LOG", "TTY_STDOUT", INFO, text, 18 + Len(text))
             told == [p EXCEPT !.out = Append(@, a)]
  <2>1. p.tty \in [data : Data, len : 0 .. TTY_SIZE_MAX]
    BY <1>6 DEF Context
  <2>2. text \in Seq(Char) /\ Len(text) \in 0 .. TTY_SIZE_MAX + 1
    BY <2>1, CStringLen
  <2>3. CleanBehind(x.tty) => text = Tty!Printable(Append(Filled(x.tty), NEWLINE))
    BY <1>3, <1>4, <1>9, <2>1, CStringOfLine
  <2>4. PrefixLen("TTY_STDOUT", INFO) = 18
    BY DEF PrefixLen, LevelNameLen, ModuleNameLen, INFO, WARN
  <2>5. h = [[told EXCEPT !.out = Append(@, b)] EXCEPT !.tty = EmptyTty, !.torn = FALSE]
    BY <1>8, <1>9, <2>4 DEF DeliverLine, psycho_log_message_dispatch
  <2> HIDE DEF a, b, text
  <2>6. told.out = Append(<< >>, a) /\ Context(told) /\ SameHost(p, told) /\ told.curr_func = p.curr_func
    BY <1>5, <1>6 DEF Context, SameHost
  <2> HIDE DEF told
  <2>7. h.out = Append(Append(<< >>, a), b)
    BY <2>5, <2>6 DEF Context
  <2>8. Append(Append(<< >>, a), b) = <<a, b>>
    BY AppendTwo
  <2>9. h.tty = EmptyTty /\ h.torn = FALSE /\ SameHost(told, h) /\ h.curr_func = told.curr_func
    BY <2>5, <2>6 DEF Context, SameHost
  <2>10. Context(h)
    BY <2>5, <2>6, EmptyBuffer DEF Context
  <2>11. Delivers(x, h, c)
    BY <1>9, <2>2, <2>3, <2>7, <2>8, <2>9 DEF Delivers, a, b
  <2> QED
    BY <1>1, <1>5, <2>6, <2>9, <2>10, <2>11, EmptyBuffer DEF SameHost
<1>10. CASE c # NEWLINE /\ p.tty.len >= TTY_SIZE_MAX
  <2> DEFINE w == LOG_HANDLE(p, "BIOS", WARN, << >>)
             e == Event("LOG", "BIOS", WARN, << >>, 12)
  <2>1. PrefixLen("BIOS", WARN) + Len(<< >>) = 12
    BY DEF PrefixLen, LevelNameLen, ModuleNameLen, INFO, WARN
  <2>2. h = [w EXCEPT !.tty.len = 0, !.torn = TRUE]
    BY <1>8, <1>10 DEF WrapAround
  <2>3. w = p \/ w = [p EXCEPT !.out = Append(@, e)]
    BY <2>1 DEF LOG_HANDLE, psycho_log_message_dispatch
  <2> HIDE DEF w, e
  <2>4. /\ Context(w) /\ SameHost(p, w) /\ w.curr_func = p.curr_func /\ w.tty = p.tty
        /\ w.out = << >> \/ w.out = Append(<< >>, e)
    BY <1>5, <1>6, <2>3 DEF Context, SameHost
  <2>5. /\ h.tty.len = 0 /\ h.tty.data = w.tty.data /\ h.torn = TRUE /\ h.out = w.out
        /\ SameHost(w, h) /\ h.curr_func = w.curr_func
    BY <2>2, <2>4 DEF Context, SameHost
  <2>6. h.tty \in [data : Data, len : 0 .. TTY_SIZE_MAX]
    BY <1>1, <2>2, <2>4 DEF Context
  <2>7. Context(h)
    BY <2>2, <2>4, <2>6 DEF Context
  <2>8. Append(<< >>, e) = <<e>>
    OBVIOUS
  <2>9. Tears(x, h, c)
    BY <1>1, <1>3, <1>4, <1>7, <1>10, <2>4, <2>5, <2>8 DEF Tears, e
  <2> QED
    BY <1>1, <1>5, <2>4, <2>5, <2>7, <2>9 DEF SameHost
<1>11. CASE c # NEWLINE /\ ~ (p.tty.len >= TTY_SIZE_MAX)
  <2>1. h = p
    BY <1>8, <1>11
  <2> QED
    BY <1>1, <1>3, <1>4, <1>5, <1>6, <1>7, <1>11, <2>1 DEF Collects
<1> QED
  BY <1>9, <1>10, <1>11

(***************************************************************************)
(* The events of a step.                                                   *)
(***************************************************************************)
Reports(out) == {n \in DOMAIN out : /\ out[n].kind = "LOG"
                                    /\ out[n].id = "BIOS"
                                    /\ out[n].level = INFO}

Lines(out) == {k \in DOMAIN out : out[k].kind = "TTY"}

Fits(out) == \A n \in DOMAIN out : out[n].kind = "LOG" => out[n].len < MSG_SIZE_MAX

\* Events that handle_tty_output may raise: each message fits, and none is a
\* report of a call.
TtyEvents(out) == (\E S : out \in Seq(S)) /\ Fits(out) /\ Reports(out) = {}

\* The fields of an event.
LEMMA EventFields ==
  ASSUME NEW kind, NEW id, NEW level, NEW text, NEW len
  PROVE  /\ Event(kind, id, level, text, len).kind = kind
         /\ Event(kind, id, level, text, len).id = id
         /\ Event(kind, id, level, text, len).level = level
         /\ Event(kind, id, level, text, len).text = text
         /\ Event(kind, id, level, text, len).len = len
PROOF
  BY DEF Event

\* The events of handle_tty_output, for each of the three things it does.
LEMMA OutputEvents ==
  ASSUME NEW x, NEW h, NEW c
  PROVE  /\ h.out = << >> => TtyEvents(h.out) /\ Lines(h.out) = {}
         /\ Delivers(x, h, c) => /\ TtyEvents(h.out) /\ Lines(h.out) = {1}
                                 /\ CleanBehind(x.tty) =>
                                      h.out[1].text =
                                        Tty!Printable(Append(Filled(x.tty), NEWLINE))
         /\ Tears(x, h, c) => TtyEvents(h.out) /\ Lines(h.out) = {}
         /\ Collects(x, h, c) => TtyEvents(h.out) /\ Lines(h.out) = {}
PROOF
<1>1. TtyEvents(<< >>) /\ Lines(<< >>) = {}
  <2>1. << >> \in Seq({}) /\ DOMAIN << >> = {}
    OBVIOUS
  <2> QED
    BY <2>1 DEF TtyEvents, Lines, Fits, Reports
<1>2. ASSUME NEW e, e = Event("LOG", "BIOS", WARN, << >>, 12)
      PROVE  TtyEvents(<<e>>) /\ Lines(<<e>>) = {}
  <2>1. e.kind = "LOG" /\ e.level = WARN /\ e.len = 12
    BY <1>2, EventFields
  <2>2. <<e>> \in Seq({e}) /\ DOMAIN <<e>> = {1} /\ <<e>>[1] = e
    OBVIOUS
  <2>3. Fits(<<e>>)
    BY <2>1, <2>2, Sizes DEF Fits
  <2>4. Reports(<<e>>) = {} /\ Lines(<<e>>) = {}
    BY <2>1, <2>2 DEF Reports, Lines, INFO, WARN
  <2> QED
    BY <2>2, <2>3, <2>4 DEF TtyEvents
<1>3. ASSUME NEW text \in Seq(Char), Len(text) \in 0 .. TTY_SIZE_MAX + 1, NEW a, NEW b,
             a = Event("TTY", "TTY_STDOUT", INFO, text, Len(text)),
             b = Event("LOG", "TTY_STDOUT", INFO, text, 18 + Len(text))
      PROVE  TtyEvents(<<a, b>>) /\ Lines(<<a, b>>) = {1} /\ <<a, b>>[1].text = text
  <2>1. a.kind = "TTY" /\ a.text = text
    BY <1>3, EventFields
  <2>2. b.kind = "LOG" /\ b.id = "TTY_STDOUT" /\ b.len = 18 + Len(text)
    BY <1>3, EventFields
  <2>3. b.len < MSG_SIZE_MAX
    BY <1>3, <2>2, Sizes
  <2>4. <<a, b>> \in Seq({a, b}) /\ DOMAIN <<a, b>> = {1, 2} /\ <<a, b>>[1] = a /\ <<a, b>>[2] = b
    OBVIOUS
  <2>5. Fits(<<a, b>>)
    BY <2>1, <2>3, <2>4 DEF Fits
  <2>6. Reports(<<a, b>>) = {} /\ Lines(<<a, b>>) = {1}
    BY <2>1, <2>2, <2>4 DEF Reports, Lines
  <2> QED
    BY <2>1, <2>4, <2>5, <2>6 DEF TtyEvents
<1>4. Tears(x, h, c) => TtyEvents(h.out) /\ Lines(h.out) = {}
  BY <1>1, <1>2 DEF Tears
<1>5. Collects(x, h, c) => TtyEvents(h.out) /\ Lines(h.out) = {}
  BY <1>1 DEF Collects
<1>6. ASSUME Delivers(x, h, c)
      PROVE  /\ TtyEvents(h.out) /\ Lines(h.out) = {1}
             /\ CleanBehind(x.tty) =>
                  h.out[1].text = Tty!Printable(Append(Filled(x.tty), NEWLINE))
  <2>1. PICK text \in Seq(Char) :
          /\ Len(text) \in 0 .. TTY_SIZE_MAX + 1
          /\ h.out = <<Event("TTY", "TTY_STDOUT", INFO, text, Len(text)),
                       Event("LOG", "TTY_STDOUT", INFO, text, 18 + Len(text))>>
          /\ CleanBehind(x.tty) => text = Tty!Printable(Append(Filled(x.tty), NEWLINE))
    BY <1>6 DEF Delivers
  <2>2. TtyEvents(h.out) /\ Lines(h.out) = {1} /\ h.out[1].text = text
    BY <1>3, <2>1
  <2> QED
    BY <2>1, <2>2
<1> QED
  BY <1>1, <1>4, <1>5, <1>6

Report(text) == Event("LOG", "BIOS", INFO, text, 12 + Len(text))

\* What the report behind the other events changes.
Reported(out, text, o) ==
  /\ Fits(o) /\ Reports(o) = {Len(o)} /\ o[Len(o)].text = text
  /\ Lines(o) = Lines(out) /\ \A n \in Lines(out) : o[n] = out[n]

\* The report behind the other events.
LEMMA ReportEvent ==
  ASSUME NEW out, TtyEvents(out), NEW text, Len(text) \in 0 .. 3
  PROVE  Reported(out, text, Append(out, Report(text)))
PROOF
<1> DEFINE e == Report(text)
           o == Append(out, e)
<1>1. e.kind = "LOG" /\ e.id = "BIOS" /\ e.level = INFO /\ e.text = text /\ e.len = 12 + Len(text)
  BY EventFields DEF Report
<1> HIDE DEF e
<1>2. e.len < MSG_SIZE_MAX
  <2>1. \A k \in 0 .. 3 : 12 + k < MSG_SIZE_MAX
    BY Sizes
  <2> QED
    BY <1>1, <2>1
<1>3. PICK S : out \in Seq(S)
  BY DEF TtyEvents
<1> DEFINE T == S \cup {e}
           n == Len(out)
<1>4. out \in Seq(T) /\ e \in T
  BY <1>3
<1> HIDE DEF T
<1>5. n \in Nat /\ DOMAIN out = 1 .. n
  BY <1>4
<1>6. /\ o \in Seq(T) /\ Len(o) = n + 1
      /\ \A i \in 1 .. n : o[i] = out[i]
      /\ o[n + 1] = e
  BY <1>4, AppendProperties
<1> HIDE DEF o
<1>7. DOMAIN o = 1 .. n + 1
  BY <1>6
<1> HIDE DEF n
<1>8. \A i \in 1 .. n + 1 : i = n + 1 \/ (i \in 1 .. n /\ o[i] = out[i])
  BY <1>5, <1>6
<1>9. n + 1 \in 1 .. n + 1 /\ \A i \in 1 .. n : i \in 1 .. n + 1
  BY <1>5
<1>10. Fits(o)
  BY <1>1, <1>2, <1>5, <1>6, <1>7, <1>8 DEF TtyEvents, Fits
<1>11. Reports(o) = {n + 1}
  <2>1. n + 1 \in Reports(o)
    BY <1>1, <1>6, <1>7, <1>9 DEF Reports
  <2>2. ASSUME NEW i \in Reports(o) PROVE i = n + 1
    <3>1. i \in 1 .. n + 1
      BY <1>7 DEF Reports
    <3>2. ASSUME i # n + 1 PROVE FALSE
      <4>1. i \in 1 .. n /\ o[i] = out[i]
        BY <1>8, <3>1, <3>2
      <4>2. i \in Reports(out)
        BY <1>5, <4>1 DEF Reports
      <4> QED
        BY <4>2 DEF TtyEvents
    <3> QED
      BY <3>2
  <2> QED
    BY <2>1, <2>2
<1>12. Lines(o) = Lines(out)
  <2>1. ASSUME NEW i \in Lines(o) PROVE i \in Lines(out)
    BY <1>1, <1>5, <1>6, <1>7, <1>8 DEF Lines
  <2>2. ASSUME NEW i \in Lines(out) PROVE i \in Lines(o)
    BY <1>5, <1>6, <1>7, <1>9 DEF Lines
  <2> QED
    BY <2>1, <2>2
<1>13. \A i \in Lines(out) : o[i] = out[i]
  BY <1>5, <1>6 DEF Lines
<1>14. Reported(out, text, o)
  BY <1>1, <1>6, <1>10, <1>11, <1>12, <1>13 DEF Reported
<1> QED
  BY <1>14 DEF o, e

(***************************************************************************)
(* The hooks around a step.                                                *)
(***************************************************************************)
Prototype(c) == <<"void std_out_putchar(char c=">> \o process_arg_char(c)

\* A report has at most three variable parts.
LEMMA PrototypeLen ==
  ASSUME NEW c
  PROVE  Len(Prototype(c)) \in 0 .. 3
PROOF
<1> DEFINE p == <<"void std_out_putchar(char c=">>
           r == [char |-> c, escaped |-> c = NEWLINE]
           q == <<r, ")">>
           S == {"void std_out_putchar(char c=", r, ")"}
<1> HIDE DEF r
<1>1. p \in Seq(S) /\ Len(p) = 1 /\ q \in Seq(S) /\ Len(q) = 2
  OBVIOUS
<1>2. << >> \in Seq(S) /\ Len(<< >>) = 0
  OBVIOUS
<1>3. Prototype(c) = p \o << >> \/ Prototype(c) = p \o q
  BY DEF Prototype, process_arg_char, r
<1> HIDE DEF p, q, S
<1>4. Len(p \o << >>) \in 0 .. 3
  <2>1. Len(p \o << >>) = Len(p) + Len(<< >>)
    BY <1>1, <1>2, ConcatProperties
  <2> QED
    BY <1>1, <1>2, <2>1
<1>5. Len(p \o q) \in 0 .. 3
  <2>1. Len(p \o q) = Len(p) + Len(q)
    BY <1>1, ConcatProperties
  <2> QED
    BY <1>1, <2>1
<1> QED
  BY <1>3, <1>4, <1>5, Zenon

\* The TTY is switched off, or no function is called.
Idles(x, b) == b.tty = x.tty /\ b.torn = x.torn /\ b.out = << >>

Handles(x, b, c) ==
  Delivers(x, b, c) \/ Tears(x, b, c) \/ Collects(x, b, c) \/ Idles(x, b)

\* psycho_bios_trace_begin at a call of putchar.
LEMMA Begins ==
  ASSUME NEW x, Context(x), x.out = << >>, x.tty.len < TTY_SIZE_MAX,
         NEW pc, NEW t1, Traced(pc, t1), NEW a0 \in Nat,
         NEW b, b = psycho_bios_trace_begin(x, pc, t1, a0)
  PROVE  /\ a0 % CharSize \in Char
         /\ Context(b) /\ SameHost(x, b) /\ b.tty.len < TTY_SIZE_MAX
         /\ b.curr_func = "std_out_putchar" /\ b.result = Prototype(a0 % CharSize)
         /\ TtyEvents(b.out) /\ Handles(x, b, a0 % CharSize)
PROOF
<1> DEFINE c == a0 % CharSize
           y == [x EXCEPT !.curr_func = "std_out_putchar"]
           h == IF x.enable_tty_output THEN handle_tty_output(y, c) ELSE y
<1>1. c \in Char
  BY Sizes DEF Char
<1>2. b = [h EXCEPT !.result = Prototype(c)]
  BY DEF psycho_bios_trace_begin, process_prototype, Prototype
<1> HIDE DEF c
<1>3. /\ Context(y) /\ SameHost(x, y) /\ y.curr_func = "std_out_putchar"
      /\ y.out = << >> /\ y.tty = x.tty /\ y.torn = x.torn
  BY DEF Context, SameHost
<1> HIDE DEF y
<1>4. /\ Context(h) /\ SameHost(y, h) /\ h.curr_func = y.curr_func
      /\ h.tty.len < TTY_SIZE_MAX /\ Handles(y, h, c)
  <2>1. CASE x.enable_tty_output
    <3>1. h = handle_tty_output(y, c)
      BY <2>1
    <3> HIDE DEF h
    <3> QED
      BY <1>1, <1>3, <3>1, TtyOutput DEF Handles
  <2>2. CASE ~ x.enable_tty_output
    <3>1. h = y
      BY <2>2
    <3> HIDE DEF h
    <3> QED
      BY <1>3, <3>1 DEF Handles, Idles, SameHost
  <2> QED
    BY <2>1, <2>2
<1> HIDE DEF h
<1>5. /\ Context(b) /\ SameHost(h, b) /\ b.curr_func = h.curr_func
      /\ b.result = Prototype(c)
      /\ b.out = h.out /\ b.tty = h.tty /\ b.torn = h.torn
  BY <1>2, <1>4 DEF Context, SameHost
<1>6. Handles(x, b, c)
  BY <1>3, <1>4, <1>5 DEF Handles, Delivers, Tears, Collects, Idles
<1>7. TtyEvents(b.out)
  BY <1>6, OutputEvents DEF Handles, Idles
<1> QED
  BY <1>1, <1>3, <1>4, <1>5, <1>6, <1>7 DEF SameHost, c

\* psycho_bios_trace_end of a traced call.
LEMMA Ends ==
  ASSUME NEW b, Context(b), b.curr_func = "std_out_putchar", Len(b.result) \in 0 .. 3,
         TtyEvents(b.out), NEW e, e = psycho_bios_trace_end(b)
  PROVE  /\ Context(e) /\ SameHost(b, e) /\ e.curr_func = NoFunc
         /\ e.tty = b.tty /\ e.torn = b.torn
         /\ Fits(e.out) /\ Lines(e.out) = Lines(b.out)
         /\ \A n \in Lines(b.out) : e.out[n] = b.out[n]
         /\ IF b.modules["BIOS"] >= INFO
            THEN Reports(e.out) = {Len(e.out)} /\ e.out[Len(e.out)].text = b.result
            ELSE Reports(e.out) = {}
PROOF
<1> DEFINE r == Report(b.result)
           w == LOG_HANDLE(b, "BIOS", INFO, b.result)
<1>1. PrefixLen("BIOS", INFO) = 12
  BY DEF PrefixLen, LevelNameLen, ModuleNameLen, INFO, WARN
<1>2. e = [w EXCEPT !.curr_func = NoFunc]
  BY DEF psycho_bios_trace_end, NoFunc
<1>3. w = IF b.modules["BIOS"] >= INFO THEN [b EXCEPT !.out = Append(@, r)] ELSE b
  BY <1>1 DEF LOG_HANDLE, psycho_log_message_dispatch, Report
<1> HIDE DEF w, r
<1>4. /\ Context(w) /\ SameHost(b, w) /\ w.tty = b.tty /\ w.torn = b.torn
      /\ w.out = IF b.modules["BIOS"] >= INFO THEN Append(b.out, r) ELSE b.out
  <2>1. CASE b.modules["BIOS"] >= INFO
    <3>1. w = [b EXCEPT !.out = Append(@, r)]
      BY <1>3, <2>1
    <3>2. Context(w) /\ SameHost(b, w) /\ w.tty = b.tty /\ w.torn = b.torn /\ w.out = Append(b.out, r)
      BY <3>1 DEF Context, SameHost
    <3> QED
      BY <2>1, <3>2
  <2>2. CASE ~ (b.modules["BIOS"] >= INFO)
    BY <1>3, <2>2 DEF SameHost
  <2> QED
    BY <2>1, <2>2
<1>5. /\ Context(e) /\ SameHost(w, e) /\ e.curr_func = NoFunc
      /\ e.tty = w.tty /\ e.torn = w.torn /\ e.out = w.out
  BY <1>2, <1>4 DEF Context, SameHost
<1>6. CASE b.modules["BIOS"] >= INFO
  <2>1. e.out = Append(b.out, r)
    BY <1>4, <1>5, <1>6
  <2>2. Reported(b.out, b.result, Append(b.out, r))
    BY ReportEvent DEF r
  <2>3. Reported(b.out, b.result, e.out)
    BY <2>1, <2>2
  <2> QED
    BY <1>4, <1>5, <1>6, <2>3 DEF SameHost, Reported
<1>7. CASE ~ (b.modules["BIOS"] >= INFO)
  <2>1. e.out = b.out
    BY <1>4, <1>5, <1>7
  <2> QED
    BY <1>4, <1>5, <1>7, <2>1 DEF SameHost, TtyEvents
<1> QED
  BY <1>6, <1>7

(***************************************************************************)
(* The invariant and the theorems.                                         *)
(***************************************************************************)
\* Unless the line is torn, the buffer is clear behind it.  Without this a
\* line could end in what an earlier one left behind.
TailClean == ~ t.torn => CleanBehind(t.tty)

\* Between two calls.
Between(x) == Context(x) /\ x.tty.len < TTY_SIZE_MAX /\ x.curr_func = NoFunc

\* The type invariant in terms of one context.
LEMMA TypeOKContext ==
  ASSUME NEW x
  PROVE  Between(x) <=>
           x \in [modules : [ModuleId -> Level], out : {x.out},
                  tty : [data : [1 .. TTY_SIZE_MAX -> Char], len : 0 .. TTY_SIZE_MAX - 1],
                  curr_func : {NoFunc}, result : {x.result},
                  enable_tty_output : BOOLEAN, torn : BOOLEAN]
PROOF
  BY Sizes DEF Between, Context, Data

\* Nothing is raised and the TTY is as it was.
QuietStep == Between(t') /\ Idles(t, t') /\ call' = NoCall

\* A traced call, from the events that the hook in front of the step raised.
CallStep ==
  \E b : /\ Between(t') /\ call' \in Char
         /\ Handles(t, b, call') /\ TtyEvents(b.out)
         /\ t'.tty = b.tty /\ t'.torn = b.torn
         /\ Fits(t'.out) /\ Lines(t'.out) = Lines(b.out)
         /\ \A n \in Lines(b.out) : t'.out[n] = b.out[n]
         /\ IF t'.modules["BIOS"] >= INFO
            THEN Reports(t'.out) = {Len(t'.out)} /\ t'.out[Len(t'.out)].text = Prototype(call')
            ELSE Reports(t'.out) = {}

\* Every step is one of the two.
LEMMA NextEffect ==
  ASSUME Between(t), Next
  PROVE  QuietStep \/ CallStep
PROOF
<1> DEFINE x == Quiesced
<1>1. /\ Context(x) /\ x.out = << >> /\ x.tty = t.tty /\ x.torn = t.torn
      /\ x.tty.len < TTY_SIZE_MAX /\ x.curr_func = NoFunc
  BY DEF Between, Context, Quiesced
<1> HIDE DEF x
<1>2. ASSUME NEW pc \in GuestPc, NEW t1 \in GuestT1, NEW a0 \in GuestA0, Step(pc, t1, a0)
      PROVE  QuietStep \/ CallStep
  <2> DEFINE b == psycho_bios_trace_begin(x, pc, t1, a0)
  <2>1. a0 \in Nat
    BY TraceAssumption
  <2>2. t' = psycho_bios_trace_end(b)
    BY <1>2 DEF Step, x
  <2>3. CASE Traced(pc, t1)
    <3>1. call' = a0 % CharSize
      BY <1>2, <2>3 DEF Step
    <3>2. /\ a0 % CharSize \in Char
          /\ Context(b) /\ SameHost(x, b) /\ b.tty.len < TTY_SIZE_MAX
          /\ b.curr_func = "std_out_putchar" /\ b.result = Prototype(a0 % CharSize)
          /\ TtyEvents(b.out) /\ Handles(x, b, a0 % CharSize)
      BY <1>1, <2>1, <2>3, Begins
    <3> HIDE DEF b
    <3>3. Len(b.result) \in 0 .. 3
      BY <3>2, PrototypeLen
    <3>4. /\ Context(t') /\ SameHost(b, t') /\ t'.curr_func = NoFunc
          /\ t'.tty = b.tty /\ t'.torn = b.torn
          /\ Fits(t'.out) /\ Lines(t'.out) = Lines(b.out)
          /\ \A n \in Lines(b.out) : t'.out[n] = b.out[n]
          /\ IF b.modules["BIOS"] >= INFO
             THEN Reports(t'.out) = {Len(t'.out)} /\ t'.out[Len(t'.out)].text = b.result
             ELSE Reports(t'.out) = {}
      BY <2>2, <3>2, <3>3, Ends
    <3>5. Between(t')
      BY <3>2, <3>4 DEF Between
    <3>6. Handles(t, b, call')
      BY <1>1, <3>1, <3>2 DEF Handles, Delivers, Tears, Collects, Idles
    <3>7. CallStep
      BY <3>1, <3>2, <3>4, <3>5, <3>6 DEF CallStep, SameHost
    <3> QED
      BY <3>7
  <2>4. CASE ~ Traced(pc, t1)
    <3>1. call' = NoCall
      BY <1>2, <2>4 DEF Step
    <3>2. b = x
      BY <2>4 DEF psycho_bios_trace_begin
    <3>3. t' = x
      BY <1>1, <2>2, <3>2 DEF psycho_bios_trace_end
    <3> QED
      BY <1>1, <3>1, <3>3 DEF QuietStep, Between, Idles
  <2> QED
    BY <2>3, <2>4
<1>3. ASSUME NEW level \in HostLevel, SetGlobal(level) PROVE QuietStep
  <2>1. level \in Level
    BY TraceAssumption
  <2>2. t' = [x EXCEPT !.modules = [id \in ModuleId |-> level]] /\ call' = NoCall
    BY <1>3 DEF SetGlobal, psycho_log_level_set_global, x
  <2>3. Between(t')
    BY <1>1, <2>1, <2>2 DEF Between, Context
  <2>4. Idles(t, t')
    BY <1>1, <2>2 DEF Idles, Context
  <2> QED
    BY <2>2, <2>3, <2>4 DEF QuietStep
<1>4. ASSUME NEW id \in HostModule, NEW level \in HostLevel, SetModule(id, level) PROVE QuietStep
  <2>1. id \in ModuleId /\ level \in Level
    BY TraceAssumption
  <2>2. t' = [x EXCEPT !.modules[id] = level] /\ call' = NoCall
    BY <1>4 DEF SetModule, psycho_log_module_level_set, x
  <2>3. Between(t')
    BY <1>1, <2>1, <2>2 DEF Between, Context
  <2>4. Idles(t, t')
    BY <1>1, <2>2 DEF Idles, Context
  <2> QED
    BY <2>2, <2>3, <2>4 DEF QuietStep
<1>5. ASSUME NEW enable \in BOOLEAN, EnableTty(enable) PROVE QuietStep
  <2>1. t' = [x EXCEPT !.enable_tty_output = enable] /\ call' = NoCall
    BY <1>5 DEF EnableTty, psycho_tty_stdout_enable, x
  <2>2. Between(t')
    BY <1>1, <2>1 DEF Between, Context
  <2>3. Idles(t, t')
    BY <1>1, <2>1 DEF Idles, Context
  <2> QED
    BY <2>1, <2>2, <2>3 DEF QuietStep
<1> QED
  BY <1>2, <1>3, <1>4, <1>5 DEF Next

\* The invariant holds of the zero-initialised context.
LEMMA InitInv ==
  ASSUME Init
  PROVE  TypeOK /\ TailClean /\ MessagesFit /\ CallsReported /\ Tty!Init
PROOF
<1>1. /\ Context(InitTrace) /\ InitTrace.tty = EmptyTty /\ InitTrace.out = << >>
      /\ InitTrace.curr_func = NoFunc /\ InitTrace.torn = FALSE
  <2>1. [id \in ModuleId |-> OFF] \in [ModuleId -> Level]
    BY DEF OFF, TRACE, Level
  <2> QED
    BY <2>1, EmptyBuffer DEF InitTrace, Context
<1>2. Between(t) /\ t.tty = EmptyTty /\ t.out = << >> /\ t.torn = FALSE
  BY <1>1, EmptyBuffer, Sizes DEF Init, Between
<1>3. TypeOK
  BY <1>2, TypeOKContext DEF TypeOK, Init
<1>4. TailClean
  BY <1>2, EmptyBuffer DEF TailClean
<1>5. DOMAIN t.out = {}
  BY <1>2
<1>6. MessagesFit /\ CallsReported
  BY <1>5 DEF MessagesFit, CallsReported, Init
<1>7. SubSeq(t.tty.data, 1, t.tty.len) = << >>
  <2>1. t.tty.data \in Seq(Char) /\ t.tty.len = 0
    BY <1>2, EmptyBuffer, Sizes DEF Data
  <2> QED
    BY <2>1, SubSeqEmpty
<1>8. DOMAIN Delivered = {}
  BY <1>5 DEF Delivered
<1> QED
  BY <1>2, <1>3, <1>4, <1>6, <1>7, <1>8 DEF Tty!Init, Tty!Nothing

\* A step keeps the invariant, and what it raises is right.
LEMMA NextInv ==
  ASSUME TypeOK, TailClean, Next
  PROVE  TypeOK' /\ TailClean' /\ MessagesFit' /\ CallsReported'
PROOF
<1>1. Between(t)
  BY TypeOKContext DEF TypeOK
<1>2. QuietStep \/ CallStep
  BY <1>1, NextEffect
<1>3. CASE QuietStep
  <2>1. TypeOK'
    BY <1>3, TypeOKContext DEF QuietStep, TypeOK
  <2>2. TailClean'
    BY <1>3 DEF QuietStep, Idles, TailClean
  <2>3. DOMAIN t'.out = {}
    BY <1>3 DEF QuietStep, Idles
  <2>4. MessagesFit' /\ CallsReported'
    BY <1>3, <2>3 DEF QuietStep, MessagesFit, CallsReported
  <2> QED
    BY <2>1, <2>2, <2>4
<1>4. CASE CallStep
  <2>1. PICK b : /\ Between(t') /\ call' \in Char
                 /\ Handles(t, b, call') /\ TtyEvents(b.out)
                 /\ t'.tty = b.tty /\ t'.torn = b.torn
                 /\ Fits(t'.out)
                 /\ IF t'.modules["BIOS"] >= INFO
                    THEN /\ Reports(t'.out) = {Len(t'.out)}
                         /\ t'.out[Len(t'.out)].text = Prototype(call')
                    ELSE Reports(t'.out) = {}
    BY <1>4 DEF CallStep
  <2>2. TypeOK'
    BY <2>1, TypeOKContext DEF TypeOK
  <2>3. TailClean'
    <3>1. CASE Delivers(t, b, call')
      BY <2>1, <3>1, EmptyBuffer DEF Delivers, TailClean
    <3>2. CASE Tears(t, b, call')
      BY <2>1, <3>2 DEF Tears, TailClean
    <3>3. CASE Collects(t, b, call')
      BY <1>1, <2>1, <3>3, PutEffect DEF Collects, TailClean, Between, Context
    <3>4. CASE Idles(t, b)
      BY <2>1, <3>4 DEF Idles, TailClean
    <3> QED
      BY <2>1, <3>1, <3>2, <3>3, <3>4 DEF Handles
  <2>4. MessagesFit'
    BY <2>1 DEF Fits, MessagesFit
  <2>5. call' # NoCall
    BY <2>1, Sizes DEF Char, NoCall
  <2>6. CallsReported'
    BY <2>1, <2>5 DEF Reports, CallsReported, Prototype
  <2> QED
    BY <2>2, <2>3, <2>4, <2>6
<1> QED
  BY <1>2, <1>3, <1>4

\* A step is a step of the line buffer.
LEMMA NextLine ==
  ASSUME TypeOK, TailClean, Next
  PROVE  Tty!Next
PROOF
<1> DEFINE lines == [n \in Lines(t'.out) |-> t'.out[n].text]
<1>1. Between(t) /\ t.tty \in [data : Data, len : 0 .. TTY_SIZE_MAX] /\ t.tty.len < TTY_SIZE_MAX
  BY TypeOKContext DEF TypeOK, Between, Context
<1>2. QuietStep \/ CallStep
  BY <1>1, NextEffect
<1>3. /\ SubSeq(t.tty.data, 1, t.tty.len) = Filled(t.tty)
      /\ SubSeq(t.tty.data, 1, t.tty.len)' = Filled(t'.tty)
      /\ Delivered' = lines
  BY DEF Filled, Delivered, Lines
<1>4. DOMAIN lines = Lines(t'.out)
  OBVIOUS
<1>5. t.tty.data \in Seq(Char) /\ Len(Filled(t.tty)) = t.tty.len
  BY <1>1, Sizes DEF Data, Filled
<1>6. CASE QuietStep
  <2>1. Lines(t'.out) = {}
    BY <1>6 DEF QuietStep, Idles, Lines
  <2>2. Filled(t'.tty) = Filled(t.tty) /\ t'.torn = t.torn
    BY <1>6 DEF QuietStep, Idles
  <2>3. Tty!Quiet
    BY <1>3, <1>4, <2>1, <2>2 DEF Tty!Quiet, Tty!Nothing
  <2> QED
    BY <2>3 DEF Tty!Next
<1>7. CASE CallStep
  <2>1. PICK b : /\ call' \in Char /\ Handles(t, b, call')
                 /\ t'.tty = b.tty /\ t'.torn = b.torn
                 /\ Lines(t'.out) = Lines(b.out)
                 /\ \A n \in Lines(b.out) : t'.out[n] = b.out[n]
    BY <1>7 DEF CallStep
  <2>2. CASE Idles(t, b)
    <3>1. Lines(b.out) = {}
      BY <2>2, OutputEvents DEF Idles
    <3>2. Filled(t'.tty) = Filled(t.tty) /\ t'.torn = t.torn
      BY <2>1, <2>2 DEF Idles
    <3>3. Tty!Quiet
      BY <1>3, <1>4, <2>1, <3>1, <3>2 DEF Tty!Quiet, Tty!Nothing
    <3> QED
      BY <3>3 DEF Tty!Next
  <2>3. CASE Collects(t, b, call')
    <3>1. Lines(b.out) = {}
      BY <2>3, OutputEvents
    <3>2. Filled(t'.tty) = Append(Filled(t.tty), call')
      BY <1>1, <2>1, <2>3, PutEffect DEF Collects
    <3>3. Tty!Collect(call')
      BY <1>3, <1>4, <1>5, <2>1, <2>3, <3>1, <3>2 DEF Collects, Tty!Collect, Tty!Nothing
    <3> QED
      BY <2>1, <3>3 DEF Tty!Next
  <2>4. CASE Tears(t, b, call')
    <3>1. Lines(b.out) = {}
      BY <2>4, OutputEvents
    <3>2. Filled(t'.tty) = << >>
      BY <2>1, <2>4, <1>7, SubSeqEmpty DEF Tears, Filled
    <3>3. Tty!Tear(call')
      BY <1>3, <1>4, <1>5, <2>1, <2>4, <3>1, <3>2 DEF Tears, Tty!Tear, Tty!Nothing
    <3> QED
      BY <2>1, <3>3 DEF Tty!Next
  <2>5. CASE Delivers(t, b, call')
    <3>1. /\ Lines(b.out) = {1}
          /\ CleanBehind(t.tty) =>
               b.out[1].text = Tty!Printable(Append(Filled(t.tty), NEWLINE))
      BY <2>5, OutputEvents
    <3>2. Filled(t'.tty) = << >> /\ t'.torn = FALSE
      BY <2>1, <2>5, EmptyBuffer, SubSeqEmpty DEF Delivers, Filled
    <3>3. 1 \in DOMAIN lines /\ DOMAIN lines = {1} /\ lines[1] = b.out[1].text
      BY <1>4, <2>1, <3>1
    <3>4. t.torn \/ lines[1] = Tty!Printable(Append(Filled(t.tty), NEWLINE))
      BY <3>1, <3>3 DEF TailClean
    <3>5. Tty!Deliver
      BY <1>3, <3>2, <3>3, <3>4 DEF Tty!Deliver
    <3> QED
      BY <3>5 DEF Tty!Next
  <2> QED
    BY <2>1, <2>2, <2>3, <2>4, <2>5 DEF Handles
<1> QED
  BY <1>2, <1>6, <1>7

\* The inductive invariant of the tracer.
LEMMA Invariant == Spec => [](TypeOK /\ TailClean)
PROOF
<1>1. Init => TypeOK /\ TailClean
  BY InitInv
<1>2. TypeOK /\ TailClean /\ [Next]_vars => (TypeOK /\ TailClean)'
  <2>1. ASSUME TypeOK, TailClean, UNCHANGED vars PROVE (TypeOK /\ TailClean)'
    BY <2>1 DEF TypeOK, TailClean, CleanBehind, vars
  <2> QED
    BY <2>1, NextInv
<1> QED
  BY <1>1, <1>2, PTL DEF Spec

\* The TTY buffer has room for one more character between two calls, and no
\* traced function is left over (bios-trace.c:58, 141).
THEOREM TypeCorrect == Spec => []TypeOK
PROOF
  BY Invariant, PTL

\* Every message that psycho_log_message_dispatch formats ends inside its
\* buffer (log.c:85).
THEOREM NoOverrun == Spec => []MessagesFit
PROOF
<1>1. Init => MessagesFit
  BY InitInv
<1>2. TypeOK /\ TailClean /\ MessagesFit /\ [Next]_vars => MessagesFit'
  <2>1. ASSUME MessagesFit, UNCHANGED vars PROVE MessagesFit'
    BY <2>1 DEF MessagesFit, vars
  <2> QED
    BY <2>1, NextInv
<1> QED
  BY <1>1, <1>2, Invariant, PTL DEF Spec

\* Every traced call is reported once, with its argument, if the BIOS
\* module's level asks for it, and nothing else is (bios-trace.c:138).
THEOREM CallsAreReported == Spec => []CallsReported
PROOF
<1>1. Init => CallsReported
  BY InitInv
<1>2. TypeOK /\ TailClean /\ CallsReported /\ [Next]_vars => CallsReported'
  <2>1. ASSUME CallsReported, UNCHANGED vars PROVE CallsReported'
    BY <2>1 DEF CallsReported, vars
  <2> QED
    BY <2>1, NextInv
<1> QED
  BY <1>1, <1>2, Invariant, PTL DEF Spec

\* The wrapping buffer implements a line buffer (bios-trace.c:57-79): the
\* initial states are initial states of it, and every step is one of its
\* steps or leaves it alone.
THEOREM LineRefinement == Spec => TtyLineSpec
PROOF
<1>1. Init => Tty!Init
  BY InitInv
<1>2. TypeOK /\ TailClean /\ [Next]_vars => [Tty!Next]_(Tty!vars)
  <2>1. ASSUME UNCHANGED vars PROVE UNCHANGED Tty!vars
    BY <2>1 DEF vars, Tty!vars, Delivered
  <2> QED
    BY <2>1, NextLine
<1> QED
  BY <1>1, <1>2, Invariant, PTL DEF Spec, TtyLineSpec, Tty!Spec
=============================================================================
