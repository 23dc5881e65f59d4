--------------------------- MODULE DisplayProofs ---------------------------
(***************************************************************************)
(* Theorems about the displays and the line buffer, for every graph of     *)
(* containers, every width and every stream.                               *)
(***************************************************************************)
EXTENDS Display, WellFoundedInduction, FiniteSetTheorems, SequenceTheorems, TLAPS

----------------------------------------------------------------------------
(* Induction and recursion over the numbers, with a set or a function in   *)
(* place of a formula.                                                     *)

LEMMA SetInduction ==
    ASSUME NEW S, 0 \in S, \A n \in Nat : n \in S => n + 1 \in S
    PROVE  Nat \subseteq S
<1> SUFFICES ASSUME Nat \ S # {} PROVE FALSE
  OBVIOUS
<1>1. IsWellFoundedOn({p \in Nat \X Nat : p[1] < p[2]}, Nat)
  BY NatLessThanWellFounded DEF OpToRel
<1>2. PICK n \in Nat \ S : \A m \in Nat \ S : <<m, n>> \notin {p \in Nat \X Nat : p[1] < p[2]}
  BY <1>1, WFMin
<1>3. n - 1 \in Nat /\ n - 1 < n /\ (n - 1) + 1 = n
  BY <1>2
<1>4. n - 1 \in S
  BY <1>2, <1>3
<1> QED BY <1>2, <1>3, <1>4

HasRun(T, N, base, step) ==
    \E f \in [0..N -> T] : f[0] = base /\ \A i \in 1..N : f[i] = step[i][f[i - 1]]

\* Steps that stay in a set can be taken one after another.
LEMMA Recursion ==
    ASSUME NEW T, NEW N \in Nat, NEW base \in T, NEW step \in [1..N -> [T -> T]]
    PROVE  HasRun(T, N, base, step)
<1> DEFINE Upto(n) == {f \in [0..n -> T] :
                           f = [i \in 0..n |-> IF i = 0 THEN base ELSE step[i][f[i - 1]]]}
           S == {n \in Nat : n <= N => Upto(n) # {}}
<1>1. 0 \in S
  <2> DEFINE f == [i \in 0..0 |-> base]
  <2>1. f \in [0..0 -> T] /\ f = [i \in 0..0 |-> IF i = 0 THEN base ELSE step[i][f[i - 1]]]
    OBVIOUS
  <2> QED BY <2>1
<1>2. ASSUME NEW n \in Nat, n \in S PROVE n + 1 \in S
  <2> SUFFICES ASSUME n + 1 <= N PROVE Upto(n + 1) # {}
    OBVIOUS
  <2>1. PICK f \in Upto(n) : TRUE
    BY <1>2
  <2> DEFINE g == [i \in 0..n + 1 |-> IF i = n + 1 THEN step[n + 1][f[n]] ELSE f[i]]
  <2>2. f \in [0..n -> T] /\ f[0] = base /\ \A i \in 1..n : f[i] = step[i][f[i - 1]]
    BY <2>1
  <2>3. step[n + 1][f[n]] \in T
    BY <2>2
  <2>4. g \in [0..n + 1 -> T]
    BY <2>2, <2>3
  <2>5. g = [i \in 0..n + 1 |-> IF i = 0 THEN base ELSE step[i][g[i - 1]]]
    <3>1. ASSUME NEW i \in 0..n + 1 PROVE g[i] = IF i = 0 THEN base ELSE step[i][g[i - 1]]
      <4>1. CASE i = 0
        BY <4>1, <2>2
      <4>2. CASE i = n + 1
        BY <4>2, <2>2
      <4>3. CASE i \in 1..n
        BY <4>3, <2>2
      <4> QED BY <4>1, <4>2, <4>3
    <3> QED BY <3>1
  <2> QED BY <2>4, <2>5
<1>3. N \in S
  BY <1>1, <1>2, SetInduction
<1>4. PICK f \in Upto(N) : TRUE
  BY <1>3
<1> QED BY <1>4 DEF HasRun

\* What holds first and passes from one index to the next holds at all of them.
LEMMA Along ==
    ASSUME NEW S, NEW N \in Nat, NEW f, f[0] \in S,
           \A i \in 1..N : f[i - 1] \in S => f[i] \in S
    PROVE  \A i \in 0..N : f[i] \in S
<1> DEFINE Q == {i \in Nat : i <= N => f[i] \in S}
<1>1. 0 \in Q
  OBVIOUS
<1>2. ASSUME NEW i \in Nat, i \in Q PROVE i + 1 \in Q
  <2> SUFFICES ASSUME i + 1 <= N PROVE f[i + 1] \in S
    OBVIOUS
  <2>1. i + 1 \in 1..N /\ (i + 1) - 1 = i /\ f[i] \in S
    BY <1>2
  <2> QED BY <2>1
<1>3. Nat \subseteq Q
  <2> HIDE DEF Q
  <2> QED BY <1>1, <1>2, SetInduction
<1> QED BY <1>3

----------------------------------------------------------------------------
(* LineBuffer::push, byte by byte.                                         *)

BytesPushed(b, chunk) ==
    \E f : /\ f[0] = b
           /\ \A i \in 1..Len(chunk) : f[i] = PushByte(f[i - 1], chunk[i])
           /\ Push(b, chunk) = f[Len(chunk)]

LEMMA PushRuns ==
    ASSUME NEW T, NEW b \in T, NEW chunk, Len(chunk) \in Nat,
           \A x \in T : \A i \in 1..Len(chunk) : PushByte(x, chunk[i]) \in T
    PROVE  BytesPushed(b, chunk)
<1> DEFINE N == Len(chunk)
           step == [i \in 1..N |-> [x \in T |-> PushByte(x, chunk[i])]]
           Def(f) == [i \in 0..N |-> IF i = 0 THEN b ELSE PushByte(f[i - 1], chunk[i])]
           after == CHOOSE f : f = Def(f)
<1>1. step \in [1..N -> [T -> T]] /\ N \in Nat
  OBVIOUS
<1>2. HasRun(T, N, b, step)
  <2> HIDE DEF step, N
  <2> QED BY <1>1, Recursion
<1>3. PICK f \in [0..N -> T] : f[0] = b /\ \A i \in 1..N : f[i] = step[i][f[i - 1]]
  BY <1>2 DEF HasRun
<1>4. ASSUME NEW i \in 1..N PROVE f[i] = PushByte(f[i - 1], chunk[i])
  <2>1. f[i - 1] \in T
    OBVIOUS
  <2>2. step[i][f[i - 1]] = PushByte(f[i - 1], chunk[i])
    BY <2>1
  <2> QED BY <1>3, <2>2
<1>5. f = Def(f)
  BY <1>3, <1>4
<1>6. after = Def(after)
  BY <1>5
<1>7. Push(b, chunk) = after[N]
  BY DEF Push
<1> HIDE DEF after
<1>8. after[0] = b /\ \A i \in 1..N : after[i] = PushByte(after[i - 1], chunk[i])
  BY <1>6
<1> QED BY <1>7, <1>8 DEF BytesPushed

----------------------------------------------------------------------------
(* The lines of a stream.                                                  *)

HasStart(bytes, i) == \E j : IsStart(bytes, i, j)

LEMMA StartExists ==
    ASSUME NEW bytes, NEW i \in Nat, i >= 1
    PROVE  HasStart(bytes, i)
<1> DEFINE Q == {k \in Nat : \E j : IsStart(bytes, k + 1, j)}
<1>1. 0 \in Q
  <2>1. IsStart(bytes, 0 + 1, 0)
    BY DEF IsStart
  <2> QED BY <2>1
<1>2. ASSUME NEW k \in Nat, k \in Q PROVE k + 1 \in Q
  <2>1. PICK j : IsStart(bytes, k + 1, j)
    BY <1>2
  <2>2. CASE EndsLine(bytes, k + 1)
    <3>1. IsStart(bytes, (k + 1) + 1, k + 1)
      BY <2>2 DEF IsStart
    <3> QED BY <3>1
  <2>3. CASE ~EndsLine(bytes, k + 1)
    <3>1. IsStart(bytes, (k + 1) + 1, j)
      BY <2>1, <2>3 DEF IsStart
    <3> QED BY <3>1
  <2> QED BY <2>2, <2>3
<1>3. Nat \subseteq Q
  <2> HIDE DEF Q
  <2> QED BY <1>1, <1>2, SetInduction
<1>4. i - 1 \in Q /\ (i - 1) + 1 = i
  <2> HIDE DEF Q
  <2> QED BY <1>3
<1> QED BY <1>4 DEF HasStart

LEMMA StartUnique ==
    ASSUME NEW bytes, NEW i \in Nat, NEW j, NEW k,
           IsStart(bytes, i, j), IsStart(bytes, i, k)
    PROVE  j = k
<1>1. j \in Nat /\ k \in Nat /\ j < i /\ k < i
  BY DEF IsStart
<1>2. ~(j < k)
  <2> SUFFICES ASSUME j < k PROVE FALSE
    OBVIOUS
  <2>1. k \in j + 1..i - 1 /\ k # 0
    BY <1>1
  <2> QED BY <2>1 DEF IsStart
<1>3. ~(k < j)
  <2> SUFFICES ASSUME k < j PROVE FALSE
    OBVIOUS
  <2>1. j \in k + 1..i - 1 /\ j # 0
    BY <1>1
  <2> QED BY <2>1 DEF IsStart
<1> QED BY <1>1, <1>2, <1>3

LineUpTo(bytes, i) == IF i > 1 /\ CrLf(bytes, i - 1) THEN i - 2 ELSE i - 1

LEMMA LineFrom ==
    ASSUME NEW bytes, NEW i \in Nat, NEW j, IsStart(bytes, i, j)
    PROVE  LineAt(bytes, i) = SubSeq(bytes, j + 1, LineUpTo(bytes, i))
<1> DEFINE start == CHOOSE k \in 0..i - 1 : IsStart(bytes, i, k)
<1>1. IsStart(bytes, i, start)
  <2>1. j \in 0..i - 1
    BY DEF IsStart
  <2> QED BY <2>1
<1>2. start = j
  <2> HIDE DEF start
  <2> QED BY <1>1, StartUnique
<1>3. LineAt(bytes, i) = SubSeq(bytes, start + 1, LineUpTo(bytes, i))
  BY DEF LineAt, LineUpTo
<1> HIDE DEF start
<1> QED BY <1>2, <1>3

\* Two streams that agree on what is before m, and on the CRLFs that begin there.
Agree(c, d, m) ==
    /\ m - 1 <= Len(c) /\ m - 1 <= Len(d)
    /\ \A i \in 1..m - 1 : c[i] = d[i] /\ (CrLf(c, i) <=> CrLf(d, i))

LEMMA AgreeEnds ==
    ASSUME NEW c, NEW d, NEW m \in Nat, Agree(c, d, m)
    PROVE  /\ \A i \in 1..m - 1 : EndsLine(c, i) <=> EndsLine(d, i)
           /\ \A i \in 1..m : \A j : IsStart(c, i, j) <=> IsStart(d, i, j)
<1>1. \A i \in 1..m - 1 : EndsLine(c, i) <=> EndsLine(d, i)
  BY DEF Agree, EndsLine
<1>2. ASSUME NEW i \in 1..m, NEW j PROVE IsStart(c, i, j) <=> IsStart(d, i, j)
  <2>1. CASE j \in 0..i - 1
    <3>1. j = 0 \/ j \in 1..m - 1
      BY <2>1
    <3>2. \A k \in j + 1..i - 1 : k \in 1..m - 1
      BY <2>1
    <3> QED BY <1>1, <2>1, <3>1, <3>2 DEF IsStart
  <2>2. CASE j \notin 0..i - 1
    BY <2>2 DEF IsStart
  <2> QED BY <2>1, <2>2
<1> QED BY <1>1, <1>2

LEMMA AgreeLines ==
    ASSUME NEW B, NEW c \in Seq(B), NEW d \in Seq(B), NEW m \in Nat, Agree(c, d, m)
    PROVE  /\ \A i \in 1..m : LineAt(c, i) = LineAt(d, i)
           /\ \A i \in 1..m : Redrawn(c, i) <=> Redrawn(d, i)
           /\ \A i \in 1..m - 1 : Shown(c, i) <=> Shown(d, i)
<1>1. ASSUME NEW i \in 1..m PROVE LineAt(c, i) = LineAt(d, i)
  <2>0. i \in Nat /\ i >= 1
    OBVIOUS
  <2>00. HasStart(c, i)
    BY <2>0, StartExists
  <2>1. PICK j : IsStart(c, i, j)
    BY <2>00 DEF HasStart
  <2>2. IsStart(d, i, j)
    BY <2>1, AgreeEnds
  <2>3. LineUpTo(c, i) = LineUpTo(d, i) /\ LineUpTo(c, i) \in Int /\ LineUpTo(c, i) <= m - 1
    <3>1. i > 1 => i - 1 \in 1..m - 1
      OBVIOUS
    <3> QED BY <3>1 DEF LineUpTo, Agree
  <2>4. j + 1 \in Nat /\ j + 1 >= 1
    BY <2>1 DEF IsStart
  <2>5. SubSeq(c, j + 1, LineUpTo(c, i)) = SubSeq(d, j + 1, LineUpTo(c, i))
    <3> DEFINE u == LineUpTo(c, i)
    <3>1. u <= Len(c) /\ u <= Len(d) /\ u \in Int
      BY <2>3 DEF Agree
    <3>2. \A k \in 1..u : c[k] = d[k]
      BY <2>3 DEF Agree
    <3> HIDE DEF u
    <3>3. SubSeq(c, j + 1, u) = [k \in 1..(1 + u - (j + 1)) |-> c[k + (j + 1) - 1]]
      BY <2>4, <3>1
    <3>4. SubSeq(d, j + 1, u) = [k \in 1..(1 + u - (j + 1)) |-> d[k + (j + 1) - 1]]
      BY <2>4, <3>1
    <3>5. \A k \in 1..(1 + u - (j + 1)) : k + (j + 1) - 1 \in 1..u
      BY <2>4, <3>1
    <3> QED BY <3>2, <3>3, <3>4, <3>5 DEF u
  <2>6. LineAt(c, i) = SubSeq(c, j + 1, LineUpTo(c, i))
    BY <2>0, <2>1, LineFrom
  <2>7. LineAt(d, i) = SubSeq(d, j + 1, LineUpTo(d, i))
    BY <2>0, <2>2, LineFrom
  <2> QED BY <2>3, <2>5, <2>6, <2>7
<1>2. ASSUME NEW i \in 1..m PROVE Redrawn(c, i) <=> Redrawn(d, i)
  <2>1. \A k \in 1..i - 1 : k \in 1..m - 1 /\ k \in 1..m
    OBVIOUS
  <2>2. \A k \in 1..i - 1 : /\ c[k] = d[k] /\ (CrLf(c, k) <=> CrLf(d, k))
                            /\ LineAt(c, k) = LineAt(d, k)
    BY <1>1, <2>1 DEF Agree
  <2>3. \A j \in 1..i - 1 : \A k \in j..i - 1 : k \in 1..i - 1
    OBVIOUS
  <2> QED BY <2>2, <2>3 DEF Redrawn
<1>3. ASSUME NEW i \in 1..m - 1 PROVE Shown(c, i) <=> Shown(d, i)
  <2>1. i \in 1..m /\ i <= Len(c) /\ i <= Len(d) /\ c[i] = d[i]
    BY DEF Agree
  <2> QED BY <2>1, <1>1, <1>2 DEF Shown
<1> QED BY <1>1, <1>2, <1>3

----------------------------------------------------------------------------
(* What the buffer holds once the bytes before m have been read.           *)

ShownBefore(bytes, m) == {i \in 1..m - 1 : EndsLine(bytes, i) /\ Shown(bytes, i)}

\* e lists the numbers of S in order.
Lists(e, n, S) ==
    /\ e \in [1..n -> S]
    /\ \A i, j \in 1..n : i < j => e[i] < e[j]
    /\ \A x \in S : \E i \in 1..n : e[i] = x

Written(bytes, lines, S) ==
    \E e : Lists(e, Len(lines), S) /\ \A k \in 1..Len(lines) : lines[k] = LineAt(bytes, e[k])

Byte == STRING

Buffers == [pending : Seq(Byte), pending_cr : BOOLEAN, after_lone_cr : BOOLEAN,
            lines : Seq(Seq(Byte))]

SoFar(bytes, b, m) ==
    /\ b.pending = LineAt(bytes, m)
    /\ b.after_lone_cr <=> Redrawn(bytes, m)
    /\ Written(bytes, b.lines, ShownBefore(bytes, m))

LEMMA WrittenOneMore ==
    ASSUME NEW bytes, NEW lines \in Seq(Seq(Byte)), NEW S \in SUBSET Nat, NEW m \in Nat,
           \A i \in S : i < m, Written(bytes, lines, S), LineAt(bytes, m) \in Seq(Byte)
    PROVE  Written(bytes, Append(lines, LineAt(bytes, m)), S \cup {m})
<1> DEFINE n == Len(lines)
           more == Append(lines, LineAt(bytes, m))
<1>1. PICK e : Lists(e, n, S) /\ \A k \in 1..n : lines[k] = LineAt(bytes, e[k])
  BY DEF Written
<1> DEFINE g == [k \in 1..n + 1 |-> IF k = n + 1 THEN m ELSE e[k]]
<1>2. n \in Nat /\ Len(more) = n + 1 /\ more[n + 1] = LineAt(bytes, m)
      /\ \A k \in 1..n : more[k] = lines[k]
  OBVIOUS
<1> HIDE DEF n, more
<1>3. e \in [1..n -> S] /\ (\A i, j \in 1..n : i < j => e[i] < e[j])
      /\ \A x \in S : \E i \in 1..n : e[i] = x
  BY <1>1 DEF Lists
<1>4. g \in [1..n + 1 -> S \cup {m}]
  BY <1>2, <1>3
<1>5. ASSUME NEW i \in 1..n + 1, NEW j \in 1..n + 1, i < j PROVE g[i] < g[j]
  <2>1. i \in 1..n /\ e[i] \in S
    BY <1>2, <1>3, <1>5
  <2>2. CASE j = n + 1
    <3>1. g[i] = e[i] /\ g[j] = m
      BY <2>1, <2>2, <1>2
    <3> QED BY <2>1, <3>1
  <2>3. CASE j \in 1..n
    BY <2>1, <2>3, <1>2, <1>3, <1>5
  <2> QED BY <1>2, <2>2, <2>3
<1>6. ASSUME NEW x \in S \cup {m} PROVE \E i \in 1..n + 1 : g[i] = x
  <2>1. CASE x = m
    BY <1>2, <2>1
  <2>2. CASE x \in S
    <3>1. PICK i \in 1..n : e[i] = x
      BY <2>2, <1>3
    <3>2. i \in 1..n + 1 /\ g[i] = x
      BY <3>1, <1>2
    <3> QED BY <3>2
  <2> QED BY <2>1, <2>2
<1>7. Lists(g, n + 1, S \cup {m})
  BY <1>4, <1>5, <1>6 DEF Lists
<1>8. ASSUME NEW k \in 1..n + 1 PROVE more[k] = LineAt(bytes, g[k])
  <2>1. CASE k = n + 1
    BY <2>1, <1>2
  <2>2. CASE k \in 1..n
    BY <2>2, <1>1, <1>2
  <2> QED BY <1>2, <2>1, <2>2
<1> QED BY <1>2, <1>7, <1>8 DEF Written, more

LEMMA LineIsText ==
    ASSUME NEW bytes \in Seq(Byte), NEW i \in 1..Len(bytes) + 1
    PROVE  LineAt(bytes, i) \in Seq(Byte)
<1>0. i \in Nat /\ i >= 1
  OBVIOUS
<1>00. HasStart(bytes, i)
  BY <1>0, StartExists
<1>1. PICK j : IsStart(bytes, i, j)
  BY <1>00 DEF HasStart
<1>2. LineAt(bytes, i) = SubSeq(bytes, j + 1, LineUpTo(bytes, i))
  BY <1>0, <1>1, LineFrom
<1>3. j + 1 \in Nat /\ j + 1 >= 1 /\ LineUpTo(bytes, i) \in Int /\ LineUpTo(bytes, i) <= Len(bytes)
  BY <1>0, <1>1 DEF IsStart, LineUpTo
<1>4. \A k \in j + 1..LineUpTo(bytes, i) : bytes[k] \in Byte
  BY <1>3
<1> QED BY <1>2, <1>3, <1>4

\* A line that ends at m leaves nothing of itself.
LEMMA NextLineEmpty ==
    ASSUME NEW bytes \in Seq(Byte), NEW m \in 1..Len(bytes), EndsLine(bytes, m)
    PROVE  LineAt(bytes, m + 1) = <<>>
<1>1. IsStart(bytes, m + 1, m)
  BY DEF IsStart
<1>2. LineAt(bytes, m + 1) = SubSeq(bytes, m + 1, LineUpTo(bytes, m + 1))
  BY <1>1, LineFrom
<1>3. LineUpTo(bytes, m + 1) = m
  BY DEF LineUpTo, EndsLine
<1> QED BY <1>2, <1>3

LEMMA SameStart ==
    ASSUME NEW bytes \in Seq(Byte), NEW m \in 1..Len(bytes), ~EndsLine(bytes, m)
    PROVE  /\ HasStart(bytes, m)
           /\ \A j : IsStart(bytes, m, j) => IsStart(bytes, m + 1, j)
<1>1. HasStart(bytes, m)
  BY StartExists
<1>2. ASSUME NEW j, IsStart(bytes, m, j) PROVE IsStart(bytes, m + 1, j)
  BY <1>2 DEF IsStart
<1> QED BY <1>1, <1>2

LEMMA ReadOther ==
    ASSUME NEW bytes \in Seq(Byte), NEW m \in 1..Len(bytes), bytes[m] \notin {"CR", "LF"},
           NEW b \in Buffers, SoFar(bytes, b, m)
    PROVE  SoFar(bytes, [b EXCEPT !.pending = Append(@, bytes[m])], m + 1)
<1>1. ~EndsLine(bytes, m) /\ ~CrLf(bytes, m) /\ (m > 1 => ~CrLf(bytes, m - 1))
  BY DEF EndsLine, CrLf
<1>2. PICK j : IsStart(bytes, m, j) /\ IsStart(bytes, m + 1, j)
  BY <1>1, SameStart DEF HasStart
<1>3. LineAt(bytes, m) = SubSeq(bytes, j + 1, m - 1)
  <2>1. LineUpTo(bytes, m) = m - 1
    BY <1>1 DEF LineUpTo
  <2> QED BY <1>2, <2>1, LineFrom
<1>4. LineAt(bytes, m + 1) = SubSeq(bytes, j + 1, m)
  <2>1. LineUpTo(bytes, m + 1) = m
    BY <1>1 DEF LineUpTo
  <2> QED BY <1>2, <2>1, LineFrom
<1>5. SubSeq(bytes, j + 1, m) = Append(SubSeq(bytes, j + 1, m - 1), bytes[m])
  <2>1. j + 1 \in 1..m
    BY <1>2 DEF IsStart
  <2> HIDE <1>2
  <2> QED BY <2>1
<1>6. Redrawn(bytes, m + 1) <=> Redrawn(bytes, m)
  <2>1. \A k : k \in 1..(m + 1) - 1 <=> (k \in 1..m - 1 \/ k = m)
    OBVIOUS
  <2>2. \A k \in 1..m - 1 : \A l : l \in k..(m + 1) - 1 <=> (l \in k..m - 1 \/ l = m)
    OBVIOUS
  <2> QED BY <2>1, <2>2 DEF Redrawn
<1>7. ShownBefore(bytes, m + 1) = ShownBefore(bytes, m)
  BY <1>1 DEF ShownBefore
<1>8. /\ [b EXCEPT !.pending = Append(@, bytes[m])].pending = Append(b.pending, bytes[m])
      /\ [b EXCEPT !.pending = Append(@, bytes[m])].after_lone_cr = b.after_lone_cr
      /\ [b EXCEPT !.pending = Append(@, bytes[m])].lines = b.lines
  BY DEF Buffers
<1> QED BY <1>3, <1>4, <1>5, <1>6, <1>7, <1>8 DEF SoFar

\* The CR of a CRLF is no byte of the line, and does not end it.
LEMMA ReadCrOfCrLf ==
    ASSUME NEW bytes \in Seq(Byte), NEW m \in 1..Len(bytes), CrLf(bytes, m),
           NEW b \in Buffers, SoFar(bytes, b, m)
    PROVE  SoFar(bytes, b, m + 1)
<1>1. ~EndsLine(bytes, m) /\ bytes[m] = "CR" /\ (m > 1 => ~CrLf(bytes, m - 1))
  BY DEF EndsLine, CrLf
<1>2. PICK j : IsStart(bytes, m, j) /\ IsStart(bytes, m + 1, j)
  BY <1>1, SameStart DEF HasStart
<1>3. LineAt(bytes, m) = SubSeq(bytes, j + 1, m - 1)
  <2>1. LineUpTo(bytes, m) = m - 1
    BY <1>1 DEF LineUpTo
  <2> QED BY <1>2, <2>1, LineFrom
<1>4. LineAt(bytes, m + 1) = SubSeq(bytes, j + 1, m - 1)
  <2>1. LineUpTo(bytes, m + 1) = m - 1
    BY <1>1 DEF LineUpTo
  <2> QED BY <1>2, <2>1, LineFrom
<1>6. Redrawn(bytes, m + 1) <=> Redrawn(bytes, m)
  <2>1. \A k : k \in 1..(m + 1) - 1 <=> (k \in 1..m - 1 \/ k = m)
    OBVIOUS
  <2>2. \A k \in 1..m - 1 : \A l : l \in k..(m + 1) - 1 <=> (l \in k..m - 1 \/ l = m)
    OBVIOUS
  <2> QED BY <1>1, <2>1, <2>2 DEF Redrawn
<1>7. ShownBefore(bytes, m + 1) = ShownBefore(bytes, m)
  BY <1>1 DEF ShownBefore
<1> QED BY <1>3, <1>4, <1>6, <1>7 DEF SoFar

LEMMA EmitAt ==
    ASSUME NEW bytes \in Seq(Byte), NEW m \in 1..Len(bytes) + 1, NEW b \in Buffers,
           SoFar(bytes, b, m)
    PROVE  /\ EmitLine(b) \in Buffers
           /\ EmitLine(b).pending = <<>> /\ EmitLine(b).after_lone_cr = b.after_lone_cr
           /\ EmitLine(b).pending_cr = b.pending_cr
           /\ EmitLine(b).lines = Append(b.lines, b.pending)
           /\ Written(bytes, EmitLine(b).lines, ShownBefore(bytes, m) \cup {m})
<1>1. /\ EmitLine(b) \in Buffers
      /\ EmitLine(b).pending = <<>> /\ EmitLine(b).after_lone_cr = b.after_lone_cr
      /\ EmitLine(b).pending_cr = b.pending_cr
      /\ EmitLine(b).lines = Append(b.lines, b.pending)
  <2>1. Append(b.lines, b.pending) \in Seq(Seq(Byte)) /\ <<>> \in Seq(Byte)
    BY DEF Buffers
  <2>2. EmitLine(b) \in Buffers
    BY <2>1 DEF EmitLine, Buffers
  <2>3. EmitLine(b).pending = <<>> /\ EmitLine(b).lines = Append(b.lines, b.pending)
    BY DEF EmitLine, Buffers
  <2>4. EmitLine(b).after_lone_cr = b.after_lone_cr /\ EmitLine(b).pending_cr = b.pending_cr
    BY DEF EmitLine, Buffers
  <2> QED BY <2>2, <2>3, <2>4
<1>2. Written(bytes, Append(b.lines, LineAt(bytes, m)), ShownBefore(bytes, m) \cup {m})
  <2>1. b.lines \in Seq(Seq(Byte)) /\ m \in Nat
    BY DEF Buffers
  <2>2. ShownBefore(bytes, m) \in SUBSET Nat /\ \A i \in ShownBefore(bytes, m) : i < m
    BY DEF ShownBefore
  <2>3. Written(bytes, b.lines, ShownBefore(bytes, m))
    BY DEF SoFar
  <2>4. LineAt(bytes, m) \in Seq(Byte)
    BY LineIsText
  <2> QED BY <2>1, <2>2, <2>3, <2>4, WrittenOneMore
<1> QED BY <1>1, <1>2 DEF SoFar

LEMMA ReadLoneCr ==
    ASSUME NEW bytes \in Seq(Byte), NEW m \in 1..Len(bytes), bytes[m] = "CR",
           ~CrLf(bytes, m), NEW b \in Buffers, SoFar(bytes, b, m)
    PROVE  /\ SoFar(bytes, EndAtLoneCr(b), m + 1)
           /\ EndAtLoneCr(b) \in Buffers /\ EndAtLoneCr(b).pending_cr = b.pending_cr
<1>1. EndsLine(bytes, m) /\ LineAt(bytes, m + 1) = <<>>
  BY NextLineEmpty DEF EndsLine
<1>2. Shown(bytes, m) <=> b.pending # <<>>
  BY DEF Shown, SoFar
<1>3. m \in 1..Len(bytes) + 1
  OBVIOUS
<1>4. CASE b.pending = <<>>
  <2>1. EndAtLoneCr(b) = b
    BY <1>4 DEF EndAtLoneCr
  <2>2. Redrawn(bytes, m + 1) <=> Redrawn(bytes, m)
    <3>1. \A k : k \in 1..(m + 1) - 1 <=> (k \in 1..m - 1 \/ k = m)
      OBVIOUS
    <3>2. \A k \in 1..m - 1 : \A l : l \in k..(m + 1) - 1 <=> (l \in k..m - 1 \/ l = m)
      OBVIOUS
    <3>3. LineAt(bytes, m) = <<>>
      BY <1>4 DEF SoFar
    <3> QED BY <3>1, <3>2, <3>3 DEF Redrawn
  <2>3. ShownBefore(bytes, m + 1) = ShownBefore(bytes, m)
    BY <1>2, <1>4 DEF ShownBefore
  <2> QED BY <2>1, <2>2, <2>3, <1>1, <1>4 DEF SoFar
<1>5. CASE b.pending # <<>>
  <2> DEFINE c == EmitLine(b)
             d == [c EXCEPT !.after_lone_cr = TRUE]
  <2>1. /\ c \in Buffers /\ c.pending = <<>> /\ c.pending_cr = b.pending_cr
        /\ Written(bytes, c.lines, ShownBefore(bytes, m) \cup {m})
    BY <1>3, EmitAt
  <2>2. EndAtLoneCr(b) = d
    BY <1>5 DEF EndAtLoneCr
  <2> HIDE DEF c
  <2>3. d \in Buffers /\ d.pending = c.pending /\ d.pending_cr = c.pending_cr
    BY <2>1 DEF Buffers
  <2>4. d.lines = c.lines /\ d.after_lone_cr = TRUE
    BY <2>1 DEF Buffers
  <2> HIDE DEF d
  <2>5. Redrawn(bytes, m + 1)
    <3>1. m \in 1..(m + 1) - 1 /\ \A k \in m..(m + 1) - 1 : k = m
      OBVIOUS
    <3>2. LineAt(bytes, m) # <<>>
      BY <1>5 DEF SoFar
    <3> QED BY <3>1, <3>2 DEF Redrawn
  <2>6. ShownBefore(bytes, m + 1) = ShownBefore(bytes, m) \cup {m}
    BY <1>1, <1>2, <1>5 DEF ShownBefore
  <2> QED BY <2>1, <2>2, <2>3, <2>4, <2>5, <2>6, <1>1 DEF SoFar
<1> QED BY <1>4, <1>5

LEMMA ReadNewline ==
    ASSUME NEW bytes \in Seq(Byte), NEW m \in 1..Len(bytes), bytes[m] = "LF",
           NEW b \in Buffers, SoFar(bytes, b, m)
    PROVE  /\ SoFar(bytes, EndAtNewline(b), m + 1)
           /\ EndAtNewline(b) \in Buffers /\ EndAtNewline(b).pending_cr = b.pending_cr
<1>1. EndsLine(bytes, m)
  BY DEF EndsLine, CrLf
<1>2. LineAt(bytes, m + 1) = <<>>
  BY <1>1, NextLineEmpty
<1>3. Shown(bytes, m) <=> (b.pending # <<>> \/ ~b.after_lone_cr)
  BY DEF Shown, SoFar
<1>4. m \in 1..Len(bytes) + 1
  OBVIOUS
<1>5. ~Redrawn(bytes, m + 1)
  <2>1. \A j \in 1..(m + 1) - 1 : m \in j..(m + 1) - 1
    OBVIOUS
  <2> QED BY <2>1 DEF Redrawn
<1>6. \E c \in Buffers :
        /\ c.pending = <<>> /\ c.pending_cr = b.pending_cr
        /\ Written(bytes, c.lines, ShownBefore(bytes, m + 1))
        /\ EndAtNewline(b) = [c EXCEPT !.after_lone_cr = FALSE]
  <2>1. CASE b.pending # <<>> \/ ~b.after_lone_cr
    <3>1. ShownBefore(bytes, m + 1) = ShownBefore(bytes, m) \cup {m}
      BY <1>1, <1>3, <2>1 DEF ShownBefore
    <3>2. /\ EmitLine(b) \in Buffers /\ EmitLine(b).pending = <<>>
          /\ EmitLine(b).pending_cr = b.pending_cr
          /\ Written(bytes, EmitLine(b).lines, ShownBefore(bytes, m) \cup {m})
      BY <1>4, EmitAt
    <3>3. EndAtNewline(b) = [EmitLine(b) EXCEPT !.after_lone_cr = FALSE]
      BY <2>1 DEF EndAtNewline
    <3> QED BY <3>1, <3>2, <3>3
  <2>2. CASE ~(b.pending # <<>> \/ ~b.after_lone_cr)
    <3>1. ShownBefore(bytes, m + 1) = ShownBefore(bytes, m)
      BY <1>3, <2>2 DEF ShownBefore
    <3>2. EndAtNewline(b) = [b EXCEPT !.after_lone_cr = FALSE]
      BY <2>2 DEF EndAtNewline
    <3> QED BY <2>2, <3>1, <3>2 DEF SoFar
  <2> QED BY <2>1, <2>2
<1>7. PICK c \in Buffers :
        /\ c.pending = <<>> /\ c.pending_cr = b.pending_cr
        /\ Written(bytes, c.lines, ShownBefore(bytes, m + 1))
        /\ EndAtNewline(b) = [c EXCEPT !.after_lone_cr = FALSE]
  BY <1>6
<1> DEFINE d == [c EXCEPT !.after_lone_cr = FALSE]
<1>8. d \in Buffers /\ d.pending = c.pending /\ d.pending_cr = c.pending_cr
  BY DEF Buffers
<1>9. d.lines = c.lines /\ d.after_lone_cr = FALSE
  BY DEF Buffers
<1> HIDE DEF d
<1> QED BY <1>2, <1>5, <1>7, <1>8, <1>9 DEF SoFar, d

----------------------------------------------------------------------------
(* A CR is settled by the byte that follows it, in this chunk or the next. *)

Read(bytes, b) == IF b.pending_cr THEN Len(bytes) ELSE Len(bytes) + 1

Reads(bytes, b) ==
    /\ b \in Buffers
    /\ b.pending_cr <=> bytes # <<>> /\ bytes[Len(bytes)] = "CR"
    /\ SoFar(bytes, b, Read(bytes, b))

LEMMA StillSoFar ==
    ASSUME NEW c \in Seq(Byte), NEW d \in Seq(Byte), NEW m \in Nat, m >= 1,
           Agree(c, d, m), NEW b, SoFar(c, b, m)
    PROVE  SoFar(d, b, m)
<1>1. m \in 1..m
  OBVIOUS
<1>2. LineAt(c, m) = LineAt(d, m) /\ (Redrawn(c, m) <=> Redrawn(d, m))
  BY <1>1, AgreeLines
<1>3. ShownBefore(c, m) = ShownBefore(d, m)
  <2>1. \A i \in 1..m - 1 : (EndsLine(c, i) <=> EndsLine(d, i)) /\ (Shown(c, i) <=> Shown(d, i))
    BY AgreeEnds, AgreeLines
  <2> QED BY <2>1 DEF ShownBefore
<1>4. PICK e : /\ Lists(e, Len(b.lines), ShownBefore(c, m))
               /\ \A k \in 1..Len(b.lines) : b.lines[k] = LineAt(c, e[k])
  BY DEF SoFar, Written
<1>5. ASSUME NEW k \in 1..Len(b.lines) PROVE b.lines[k] = LineAt(d, e[k])
  <2>1. e[k] \in 1..m
    BY <1>4 DEF Lists, ShownBefore
  <2> QED BY <1>4, <2>1, AgreeLines
<1>6. Written(d, b.lines, ShownBefore(d, m))
  BY <1>3, <1>4, <1>5 DEF Written
<1> QED BY <1>2, <1>6 DEF SoFar

LEMMA SoFarOf ==
    ASSUME NEW bytes, NEW m, NEW b, NEW c, SoFar(bytes, b, m), c.pending = b.pending,
           c.after_lone_cr = b.after_lone_cr, c.lines = b.lines
    PROVE  SoFar(bytes, c, m)
BY DEF SoFar

LEMMA CrSet ==
    ASSUME NEW b \in Buffers, NEW v \in BOOLEAN
    PROVE  /\ [b EXCEPT !.pending_cr = v] \in Buffers
           /\ [b EXCEPT !.pending_cr = v].pending_cr = v
           /\ [b EXCEPT !.pending_cr = v].pending = b.pending
           /\ [b EXCEPT !.pending_cr = v].after_lone_cr = b.after_lone_cr
           /\ [b EXCEPT !.pending_cr = v].lines = b.lines
BY DEF Buffers

LEMMA OneMore ==
    ASSUME NEW S, NEW s \in Seq(S), NEW x \in S
    PROVE  /\ Len(s) \in Nat /\ Append(s, x) \in Seq(S)
           /\ Len(Append(s, x)) = Len(s) + 1 /\ Append(s, x)[Len(s) + 1] = x
           /\ \A i \in 1..Len(s) : Append(s, x)[i] = s[i]
OBVIOUS

LEMMA ReadByte ==
    ASSUME NEW bytes \in Seq(Byte), NEW b, Reads(bytes, b), NEW x \in Byte
    PROVE  Reads(Append(bytes, x), PushByte(b, x))
<1>0. /\ Len(bytes) \in Nat /\ Append(bytes, x) \in Seq(Byte)
      /\ Len(Append(bytes, x)) = Len(bytes) + 1 /\ Append(bytes, x)[Len(bytes) + 1] = x
      /\ \A i \in 1..Len(bytes) : Append(bytes, x)[i] = bytes[i]
  BY OneMore
<1> DEFINE d == Append(bytes, x)
           n == Len(bytes)
           settled == [b EXCEPT !.pending_cr = FALSE]
           next == IF b.pending_cr /\ x # "LF" THEN EndAtLoneCr(settled) ELSE settled
<1>1. /\ n \in Nat /\ d \in Seq(Byte) /\ Len(d) = n + 1 /\ d[n + 1] = x
      /\ \A i \in 1..n : d[i] = bytes[i]
  BY <1>0
<1>2. b \in Buffers /\ (b.pending_cr <=> bytes # <<>> /\ bytes[n] = "CR")
  BY DEF Reads
<1>3. /\ settled \in Buffers /\ settled.pending_cr = FALSE /\ settled.pending = b.pending
      /\ settled.after_lone_cr = b.after_lone_cr /\ settled.lines = b.lines
  BY <1>2, CrSet
<1>4. bytes # <<>> => n >= 1
  OBVIOUS
<1> HIDE DEF d, settled
<1>5. \A i \in 1..n - 1 : bytes[i] = d[i] /\ (CrLf(bytes, i) <=> CrLf(d, i))
  <2>1. \A i \in 1..n - 1 : i \in 1..n /\ i + 1 \in 1..n /\ i < n /\ i < n + 1
    BY <1>1
  <2> QED BY <1>1, <2>1 DEF CrLf
<1>6. n >= 1 => (CrLf(d, n) <=> bytes[n] = "CR" /\ x = "LF") /\ ~CrLf(bytes, n)
  BY <1>1 DEF CrLf
<1>7. next \in Buffers /\ next.pending_cr = FALSE /\ SoFar(d, next, n + 1)
  <2>1. CASE b.pending_cr
    <3>1. n >= 1 /\ bytes[n] = "CR" /\ n \in 1..Len(d) /\ d[n] = "CR"
      BY <2>1, <1>1, <1>2, <1>4
    <3>2. Agree(bytes, d, n)
      BY <1>1, <1>5 DEF Agree
    <3>3. SoFar(bytes, b, n)
      BY <2>1 DEF Reads, Read
    <3>4. SoFar(d, settled, n)
      <4>1. SoFar(d, b, n)
        BY <1>1, <3>1, <3>2, <3>3, StillSoFar
      <4> QED BY <4>1, <1>3, SoFarOf
    <3>5. CASE x = "LF"
      <4>1. CrLf(d, n) /\ next = settled
        BY <1>6, <3>1, <3>5
      <4>2. SoFar(d, settled, n + 1)
        BY <4>1, <1>1, <1>3, <3>1, <3>4, ReadCrOfCrLf
      <4> QED BY <4>1, <4>2, <1>3
    <3>6. CASE x # "LF"
      <4>1. ~CrLf(d, n) /\ next = EndAtLoneCr(settled)
        BY <1>6, <2>1, <3>1, <3>6
      <4>2. /\ SoFar(d, EndAtLoneCr(settled), n + 1)
            /\ EndAtLoneCr(settled) \in Buffers
            /\ EndAtLoneCr(settled).pending_cr = settled.pending_cr
        BY <4>1, <1>1, <1>3, <3>1, <3>4, ReadLoneCr
      <4> QED BY <4>1, <4>2, <1>3
    <3> QED BY <3>5, <3>6
  <2>2. CASE ~b.pending_cr
    <3>1. next = settled
      BY <2>2
    <3>2. \A i \in 1..(n + 1) - 1 : i \in 1..n - 1 \/ (i = n /\ n >= 1)
      BY <1>1
    <3>3. n >= 1 => bytes[n] # "CR" /\ bytes[n] = d[n]
      <4>1. n >= 1 => bytes # <<>>
        OBVIOUS
      <4> QED BY <4>1, <1>1, <1>2, <2>2
    <3>4. Agree(bytes, d, n + 1)
      BY <1>1, <1>5, <1>6, <3>2, <3>3 DEF Agree
    <3>5. SoFar(bytes, b, n + 1)
      BY <2>2 DEF Reads, Read
    <3>6. SoFar(d, b, n + 1)
      BY <1>1, <3>4, <3>5, StillSoFar
    <3> QED BY <3>1, <3>6, <1>3, SoFarOf
  <2> QED BY <2>1, <2>2
<1>8. n + 1 \in 1..Len(d) /\ d # <<>> /\ d[Len(d)] = x
  BY <1>1
<1> HIDE DEF next
<1>9. CASE x = "CR"
  <2> DEFINE after == [next EXCEPT !.pending_cr = TRUE]
  <2>1. PushByte(b, x) = after
    BY <1>9 DEF PushByte, next, settled
  <2>2. /\ after \in Buffers /\ after.pending_cr = TRUE /\ after.pending = next.pending
        /\ after.after_lone_cr = next.after_lone_cr /\ after.lines = next.lines
    BY <1>7, CrSet
  <2> HIDE DEF after
  <2>3. SoFar(d, after, n + 1)
    BY <1>7, <2>2, SoFarOf
  <2>4. Reads(d, after)
    BY <1>1, <1>8, <1>9, <2>2, <2>3 DEF Reads, Read
  <2> QED BY <2>1, <2>4 DEF d
<1>10. CASE x = "LF"
  <2>1. PushByte(b, x) = EndAtNewline(next)
    BY <1>10 DEF PushByte, next, settled
  <2>2. /\ SoFar(d, EndAtNewline(next), (n + 1) + 1)
        /\ EndAtNewline(next) \in Buffers
        /\ EndAtNewline(next).pending_cr = next.pending_cr
    BY <1>1, <1>7, <1>8, <1>10, ReadNewline
  <2>3. Reads(d, EndAtNewline(next))
    BY <1>1, <1>7, <1>8, <1>10, <2>2 DEF Reads, Read
  <2> QED BY <2>1, <2>3 DEF d
<1>11. CASE x \notin {"CR", "LF"}
  <2> DEFINE after == [next EXCEPT !.pending = Append(@, x)]
  <2>1. PushByte(b, x) = after
    BY <1>11 DEF PushByte, next, settled
  <2>2. after \in Buffers
    <3>1. Append(next.pending, x) \in Seq(Byte)
      BY <1>7 DEF Buffers
    <3> QED BY <1>7, <3>1 DEF Buffers
  <2>3. after.pending_cr = FALSE
    BY <1>7 DEF Buffers
  <2>4. SoFar(d, after, (n + 1) + 1)
    <3>1. d[n + 1] \notin {"CR", "LF"}
      BY <1>1, <1>11
    <3>2. SoFar(d, [next EXCEPT !.pending = Append(@, d[n + 1])], (n + 1) + 1)
      BY <1>1, <1>7, <1>8, <3>1, ReadOther
    <3> QED BY <1>1, <3>2
  <2> HIDE DEF after
  <2>5. Reads(d, after)
    BY <1>1, <1>8, <1>11, <2>2, <2>3, <2>4 DEF Reads, Read
  <2> QED BY <2>1, <2>5 DEF d
<1> QED BY <1>9, <1>10, <1>11

LEMMA PushByteType ==
    ASSUME NEW b \in Buffers, NEW x \in Byte
    PROVE  PushByte(b, x) \in Buffers
<1> DEFINE settled == [b EXCEPT !.pending_cr = FALSE]
           next == IF b.pending_cr /\ x # "LF" THEN EndAtLoneCr(settled) ELSE settled
<1>1. ASSUME NEW c \in Buffers PROVE EmitLine(c) \in Buffers
  <2>1. Append(c.lines, c.pending) \in Seq(Seq(Byte)) /\ <<>> \in Seq(Byte)
    BY DEF Buffers
  <2> QED BY <2>1 DEF EmitLine, Buffers
<1>2. ASSUME NEW c \in Buffers, NEW v \in BOOLEAN
      PROVE  [c EXCEPT !.after_lone_cr = v] \in Buffers /\ [c EXCEPT !.pending_cr = v] \in Buffers
  BY DEF Buffers
<1>3. settled \in Buffers
  BY <1>2
<1> HIDE DEF settled
<1>4. next \in Buffers
  BY <1>1, <1>2, <1>3 DEF EndAtLoneCr
<1> HIDE DEF next
<1>5. CASE x = "CR"
  BY <1>2, <1>4, <1>5 DEF PushByte, next, settled
<1>6. CASE x = "LF"
  <2>1. PushByte(b, x) = EndAtNewline(next)
    BY <1>6 DEF PushByte, next, settled
  <2> QED BY <2>1, <1>1, <1>2, <1>4 DEF EndAtNewline
<1>7. CASE x \notin {"CR", "LF"}
  <2>1. PushByte(b, x) = [next EXCEPT !.pending = Append(@, x)]
    BY <1>7 DEF PushByte, next, settled
  <2>2. Append(next.pending, x) \in Seq(Byte)
    BY <1>4 DEF Buffers
  <2> QED BY <2>1, <2>2, <1>4 DEF Buffers
<1> QED BY <1>5, <1>6, <1>7

LEMMA ReadChunk ==
    ASSUME NEW bytes \in Seq(Byte), NEW b, Reads(bytes, b), NEW chunk \in Seq(Byte)
    PROVE  Reads(bytes \o chunk, Push(b, chunk))
<1> DEFINE N == Len(chunk)
<1>1. BytesPushed(b, chunk)
  <2>1. b \in Buffers /\ Len(chunk) \in Nat
    BY DEF Reads
  <2>2. \A x \in Buffers : \A i \in 1..Len(chunk) : PushByte(x, chunk[i]) \in Buffers
    <3>1. \A i \in 1..Len(chunk) : chunk[i] \in Byte
      OBVIOUS
    <3> QED BY <3>1, PushByteType
  <2> QED BY <2>1, <2>2, PushRuns
<1>2. PICK f : /\ f[0] = b
               /\ \A i \in 1..N : f[i] = PushByte(f[i - 1], chunk[i])
               /\ Push(b, chunk) = f[N]
  BY <1>1 DEF BytesPushed
<1> DEFINE Q == {i \in Nat : i <= N => Reads(bytes \o SubSeq(chunk, 1, i), f[i])}
<1>3. 0 \in Q
  <2>1. bytes \o SubSeq(chunk, 1, 0) = bytes
    OBVIOUS
  <2> QED BY <2>1, <1>2
<1>4. ASSUME NEW i \in Nat, i \in Q PROVE i + 1 \in Q
  <2> SUFFICES ASSUME i + 1 <= N PROVE Reads(bytes \o SubSeq(chunk, 1, i + 1), f[i + 1])
    OBVIOUS
  <2> DEFINE c == bytes \o SubSeq(chunk, 1, i)
  <2>1. i + 1 \in 1..N /\ (i + 1) - 1 = i /\ chunk[i + 1] \in Byte /\ N \in Nat
    OBVIOUS
  <2>2. Reads(c, f[i])
    BY <1>4, <2>1
  <2>3. SubSeq(chunk, 1, i) \in Seq(Byte) /\ c \in Seq(Byte)
    <3>1. \A k \in 1..i : chunk[k] \in Byte
      BY <2>1
    <3> QED BY <2>1, <3>1
  <2>4. SubSeq(chunk, 1, i + 1) = Append(SubSeq(chunk, 1, i), chunk[i + 1])
    BY <2>1
  <2>5. bytes \o SubSeq(chunk, 1, i + 1) = Append(c, chunk[i + 1])
    BY <2>1, <2>3, <2>4
  <2> HIDE DEF c
  <2>6. Reads(Append(c, chunk[i + 1]), PushByte(f[i], chunk[i + 1]))
    BY <2>1, <2>2, <2>3, ReadByte
  <2> QED BY <1>2, <2>1, <2>5, <2>6
<1>5. N \in Q
  <2> HIDE DEF Q
  <2> QED BY <1>3, <1>4, SetInduction
<1>6. SubSeq(chunk, 1, N) = chunk /\ N <= N
  OBVIOUS
<1>7. Reads(bytes \o SubSeq(chunk, 1, N), f[N])
  <2> HIDE DEF N
  <2> QED BY <1>5, <1>6
<1> QED BY <1>2, <1>6, <1>7

----------------------------------------------------------------------------
(* The end of the stream.                                                  *)

LEMMA ListRanks ==
    ASSUME NEW S \in SUBSET Nat, NEW n \in Nat, NEW e, Lists(e, n, S)
    PROVE  /\ Cardinality(S) = n
           /\ \A k \in 1..n : Cardinality({j \in S : j <= e[k]}) = k
<1>1. e \in [1..n -> S] /\ (\A i, j \in 1..n : i < j => e[i] < e[j])
      /\ \A x \in S : \E i \in 1..n : e[i] = x
  BY DEF Lists
<1>2. \A i, j \in 1..n : e[i] \in Nat /\ (e[i] = e[j] => i = j) /\ (e[i] <= e[j] <=> i <= j)
  <2> SUFFICES ASSUME NEW i \in 1..n, NEW j \in 1..n
               PROVE  e[i] \in Nat /\ (e[i] = e[j] => i = j) /\ (e[i] <= e[j] <=> i <= j)
    OBVIOUS
  <2>1. e[i] \in Nat /\ e[j] \in Nat
    BY <1>1
  <2>2. CASE i < j
    BY <1>1, <2>1, <2>2
  <2>3. CASE j < i
    <3>1. e[j] < e[i]
      BY <1>1, <2>3
    <3> QED BY <2>1, <2>3, <3>1
  <2>4. CASE i = j
    BY <2>1, <2>4
  <2> QED BY <2>2, <2>3, <2>4
<1>3. ASSUME NEW k \in 0..n, NEW R \in SUBSET S, \A x \in S : x \in R <=> \E i \in 1..k : e[i] = x
      PROVE  Cardinality(R) = k
  <2> DEFINE g == [i \in 1..k |-> e[i]]
  <2>0. \A i \in 1..k : i \in 1..n
    OBVIOUS
  <2>1. g \in [1..k -> R]
    BY <1>1, <1>3, <2>0
  <2>2. \A i, j \in 1..k : g[i] = g[j] => i = j
    BY <1>2, <2>0
  <2>3. \A x \in R : \E i \in 1..k : g[i] = x
    BY <1>3
  <2>4. g \in Bijection(1..k, R)
    <3> HIDE DEF g
    <3> QED BY <2>1, <2>2, <2>3 DEF Bijection, Injection, Surjection, IsInjective
  <2>5. ExistsBijection(1..k, R)
    BY <2>4 DEF ExistsBijection
  <2> QED BY <2>5, FS_CountingElements
<1>4. Cardinality(S) = n
  BY <1>1, <1>3
<1>5. ASSUME NEW k \in 1..n PROVE Cardinality({j \in S : j <= e[k]}) = k
  <2>1. ASSUME NEW x \in S PROVE x <= e[k] <=> \E i \in 1..k : e[i] = x
    <3>1. PICK i \in 1..n : e[i] = x
      BY <1>1
    <3>2. x <= e[k] <=> i <= k
      BY <1>2, <3>1
    <3>3. ASSUME NEW j \in 1..k, e[j] = x PROVE i = j
      BY <1>2, <3>1, <3>3
    <3> QED BY <3>1, <3>2, <3>3
  <2> QED BY <1>3, <2>1
<1> QED BY <1>4, <1>5

LEMMA WrittenIsLines ==
    ASSUME NEW bytes \in Seq(Byte), NEW lines \in Seq(Seq(Byte)),
           Written(bytes, lines, ShownEnds(bytes))
    PROVE  lines = LinesOf(bytes)
<1> DEFINE ends == ShownEnds(bytes)
           n == Len(lines)
           Nth(k) == CHOOSE i \in ends : Cardinality({j \in ends : j <= i}) = k
<1>1. PICK e : Lists(e, n, ends) /\ \A k \in 1..n : lines[k] = LineAt(bytes, e[k])
  BY DEF Written
<1>2. ends \in SUBSET Nat /\ n \in Nat
  BY DEF ShownEnds
<1>3. LinesOf(bytes) = [k \in 1..Cardinality(ends) |-> LineAt(bytes, Nth(k))]
  BY DEF LinesOf
<1> HIDE DEF ends, n
<1>4. Cardinality(ends) = n /\ \A k \in 1..n : Cardinality({j \in ends : j <= e[k]}) = k
  BY <1>1, <1>2, ListRanks
<1>5. ASSUME NEW k \in 1..n PROVE Nth(k) = e[k]
  <2>1. e[k] \in ends /\ Cardinality({j \in ends : j <= e[k]}) = k
    BY <1>1, <1>4 DEF Lists
  <2>2. Nth(k) \in ends /\ Cardinality({j \in ends : j <= Nth(k)}) = k
    BY <2>1
  <2> HIDE DEF Nth
  <2>3. PICK i \in 1..n : e[i] = Nth(k)
    BY <1>1, <2>2 DEF Lists
  <2>4. i = k
    BY <1>4, <2>2, <2>3
  <2> QED BY <2>3, <2>4
<1> HIDE DEF Nth
<1>6. lines = [k \in 1..n |-> lines[k]]
  BY DEF n
<1>7. \A k \in 1..n : lines[k] = LineAt(bytes, Nth(k))
  BY <1>1, <1>5
<1> QED BY <1>3, <1>4, <1>6, <1>7

LEMMA FlushRead ==
    ASSUME NEW bytes \in Seq(Byte), NEW b, Reads(bytes, b)
    PROVE  /\ Flush(b).lines = LinesOf(bytes)
           /\ IsPrefix(b.lines, Flush(b).lines)
<1> DEFINE n == Len(bytes)
           m == Read(bytes, b)
           ended == [b EXCEPT !.pending_cr = FALSE, !.after_lone_cr = FALSE]
<1>1. b \in Buffers /\ SoFar(bytes, b, m) /\ (b.pending_cr <=> bytes # <<>> /\ bytes[n] = "CR")
  BY DEF Reads
<1>2. n \in Nat /\ (bytes # <<>> => n >= 1)
  OBVIOUS
<1>3. m \in 1..n + 1 /\ (m = n \/ m = n + 1)
  BY <1>1, <1>2 DEF Read
<1> HIDE DEF m
<1>4. /\ ShownBefore(bytes, m) \subseteq ShownEnds(bytes)
      /\ ShownEnds(bytes) \ ShownBefore(bytes, m) \subseteq {m}
      /\ m \in ShownEnds(bytes) <=> b.pending # <<>>
  <2>1. b.pending = LineAt(bytes, m)
    BY <1>1 DEF SoFar
  <2>2. ShownBefore(bytes, m) \subseteq ShownEnds(bytes)
    BY <1>2, <1>3 DEF ShownBefore, ShownEnds
  <2>3. CASE b.pending_cr
    <3>1. m = n /\ n >= 1 /\ bytes[n] = "CR"
      BY <1>1, <1>2, <2>3 DEF m, Read
    <3>2. EndsLine(bytes, n)
      BY <3>1, <1>2 DEF EndsLine, CrLf
    <3>3. LineAt(bytes, n + 1) = <<>>
      BY <1>2, <3>1, <3>2, NextLineEmpty
    <3>4. n + 1 \notin ShownEnds(bytes)
      BY <1>2, <3>3 DEF ShownEnds, Shown
    <3>5. n \in ShownEnds(bytes) <=> b.pending # <<>>
      BY <1>2, <2>1, <3>1, <3>2 DEF ShownEnds, Shown
    <3>6. \A i \in ShownEnds(bytes) : i = n \/ i = n + 1 \/ (i \in 1..n - 1 /\ i \in ShownBefore(bytes, m))
      BY <1>2, <3>1 DEF ShownEnds, ShownBefore
    <3> QED BY <2>2, <3>1, <3>4, <3>5, <3>6
  <2>4. CASE ~b.pending_cr
    <3>1. m = n + 1
      BY <2>4 DEF m, Read
    <3>2. n + 1 \in ShownEnds(bytes) <=> b.pending # <<>>
      BY <1>2, <2>1, <3>1 DEF ShownEnds, Shown
    <3>3. \A i \in ShownEnds(bytes) : i = n + 1 \/ i \in ShownBefore(bytes, m)
      BY <1>2, <3>1 DEF ShownEnds, ShownBefore
    <3> QED BY <2>2, <3>1, <3>2, <3>3
  <2> QED BY <2>3, <2>4
<1>5. m \notin ShownBefore(bytes, m)
  BY <1>2, <1>3 DEF ShownBefore
<1>6. ended.pending = b.pending /\ ended.lines = b.lines
  BY <1>1 DEF Buffers
<1>7. b.lines \in Seq(Seq(Byte)) /\ b.pending \in Seq(Byte)
  BY <1>1 DEF Buffers
<1>8. CASE b.pending = <<>>
  <2>1. Flush(b) = ended
    BY <1>8 DEF Flush
  <2>2. ShownEnds(bytes) = ShownBefore(bytes, m)
    <3>1. m \notin ShownEnds(bytes)
      BY <1>4, <1>8
    <3> HIDE DEF ended, n
    <3>2. ASSUME NEW i \in ShownEnds(bytes) PROVE i \in ShownBefore(bytes, m)
      BY <1>4, <3>1
    <3> QED BY <1>4, <3>2
  <2>3. Written(bytes, b.lines, ShownEnds(bytes))
    BY <1>1, <2>2 DEF SoFar
  <2>4. b.lines = LinesOf(bytes)
    BY <1>7, <2>3, WrittenIsLines
  <2>5. IsPrefix(b.lines, b.lines)
    BY <1>7 DEF IsPrefix
  <2> HIDE DEF ended
  <2> QED BY <1>6, <2>1, <2>4, <2>5
<1>9. CASE b.pending # <<>>
  <2>1. Flush(b) = EmitLine(ended)
    BY <1>9 DEF Flush
  <2>2. EmitLine(ended).lines = Append(b.lines, b.pending)
    <3>1. ended \in Buffers
      BY <1>1 DEF Buffers
    <3> HIDE DEF ended
    <3> QED BY <1>6, <3>1 DEF EmitLine, Buffers
  <2>3. ShownEnds(bytes) = ShownBefore(bytes, m) \cup {m}
    BY <1>4, <1>9
  <2>4. /\ EmitLine(b).lines = Append(b.lines, b.pending)
        /\ Written(bytes, EmitLine(b).lines, ShownBefore(bytes, m) \cup {m})
    <3>1. m \in 1..Len(bytes) + 1 /\ b \in Buffers /\ SoFar(bytes, b, m)
      BY <1>1, <1>3
    <3> HIDE DEF ended, n
    <3> QED BY <3>1, EmitAt
  <2>5. Append(b.lines, b.pending) \in Seq(Seq(Byte))
    BY <1>7
  <2>6. Append(b.lines, b.pending) = LinesOf(bytes)
    BY <2>3, <2>4, <2>5, WrittenIsLines
  <2>7. IsPrefix(b.lines, Append(b.lines, b.pending))
    BY <1>7 DEF IsPrefix
  <2> QED BY <2>1, <2>2, <2>6, <2>7
<1> QED BY <1>8, <1>9

LEMMA ReadNothing == Reads(<<>>, LineBuffer)
<1>1. LineBuffer \in Buffers
  BY DEF LineBuffer, Buffers
<1>2. LineBuffer.pending = <<>> /\ LineBuffer.lines = <<>>
  BY DEF LineBuffer
<1>3. ~LineBuffer.pending_cr /\ ~LineBuffer.after_lone_cr
  BY DEF LineBuffer
<1> DEFINE none == <<>>
<1>4. none \in Seq(Byte) /\ Len(none) = 0
  OBVIOUS
<1>5. LineAt(none, 1) = <<>>
  <2>1. IsStart(none, 1, 0)
    BY DEF IsStart
  <2>2. LineUpTo(none, 1) = 0
    BY DEF LineUpTo
  <2>3. LineAt(none, 1) = SubSeq(none, 0 + 1, LineUpTo(none, 1))
    <3> HIDE DEF none
    <3> QED BY <2>1, LineFrom
  <2> QED BY <2>2, <2>3
<1>6. ~Redrawn(none, 1) /\ ShownBefore(none, 1) = {}
  BY DEF Redrawn, ShownBefore
<1>7. Written(none, <<>>, {})
  <2>1. Lists(<<>>, Len(<<>>), {})
    BY DEF Lists
  <2> QED BY <2>1 DEF Written
<1>8. SoFar(none, LineBuffer, 1)
  BY <1>2, <1>3, <1>5, <1>6, <1>7 DEF SoFar
<1>9. Read(none, LineBuffer) = 1
  BY <1>3 DEF Read
<1> QED BY <1>1, <1>3, <1>8, <1>9 DEF Reads

----------------------------------------------------------------------------

StreamInv ==
    /\ buffer \in [left : Seq(Seq(Byte)), sent : Seq(Byte), at : {buffer.at}, over : BOOLEAN]
    /\ ~buffer.over => Reads(buffer.sent, buffer.at)
    /\ buffer.over => buffer.left = <<>> /\ buffer.at.lines = LinesOf(buffer.sent)

LEMMA ReceivePreserves == StreamInv /\ ReceiveChunk => StreamInv'
<1> SUFFICES ASSUME StreamInv, ReceiveChunk PROVE StreamInv'
  OBVIOUS
<1> DEFINE chunk == Head(buffer.left)
<1>1. chunk \in Seq(Byte) /\ Tail(buffer.left) \in Seq(Seq(Byte)) /\ ~buffer.over
  BY DEF StreamInv, ReceiveChunk
<1>2. buffer' = [buffer EXCEPT !.left = Tail(@), !.sent = @ \o chunk, !.at = Push(@, chunk)]
  BY DEF ReceiveChunk
<1>3. Reads(buffer.sent \o chunk, Push(buffer.at, chunk))
  BY <1>1, ReadChunk DEF StreamInv
<1> HIDE DEF chunk
<1>4. /\ buffer'.left = Tail(buffer.left) /\ buffer'.sent = buffer.sent \o chunk
      /\ buffer'.at = Push(buffer.at, chunk)
  BY <1>2 DEF StreamInv
<1>5. ~buffer'.over
  BY <1>1, <1>2 DEF StreamInv
<1>6. buffer' \in [left : Seq(Seq(Byte)), sent : Seq(Byte), at : {buffer'.at}, over : BOOLEAN]
  <2>1. buffer.sent \o chunk \in Seq(Byte)
    BY <1>1 DEF StreamInv
  <2> QED BY <1>1, <1>2, <1>4, <2>1 DEF StreamInv
<1> QED BY <1>3, <1>4, <1>5, <1>6 DEF StreamInv

LEMMA OverPreserves == StreamInv /\ StreamOver => StreamInv'
<1> SUFFICES ASSUME StreamInv, StreamOver PROVE StreamInv'
  OBVIOUS
<1>1. buffer' = [buffer EXCEPT !.over = TRUE, !.at = Flush(@)] /\ ~buffer.over
  BY DEF StreamOver
<1>2. /\ buffer'.left = buffer.left /\ buffer'.sent = buffer.sent
      /\ buffer'.at = Flush(buffer.at)
  BY <1>1 DEF StreamInv
<1>3. buffer'.over
  BY <1>1 DEF StreamInv
<1>4. Flush(buffer.at).lines = LinesOf(buffer.sent)
  BY <1>1, FlushRead DEF StreamInv
<1>5. buffer.left = <<>>
  BY DEF StreamOver
<1>6. buffer' \in [left : Seq(Seq(Byte)), sent : Seq(Byte), at : {buffer'.at}, over : BOOLEAN]
  BY <1>1 DEF StreamInv
<1> QED BY <1>2, <1>3, <1>4, <1>5, <1>6 DEF StreamInv

LEMMA StreamLines == StreamInv => LinesAsWritten
<1> SUFFICES ASSUME StreamInv PROVE LinesAsWritten
  OBVIOUS
<1>1. ~buffer.over => IsPrefix(buffer.at.lines, LinesOf(buffer.sent))
  <2> SUFFICES ASSUME ~buffer.over PROVE IsPrefix(buffer.at.lines, LinesOf(buffer.sent))
    OBVIOUS
  <2>1. buffer.sent \in Seq(Byte) /\ Reads(buffer.sent, buffer.at)
    BY DEF StreamInv
  <2>2. /\ Flush(buffer.at).lines = LinesOf(buffer.sent)
        /\ IsPrefix(buffer.at.lines, Flush(buffer.at).lines)
    BY <2>1, FlushRead
  <2> QED BY <2>2
<1> QED BY <1>1 DEF StreamInv, LinesAsWritten

\* Wherever a container's output is cut into chunks, the lines LineBuffer::push
\* has handed on are the first of the whole stream's, and once LineBuffer::flush
\* has been called they are all of them.
THEOREM LinesAsWrittenHolds == StreamSpec => []LinesAsWritten
<1>1. BufferInit => StreamInv
  <2> SUFFICES ASSUME BufferInit PROVE StreamInv
    OBVIOUS
  <2>1. PICK chunks \in StreamChunks :
          buffer = [left |-> chunks, sent |-> <<>>, at |-> LineBuffer, over |-> FALSE]
    BY DEF BufferInit
  <2>2. chunks \in Seq(Seq(Byte)) /\ <<>> \in Seq(Byte)
    BY StreamAssumption DEF Byte
  <2>3. buffer.sent = <<>> /\ buffer.at = LineBuffer /\ ~buffer.over
    BY <2>1
  <2>4. buffer \in [left : Seq(Seq(Byte)), sent : Seq(Byte), at : {buffer.at}, over : BOOLEAN]
    BY <2>1, <2>2
  <2> QED BY <2>3, <2>4, ReadNothing DEF StreamInv
<1>2. StreamInv /\ [ReceiveChunk \/ StreamOver]_buffer => StreamInv'
  BY ReceivePreserves, OverPreserves DEF StreamInv
<1>3. StreamInv => LinesAsWritten
  BY StreamLines
<1> QED BY <1>1, <1>2, <1>3, PTL DEF StreamSpec

----------------------------------------------------------------------------
(* The screen.                                                             *)

Kinds == {"text", "raw", "block", "count"}
Whats == {"running", "milestone", "exited", "cleanup", "summary", "prefixed", "stderr", "block", "count", "text", "raw"}

\* The rows there may be with containers C, and the screens of them.
Rows(C) == [kind : Kinds, says : {None} \cup Nat \cup SUBSET (C \cup {"network"}), columns : Nat,
            wrapped : BOOLEAN]

Screens(C) ==
    [rows : Seq(Rows(C)), partial : BOOLEAN, width : Nat, harm : BOOLEAN, glued : SUBSET Whats]

LEMMA RecentKeeps ==
    ASSUME NEW R, NEW rows \in Seq(R)
    PROVE  /\ Recent(rows) \in Seq(R) /\ Len(Recent(rows)) <= Len(rows)
           /\ \A n \in 0..RowsKept : n <= Len(rows) =>
                 /\ n <= Len(Recent(rows))
                 /\ \A i \in 1..n :
                       Recent(rows)[Len(Recent(rows)) - n + i] = rows[Len(rows) - n + i]
<1>0. RowsKept \in Nat \ {0} /\ Len(rows) \in Nat
  BY DisplayAssumption
<1>1. CASE Len(rows) > RowsKept
  <2> DEFINE from == Len(rows) - RowsKept + 1
  <2>1. Recent(rows) = SubSeq(rows, from, Len(rows))
    BY <1>1 DEF Recent
  <2>2. from \in 1..Len(rows) /\ Len(rows) - from + 1 = RowsKept
    BY <1>0, <1>1
  <2>3. /\ SubSeq(rows, from, Len(rows)) \in Seq(R)
        /\ Len(SubSeq(rows, from, Len(rows))) = RowsKept
        /\ \A i \in 1..RowsKept : SubSeq(rows, from, Len(rows))[i] = rows[from + i - 1]
    <3> HIDE DEF from
    <3> QED BY <1>0, <2>2
  <2>4. ASSUME NEW n \in 0..RowsKept, NEW i \in 1..n
        PROVE  /\ RowsKept - n + i \in 1..RowsKept
               /\ from + (RowsKept - n + i) - 1 = Len(rows) - n + i
    BY <1>0
  <2> HIDE DEF from
  <2>5. Recent(rows) \in Seq(R) /\ Len(Recent(rows)) = RowsKept
    BY <2>1, <2>3
  <2>6. ASSUME NEW n \in 0..RowsKept, NEW i \in 1..n
        PROVE  Recent(rows)[RowsKept - n + i] = rows[Len(rows) - n + i]
    <3>1. /\ RowsKept - n + i \in 1..RowsKept
          /\ from + (RowsKept - n + i) - 1 = Len(rows) - n + i
      BY <2>4
    <3> QED BY <2>1, <2>3, <3>1
  <2>7. Len(Recent(rows)) <= Len(rows)
    BY <1>0, <1>1, <2>5
  <2>8. ASSUME NEW n \in 0..RowsKept
        PROVE  /\ n <= Len(Recent(rows))
               /\ \A i \in 1..n :
                     Recent(rows)[Len(Recent(rows)) - n + i] = rows[Len(rows) - n + i]
    <3>1. n <= RowsKept
      BY <1>0
    <3> QED BY <3>1, <2>5, <2>6
  <2> QED BY <2>5, <2>7, <2>8
<1>2. CASE ~(Len(rows) > RowsKept)
  BY <1>0, <1>2 DEF Recent
<1> QED BY <1>1, <1>2

LEMMA TextIsRow ==
    ASSUME NEW C, NEW s PROVE TextRow(s, "text") \in Rows(C) /\ TextRow(s, "raw") \in Rows(C)
BY DEF TextRow, Row, Rows, Kinds

LEMMA NewlineKeeps ==
    ASSUME NEW C, NEW s \in Screens(C)
    PROVE  /\ Newline(s) \in Screens(C) /\ Newline(s).partial = FALSE
           /\ Newline(s).width = s.width /\ Newline(s).harm = s.harm /\ Newline(s).glued = s.glued
<1>1. CASE s.partial
  BY <1>1 DEF Newline, Screens
<1>2. CASE ~s.partial
  <2> DEFINE rows == Recent(Append(s.rows, TextRow(s, "text")))
  <2>1. rows \in Seq(Rows(C))
    <3>1. Append(s.rows, TextRow(s, "text")) \in Seq(Rows(C))
      BY TextIsRow DEF Screens
    <3> QED BY <3>1, RecentKeeps
  <2> HIDE DEF rows
  <2>2. Newline(s) = [s EXCEPT !.rows = rows]
    BY <1>2 DEF Newline, rows
  <2> QED BY <1>2, <2>1, <2>2 DEF Screens
<1> QED BY <1>1, <1>2

LEMMA PrintlnKeeps ==
    ASSUME NEW C, NEW s \in Screens(C), NEW what \in Whats
    PROVE  /\ Println(s, what) \in Screens(C) /\ Println(s, what).partial = FALSE
           /\ Println(s, what).width = s.width /\ Println(s, what).harm = s.harm
           /\ Println(s, what).glued \subseteq s.glued \cup {what}
           /\ ~s.partial => Println(s, what).glued = s.glued
<1>1. CASE s.partial
  BY <1>1 DEF Println, Screens
<1>2. CASE ~s.partial
  <2>1. Println(s, what) = Newline(s)
    BY <1>2 DEF Println, Newline
  <2> QED BY <2>1, NewlineKeeps
<1> QED BY <1>1, <1>2

LEMMA RawOutputKeeps ==
    ASSUME NEW C, NEW s \in Screens(C), NEW ended \in BOOLEAN
    PROVE  /\ RawOutput(s, ended) \in Screens(C)
           /\ RawOutput(s, ended).width = s.width /\ RawOutput(s, ended).harm = s.harm
           /\ RawOutput(s, ended).glued = s.glued
<1> DEFINE rows == IF s.partial THEN s.rows ELSE Recent(Append(s.rows, TextRow(s, "raw")))
<1>1. rows \in Seq(Rows(C))
  <2>1. Append(s.rows, TextRow(s, "raw")) \in Seq(Rows(C))
    BY TextIsRow DEF Screens
  <2>2. Recent(Append(s.rows, TextRow(s, "raw"))) \in Seq(Rows(C))
    BY <2>1, RecentKeeps
  <2> QED BY <2>2 DEF Screens
<1> HIDE DEF rows
<1>2. RawOutput(s, ended) = [s EXCEPT !.partial = ~ended, !.rows = rows]
  BY DEF RawOutput, rows
<1> QED BY <1>1, <1>2 DEF Screens

\* A screen drawn on: what follows goes below, and nothing has been harmed.
Drawn(C, s, t) ==
    /\ t \in Screens(C) /\ ~t.partial /\ t.width = s.width
    /\ (t.harm <=> s.harm) /\ t.glued = s.glued

EndIn(all, rows) ==
    /\ Len(rows) <= Len(all)
    /\ \A i \in 1..Len(rows) : all[Len(all) - Len(rows) + i] = rows[i]

LEMMA NewlineDraws ==
    ASSUME NEW C, NEW s \in Screens(C)
    PROVE  Drawn(C, s, Newline(s))
BY NewlineKeeps DEF Drawn

LEMMA PrintlnDraws ==
    ASSUME NEW C, NEW s \in Screens(C), ~s.partial, NEW what \in Whats
    PROVE  Drawn(C, s, Println(s, what))
BY PrintlnKeeps DEF Drawn

\* What is painted where no output is left unended is the last of the screen.
LEMMA PaintKeeps ==
    ASSUME NEW C, NEW s \in Screens(C), ~s.partial, NEW rows \in Seq(Rows(C)),
           Len(rows) \in 1..RowsKept
    PROVE  Drawn(C, s, Paint(s, rows)) /\ EndIn(Paint(s, rows).rows, rows)
<1> DEFINE both == s.rows \o rows
           now == Recent(both)
           n == Len(rows)
<1>1. s.rows \in Seq(Rows(C)) /\ RowsKept \in Nat
  BY DisplayAssumption DEF Screens
<1>2. /\ both \in Seq(Rows(C)) /\ Len(both) = Len(s.rows) + n /\ n \in 0..RowsKept
      /\ Len(s.rows) \in Nat /\ \A i \in 1..n : both[Len(s.rows) + i] = rows[i]
  BY <1>1
<1>3. Paint(s, rows) = [s EXCEPT !.rows = now]
  BY DEF Paint
<1> HIDE DEF both
<1>4. /\ now \in Seq(Rows(C)) /\ n <= Len(now)
      /\ \A i \in 1..n : now[Len(now) - n + i] = both[Len(both) - n + i]
  <2>1. n <= Len(both)
    BY <1>2
  <2>2. /\ Recent(both) \in Seq(Rows(C))
        /\ \A m \in 0..RowsKept : m <= Len(both) =>
              /\ m <= Len(Recent(both))
              /\ \A i \in 1..m :
                    Recent(both)[Len(Recent(both)) - m + i] = both[Len(both) - m + i]
    BY <1>2, RecentKeeps
  <2> HIDE DEF n
  <2> QED BY <1>2, <2>1, <2>2
<1>5. \A i \in 1..n : now[Len(now) - n + i] = rows[i]
  BY <1>2, <1>4
<1> HIDE DEF now
<1>6. Drawn(C, s, Paint(s, rows))
  BY <1>3, <1>4 DEF Screens, Drawn
<1>7. Paint(s, rows).rows = now
  BY <1>3 DEF Screens
<1>8. EndIn(now, rows)
  BY <1>4, <1>5 DEF EndIn
<1> QED BY <1>6, <1>7, <1>8

\* The last n rows of a screen are of this kind, each of which fits the width.
OwnRows(s, n, kind) ==
    /\ n <= Len(s.rows)
    /\ \A i \in 1..n :
          /\ s.rows[Len(s.rows) - n + i].kind = kind
          /\ kind = "block" => s.rows[Len(s.rows) - n + i].says = i
          /\ s.rows[Len(s.rows) - n + i].columns <= s.width

LEMMA OwnRowsOnly ==
    ASSUME NEW C, NEW s \in Screens(C), ~s.partial, NEW n \in Nat, NEW kind,
           OwnRows(s, n, kind)
    PROVE  Drawn(C, s, CursorUp(s, n, kind, n))
<1> DEFINE all == Len(s.rows)
           last == SubSeq(s.rows, all - n + 1, all)
           left == SubSeq(s.rows, 1, all - n)
<1>1. s.rows \in Seq(Rows(C)) /\ all \in Nat /\ s.width \in Nat
  BY DEF Screens
<1>0. /\ n <= all
      /\ \A i \in 1..n : /\ s.rows[all - n + i].kind = kind
                         /\ kind = "block" => s.rows[all - n + i].says = i
                         /\ s.rows[all - n + i].columns <= s.width
  BY DEF OwnRows
<1>2. /\ Len(last) = n /\ DOMAIN last = 1..n
      /\ \A i \in 1..n : last[i] = s.rows[all - n + i]
  <2>1. all - n + 1 \in Int /\ all - n + 1 >= 1 /\ all - (all - n + 1) + 1 = n
    BY <1>0, <1>1
  <2>2. \A i \in 1..n : (all - n + 1) + i - 1 = all - n + i
    BY <1>1
  <2> QED BY <1>1, <2>1, <2>2
<1>3. left \in Seq(Rows(C))
  <2>1. all - n \in Nat /\ all - n <= all
    BY <1>0, <1>1
  <2>2. \A i \in 1..all - n : s.rows[i] \in Rows(C)
    BY <1>1
  <2> QED BY <1>1, <2>1, <2>2
<1> HIDE DEF last, left, all
<1>4. \A i \in 1..n : last[i].kind = kind /\ (kind = "block" => last[i].says = i)
  BY <1>0, <1>2
<1>5. CASE Height(last) = n
  <2>1. CursorUp(s, n, kind, n) = [s EXCEPT !.rows = left]
    BY <1>0, <1>4, <1>5 DEF CursorUp, last, left, all
  <2> QED BY <1>3, <2>1 DEF Screens, Drawn
<1>6. CASE Height(last) # n
  <2> DEFINE wrapped == {i \in 1..n : last[i].wrapped}
             stray == Append(left, TextRow(s, "text"))
  <2>1. Height(last) = n + Cardinality(wrapped)
    BY <1>2 DEF Height
  <2>2. IsFiniteSet(wrapped) /\ Cardinality(wrapped) \in Nat
    <3>1. IsFiniteSet(1..n)
      BY FS_Interval
    <3>2. IsFiniteSet(wrapped)
      BY <3>1, FS_Subset
    <3> QED BY <3>2, FS_CardinalityType
  <2>3. PICK i \in 1..n : last[i].wrapped
    <3>1. wrapped # {}
      <4> SUFFICES ASSUME wrapped = {} PROVE FALSE
        OBVIOUS
      <4>1. Cardinality(wrapped) = 0
        BY FS_EmptySet
      <4> HIDE DEF wrapped
      <4> QED BY <1>6, <2>1, <4>1
    <3> QED BY <3>1
  <2>4. last[i].columns <= s.width
    BY <1>0, <1>2
  <2>5. Creased(s, last)
    BY <1>2, <2>3, <2>4 DEF Creased
  <2>6. Height(last) > n
    <3> HIDE DEF wrapped
    <3> QED BY <1>6, <2>1, <2>2
  <2>7. stray \in Seq(Rows(C))
    BY <1>3, TextIsRow
  <2> HIDE DEF stray, wrapped
  <2>8. CursorUp(s, n, kind, n) = [s EXCEPT !.rows = stray]
    BY <1>0, <1>4, <1>6, <2>5, <2>6 DEF CursorUp, last, left, all, stray
  <2> QED BY <2>7, <2>8 DEF Screens, Drawn
<1> QED BY <1>5, <1>6

----------------------------------------------------------------------------
(* The live display.                                                       *)

StageNames ==
    {"pending", "pulling", "layers", "waiting", "building", "step", "built", "creating",
     "starting", "healthy?", "setup", "in setup", "ready", "exited", "running"}
Stages(C) == [at : StageNames, waits : SUBSET C]
Rendered(C) == [text : Stages(C), columns : Nat]

FancyStates(C) ==
    [screen : Screens(C), lines : Seq(C), stage : {<<>>} \cup [C -> Stages(C)],
     painted_lines : Nat, painted_width : {None} \cup Nat,
     last_rendered : {None} \cup Seq(Rendered(C)), keep_updating : BOOLEAN,
     created : SUBSET C, ready : SUBSET C, removing_network : BOOLEAN,
     cleanup_shown : BOOLEAN, cleanup_live : BOOLEAN, cleanup_width : {None} \cup Nat,
     separator_owed : BOOLEAN, printed_a_task : BOOLEAN]

\* The block is the last of the screen, no row of it wider than it was painted for.
BlockRows(rows, n, rendered, width) ==
    /\ n <= Len(rows)
    /\ \A i \in 1..n :
          /\ rows[Len(rows) - n + i].kind = "block" /\ rows[Len(rows) - n + i].says = i
          /\ rows[Len(rows) - n + i].columns = rendered[i].columns
          /\ rows[Len(rows) - n + i].columns <= width

BlockAtBottom(f) ==
    f.painted_lines > 0 =>
        /\ f.painted_lines = Len(f.lines) /\ ~f.screen.partial /\ f.painted_width \in Nat
        /\ BlockRows(f.screen.rows, f.painted_lines, f.last_rendered, f.painted_width)

\* So is the countdown.
CountRow(f) ==
    LET rows == f.screen.rows
    IN /\ Len(rows) > 0 /\ ~f.screen.partial /\ f.cleanup_width \in Nat
       /\ rows[Len(rows)].kind = "count" /\ rows[Len(rows)].columns <= f.cleanup_width

CountAtBottom(f) ==
    CountRow(f) /\ f.screen.rows[Len(f.screen.rows)].says = CleanupText(f)

Ordered(deps, lines) ==
    \A i \in DOMAIN lines : ToSet(deps[lines[i]]) \subseteq {lines[j] : j \in 1..i - 1}

WaitsFor(deps, stage, ready) ==
    \A c \in DOMAIN deps :
        stage[c].at = "waiting" => stage[c].waits = ToSet(deps[c]) \ ready

WaitsForTheRest(deps, f) == WaitsFor(deps, f.stage, f.ready)

Starting(deps, f) ==
    /\ f \in FancyStates(DOMAIN deps) /\ f.stage \in [DOMAIN deps -> Stages(DOMAIN deps)]
    /\ f.keep_updating /\ ~f.screen.partial
    /\ Len(f.lines) <= RowsKept /\ Ordered(deps, f.lines)
    /\ BlockAtBottom(f) /\ WaitsForTheRest(deps, f)

Existing == {c \in DOMAIN graph : Announced(c)}
ReadyOnes == {c \in DOMAIN graph : Ready(c)}

Phases == {"new", "opening", "starting", "running", "ended", "cleaning", "network", "cleaned",
           "between"}

CommonInv ==
    /\ \E s \in Sessions : graph = s.graph
    /\ at = [c \in DOMAIN graph |-> at[c]]
    /\ \A c \in DOMAIN graph : at[c] = "running" => c = TaskContainer
    /\ phase \in Phases /\ tasks \in Nat

\* The live display, with the containers there are and those of them that are ready.
FancyOk(deps, f, ph, there, ready) ==
    /\ f \in FancyStates(DOMAIN deps)
    /\ ~f.screen.harm /\ f.screen.glued \subseteq {"stderr", "exited"}
    /\ ph # "between" => f.created = there
    /\ f.screen.partial => f.separator_owed /\ ph \in {"running", "ended"}
    /\ ph = "running" => f.separator_owed
    /\ ph \notin {"opening", "starting"} => ~f.keep_updating
    /\ ph = "opening" => f.lines = <<>> /\ f.ready = {} /\ ready = {}
    /\ ph = "starting" => Starting(deps, f) /\ f.ready = ready
    /\ f.cleanup_live <=> ph \in {"cleaning", "network"}
    /\ f.cleanup_shown <=> ph \in {"cleaning", "network"}
    /\ f.cleanup_shown => CountAtBottom(f)

FancyInv == FancyOk(graph, view, phase, Existing, ReadyOnes)

SimpleStates(C) ==
    [screen : Screens(C), printed_a_task : BOOLEAN, started_cleanup : BOOLEAN,
     task_container : {None, TaskContainer}]

SimpleOk(C, p, ph) ==
    /\ p \in SimpleStates(C)
    /\ ~p.screen.harm
    /\ p.screen.glued \subseteq {"stderr", "exited", "cleanup", "summary"}
    /\ p.screen.partial => ph \notin {"new", "opening", "starting", "between"}
    /\ ph \in {"starting", "running"} => p.task_container = TaskContainer

AllStates(C) ==
    [screen : Screens(C), task : {None} \cup Nat, task_container : {None, TaskContainer},
     preamble_pending : BOOLEAN, images : SUBSET C, started_cleanup : BOOLEAN,
     heard : SUBSET {TaskContainer}, early : BOOLEAN]

AllOk(C, p, ph) ==
    /\ p \in AllStates(C)
    /\ ~p.screen.harm /\ p.screen.glued = {} /\ ~p.screen.partial
    /\ p.preamble_pending => ph = "opening"
    /\ ~p.early
    /\ ph \in {"starting", "running"} => p.task_container = TaskContainer

DisplayInv ==
    /\ CommonInv
    /\ style.name \in {"fancy", "simple", "all"} /\ style.stderr \in BOOLEAN
    /\ style.name = "fancy" => FancyInv
    /\ style.name = "simple" => SimpleOk(DOMAIN graph, view, phase)
    /\ style.name = "all" => AllOk(DOMAIN graph, view, phase)

----------------------------------------------------------------------------
(* repaint_startup.                                                        *)

LEMMA FitRowFits ==
    ASSUME NEW C, NEW s \in Screens(C), NEW n \in Nat
    PROVE  FitRow(s, n) \in Nat /\ FitRow(s, n) <= s.width
BY DEF FitRow, Screens

LEMMA ColumnsType ==
    ASSUME NEW stage PROVE Columns(stage) \in Nat
BY DEF Columns

LEMMA UpOverBlock ==
    ASSUME NEW C, NEW s \in Screens(C), ~s.partial, NEW n \in Nat, NEW rendered,
           BlockRows(s.rows, n, rendered, s.width)
    PROVE  Drawn(C, s, CursorUp(s, n, "block", n))
<1>1. OwnRows(s, n, "block")
  BY DEF BlockRows, OwnRows
<1> QED BY <1>1, OwnRowsOnly

LEMMA PaintBlock ==
    ASSUME NEW C, NEW s \in Screens(C), ~s.partial, NEW n \in 1..RowsKept, NEW rendered,
           \A i \in 1..n : rendered[i].columns \in Nat /\ rendered[i].columns <= s.width,
           NEW w, NEW rows, rows = [i \in 1..n |-> Row(w, "block", i, rendered[i].columns)]
    PROVE  /\ Drawn(C, s, Paint(s, rows))
           /\ BlockRows(Paint(s, rows).rows, n, rendered, s.width)
<1>0. n \in Nat /\ RowsKept \in Nat
  BY DisplayAssumption
<1>1. rows \in Seq(Rows(C)) /\ Len(rows) = n
  <2>1. ASSUME NEW i \in 1..n PROVE Row(w, "block", i, rendered[i].columns) \in Rows(C)
    BY DEF Row, Rows, Kinds
  <2>2. rows \in [1..n -> Rows(C)]
    BY <2>1
  <2> QED BY <1>0, <2>2
<1>2. \A i \in 1..n : /\ rows[i].kind = "block" /\ rows[i].says = i
                      /\ rows[i].columns = rendered[i].columns
  BY DEF Row
<1>3. Drawn(C, s, Paint(s, rows)) /\ EndIn(Paint(s, rows).rows, rows)
  BY <1>1, PaintKeeps
<1> DEFINE now == Paint(s, rows).rows
<1> HIDE DEF now
<1>4. n <= Len(now) /\ \A i \in 1..n : now[Len(now) - n + i] = rows[i]
  BY <1>1, <1>3 DEF now, EndIn
<1>5. ASSUME NEW i \in 1..n
      PROVE  /\ now[Len(now) - n + i].kind = "block" /\ now[Len(now) - n + i].says = i
             /\ now[Len(now) - n + i].columns = rendered[i].columns
             /\ now[Len(now) - n + i].columns <= s.width
  <2>1. now[Len(now) - n + i] = rows[i]
    BY <1>4
  <2>2. rendered[i].columns <= s.width
    OBVIOUS
  <2> QED BY <1>2, <2>1, <2>2
<1>6. BlockRows(now, n, rendered, s.width)
  BY <1>4, <1>5 DEF BlockRows
<1> QED BY <1>3, <1>6 DEF now

\* All but what is painted.
SameRun(f, g) ==
    /\ g.lines = f.lines /\ g.stage = f.stage /\ g.created = f.created /\ g.ready = f.ready
    /\ (g.keep_updating <=> f.keep_updating) /\ (g.removing_network <=> f.removing_network)
    /\ (g.cleanup_shown <=> f.cleanup_shown) /\ (g.cleanup_live <=> f.cleanup_live)
    /\ (g.separator_owed <=> f.separator_owed) /\ g.cleanup_width = f.cleanup_width
    /\ (g.screen.harm <=> f.screen.harm) /\ g.screen.glued = f.screen.glued

LEMMA RepaintStartupKeeps ==
    ASSUME NEW C, NEW f \in FancyStates(C), f.stage \in [C -> Stages(C)], ~f.screen.partial,
           Len(f.lines) <= RowsKept, BlockAtBottom(f)
    PROVE  /\ RepaintStartup(f) \in FancyStates(C) /\ ~RepaintStartup(f).screen.partial
           /\ BlockAtBottom(RepaintStartup(f)) /\ SameRun(f, RepaintStartup(f))
<1> DEFINE s == f.screen
           n == Len(f.lines)
           rendered == [i \in DOMAIN f.lines |->
                           [text |-> f.stage[f.lines[i]],
                            columns |-> FitRow(s, Columns(f.stage[f.lines[i]]))]]
           rows == [i \in DOMAIN f.lines |-> Row(s, "block", i, rendered[i].columns)]
           start == IF f.painted_lines = 0 THEN s
                    ELSE IF f.painted_width = s.width THEN CursorUp(s, f.painted_lines, "block", n)
                    ELSE Newline(s)
<1>1. /\ f.lines \in Seq(C) /\ n \in Nat /\ DOMAIN f.lines = 1..n
      /\ s \in Screens(C) /\ s.width \in Nat /\ f.painted_lines \in Nat
  BY DEF FancyStates, Screens
<1>2. ASSUME NEW i \in 1..n
      PROVE  /\ rendered[i] \in Rendered(C) /\ rendered[i].columns \in Nat
             /\ rendered[i].columns <= s.width
  <2>1. f.lines[i] \in C
    BY <1>1
  <2> DEFINE stage == f.stage[f.lines[i]]
  <2>2. stage \in Stages(C)
    BY <2>1
  <2>3. FitRow(s, Columns(stage)) \in Nat /\ FitRow(s, Columns(stage)) <= s.width
    BY <1>1, ColumnsType, FitRowFits
  <2> HIDE DEF stage
  <2>4. rendered[i] = [text |-> stage, columns |-> FitRow(s, Columns(stage))]
    BY <1>1 DEF stage
  <2> HIDE DEF rendered
  <2> QED BY <2>2, <2>3, <2>4 DEF Rendered
<1>3. rendered \in Seq(Rendered(C)) /\ Len(rendered) = n
  <2>1. rendered \in [1..n -> Rendered(C)]
    <3>1. rendered = [i \in 1..n |-> rendered[i]]
      BY <1>1
    <3> HIDE DEF rendered
    <3> QED BY <1>2, <3>1
  <2> HIDE DEF rendered
  <2> QED BY <1>1, <2>1
<1> HIDE DEF rendered
<1>4. rows = [i \in 1..n |-> Row(s, "block", i, rendered[i].columns)]
  BY <1>1
<1> HIDE DEF rows
<1>6. CASE f.lines = <<>>
  <2>1. RepaintStartup(f) = f
    BY <1>6 DEF RepaintStartup
  <2> QED BY <2>1 DEF SameRun
<1>7. CASE f.lines # <<>> /\ f.last_rendered = rendered
  <2> DEFINE g == [f EXCEPT !.painted_width = s.width]
  <2>1. RepaintStartup(f) = g
    BY <1>7 DEF RepaintStartup, rendered
  <2>2. g \in FancyStates(C)
    BY <1>1 DEF FancyStates
  <2>3. /\ g.screen = s /\ g.painted_lines = f.painted_lines /\ g.last_rendered = rendered
        /\ g.painted_width = s.width /\ g.lines = f.lines
    BY <1>7 DEF FancyStates
  <2>4. SameRun(f, g)
    BY DEF SameRun, FancyStates
  <2> HIDE DEF g, s
  <2>5. BlockAtBottom(g)
    <3> SUFFICES ASSUME f.painted_lines > 0 PROVE BlockAtBottom(g)
      BY <2>3 DEF BlockAtBottom
    <3>1. f.painted_lines = n /\ ~s.partial
          /\ BlockRows(s.rows, n, rendered, f.painted_width)
      BY <1>7 DEF BlockAtBottom, s
    <3>2. BlockRows(s.rows, n, rendered, s.width)
      BY <1>2, <3>1 DEF BlockRows
    <3> QED BY <1>1, <2>3, <3>1, <3>2 DEF BlockAtBottom
  <2> QED BY <2>1, <2>2, <2>3, <2>4, <2>5 DEF s
<1>8. CASE f.lines # <<>> /\ f.last_rendered # rendered
  <2> DEFINE painted == Paint(start, rows)
             g == [f EXCEPT !.screen = painted, !.painted_lines = n,
                            !.painted_width = s.width, !.last_rendered = rendered]
  <2>0. n \in 1..RowsKept
    BY <1>1, <1>8, DisplayAssumption
  <2>1. RepaintStartup(f) = g
    BY <1>8 DEF RepaintStartup, rendered, rows
  <2>2. Drawn(C, s, start)
    <3>1. CASE f.painted_lines = 0
      BY <1>1, <3>1 DEF Drawn
    <3>2. CASE f.painted_lines # 0 /\ f.painted_width = s.width
      <4>1. f.painted_lines = n /\ BlockRows(s.rows, n, f.last_rendered, s.width)
        BY <1>1, <3>2 DEF BlockAtBottom
      <4>2. start = CursorUp(s, n, "block", n)
        BY <3>2, <4>1
      <4> HIDE DEF start, s, n
      <4>3. ~s.partial
        BY DEF s
      <4> QED BY <1>1, <4>1, <4>2, <4>3, UpOverBlock
    <3>3. CASE f.painted_lines # 0 /\ f.painted_width # s.width
      <4>1. start = Newline(s)
        BY <3>3
      <4> HIDE DEF start
      <4> QED BY <1>1, <4>1, NewlineDraws
    <3> QED BY <3>1, <3>2, <3>3
  <2> HIDE DEF start
  <2>3. Drawn(C, s, painted) /\ BlockRows(painted.rows, n, rendered, s.width)
    <3>1. \A i \in 1..n : rendered[i].columns \in Nat /\ rendered[i].columns <= start.width
      BY <1>2, <2>2 DEF Drawn
    <3>2. start \in Screens(C) /\ ~start.partial
      BY <2>2 DEF Drawn
    <3> HIDE DEF n, s
    <3>3. /\ Drawn(C, start, Paint(start, rows))
          /\ BlockRows(Paint(start, rows).rows, n, rendered, start.width)
      BY <1>4, <2>0, <3>1, <3>2, PaintBlock
    <3> QED BY <2>2, <3>3 DEF Drawn
  <2> HIDE DEF painted
  <2>4. g \in FancyStates(C)
    BY <1>1, <1>3, <2>3 DEF FancyStates, Drawn
  <2>5. /\ g.screen = painted /\ g.painted_lines = n /\ g.last_rendered = rendered
        /\ g.painted_width = s.width /\ g.lines = f.lines
    BY DEF FancyStates
  <2>6. SameRun(f, g)
    <3>1. /\ g.stage = f.stage /\ g.created = f.created /\ g.ready = f.ready
          /\ g.cleanup_width = f.cleanup_width
      BY DEF FancyStates
    <3>2. /\ g.keep_updating = f.keep_updating /\ g.removing_network = f.removing_network
          /\ g.cleanup_shown = f.cleanup_shown /\ g.cleanup_live = f.cleanup_live
          /\ g.separator_owed = f.separator_owed
      BY DEF FancyStates
    <3> HIDE DEF g
    <3> QED BY <2>3, <2>5, <3>1, <3>2 DEF SameRun, Drawn
  <2> HIDE DEF g
  <2>7. BlockAtBottom(g)
    BY <1>1, <2>3, <2>5 DEF BlockAtBottom, Drawn
  <2> QED BY <2>1, <2>3, <2>4, <2>5, <2>6, <2>7 DEF Drawn
<1> QED BY <1>6, <1>7, <1>8

----------------------------------------------------------------------------
(* repaint_cleanup and clear_cleanup_line.                                 *)

LEMMA UpOverCount ==
    ASSUME NEW C, NEW f \in FancyStates(C), CountRow(f), f.cleanup_width = f.screen.width
    PROVE  Drawn(C, f.screen, CursorUp(f.screen, 1, "count", 1))
<1>1. f.screen \in Screens(C) /\ ~f.screen.partial /\ Len(f.screen.rows) \in Nat
  BY DEF FancyStates, Screens, CountRow
<1>2. \A i \in 1..1 : Len(f.screen.rows) - 1 + i = Len(f.screen.rows)
  BY <1>1
<1>3. OwnRows(f.screen, 1, "count")
  BY <1>1, <1>2 DEF OwnRows, CountRow
<1> QED BY <1>1, <1>3, OwnRowsOnly

LEMMA PaintCount ==
    ASSUME NEW C, NEW s \in Screens(C), ~s.partial, NEW text \in SUBSET (C \cup {"network"}),
           NEW n \in Nat, n <= s.width, NEW w
    PROVE  LET t == Paint(s, <<Row(w, "count", text, n)>>)
           IN  /\ Drawn(C, s, t) /\ Len(t.rows) > 0
               /\ t.rows[Len(t.rows)].kind = "count" /\ t.rows[Len(t.rows)].says = text
               /\ t.rows[Len(t.rows)].columns <= s.width
<1> DEFINE row == Row(w, "count", text, n)
           t == Paint(s, <<row>>)
<1>1. row \in Rows(C) /\ row.kind = "count" /\ row.says = text /\ row.columns = n
  BY DEF Row, Rows, Kinds
<1> HIDE DEF row
<1>2. <<row>> \in Seq(Rows(C)) /\ Len(<<row>>) = 1 /\ <<row>>[1] = row
  BY <1>1
<1>3. 1 \in 1..RowsKept
  BY DisplayAssumption
<1>4. Drawn(C, s, t) /\ EndIn(t.rows, <<row>>)
  BY <1>2, <1>3, PaintKeeps
<1>5. t.rows \in Seq(Rows(C))
  BY <1>4 DEF Drawn, Screens
<1> HIDE DEF t
<1>6. Len(t.rows) \in Nat /\ Len(t.rows) >= 1 /\ t.rows[Len(t.rows) - 1 + 1] = row
  BY <1>2, <1>4, <1>5 DEF EndIn
<1>7. Len(t.rows) - 1 + 1 = Len(t.rows)
  BY <1>6
<1> QED BY <1>1, <1>4, <1>6, <1>7 DEF t, row

\* All that cleanup does not change by painting.
SameCleanup(f, g) ==
    /\ g.created = f.created /\ (g.removing_network <=> f.removing_network)
    /\ (g.keep_updating <=> f.keep_updating) /\ (g.cleanup_live <=> f.cleanup_live)
    /\ (g.screen.harm <=> f.screen.harm) /\ g.screen.glued = f.screen.glued

LEMMA RepaintCleanupKeeps ==
    ASSUME NEW C, NEW f \in FancyStates(C), f.cleanup_shown => CountRow(f)
    PROVE  /\ RepaintCleanup(f) \in FancyStates(C) /\ ~RepaintCleanup(f).screen.partial
           /\ CountAtBottom(RepaintCleanup(f)) /\ RepaintCleanup(f).cleanup_shown
           /\ SameCleanup(f, RepaintCleanup(f))
<1> DEFINE s == f.screen
           text == CleanupText(f)
           n == FitRow(s, IF text = {} THEN 1 ELSE 2)
           start == IF f.cleanup_shown /\ f.cleanup_width = s.width
                      THEN CursorUp(s, 1, "count", 1) ELSE Newline(s)
           t == Paint(start, <<Row(s, "count", text, n)>>)
           g == [f EXCEPT !.screen = t, !.separator_owed = @ /\ f.cleanup_shown,
                          !.cleanup_shown = TRUE, !.cleanup_width = s.width]
<1>1. RepaintCleanup(f) = g
  BY DEF RepaintCleanup
<1>2. s \in Screens(C) /\ s.width \in Nat
  BY DEF FancyStates, Screens
<1>3. text \in SUBSET (C \cup {"network"})
  BY DEF FancyStates, CleanupText
<1>4. n \in Nat /\ n <= s.width
  <2>1. (IF text = {} THEN 1 ELSE 2) \in Nat
    OBVIOUS
  <2> QED BY <1>2, <2>1, FitRowFits
<1>5. Drawn(C, s, start)
  <2>1. CASE f.cleanup_shown /\ f.cleanup_width = s.width
    <3>1. start = CursorUp(s, 1, "count", 1)
      BY <2>1
    <3>2. CountRow(f)
      BY <2>1
    <3> QED BY <2>1, <3>1, <3>2, UpOverCount
  <2>2. CASE ~(f.cleanup_shown /\ f.cleanup_width = s.width)
    <3>1. start = Newline(s)
      BY <2>2
    <3> QED BY <1>2, <3>1, NewlineDraws
  <2> QED BY <2>1, <2>2
<1> HIDE DEF text, n, start
<1>6. /\ Drawn(C, s, t) /\ Len(t.rows) > 0
      /\ t.rows[Len(t.rows)].kind = "count" /\ t.rows[Len(t.rows)].says = text
      /\ t.rows[Len(t.rows)].columns <= s.width
  <2>1. start \in Screens(C) /\ ~start.partial /\ start.width = s.width
    BY <1>5 DEF Drawn
  <2>2. n <= start.width
    BY <1>4, <2>1
  <2>3. /\ Drawn(C, start, t) /\ Len(t.rows) > 0
        /\ t.rows[Len(t.rows)].kind = "count" /\ t.rows[Len(t.rows)].says = text
        /\ t.rows[Len(t.rows)].columns <= start.width
    BY <1>3, <1>4, <2>1, <2>2, PaintCount
  <2> HIDE DEF t, s
  <2> QED BY <1>5, <2>1, <2>3 DEF Drawn
<1> HIDE DEF t
<1>7. t \in Screens(C)
  BY <1>6 DEF Drawn
<1>8. g \in FancyStates(C)
  BY <1>2, <1>7 DEF FancyStates
<1>9. /\ g.screen = t /\ g.cleanup_width = s.width /\ g.created = f.created
      /\ g.removing_network = f.removing_network
  BY DEF FancyStates
<1>10. /\ g.cleanup_shown /\ g.keep_updating = f.keep_updating
       /\ g.cleanup_live = f.cleanup_live
  BY DEF FancyStates
<1> HIDE DEF g
<1>11. CleanupText(g) = text
  BY <1>9 DEF CleanupText, text
<1>12. CountAtBottom(g)
  BY <1>2, <1>6, <1>9, <1>11 DEF CountAtBottom, CountRow, Drawn
<1>13. SameCleanup(f, g)
  BY <1>6, <1>9, <1>10 DEF SameCleanup, Drawn
<1> QED BY <1>1, <1>6, <1>8, <1>9, <1>10, <1>12, <1>13 DEF Drawn

LEMMA ClearCleanupLineKeeps ==
    ASSUME NEW C, NEW f \in FancyStates(C), f.cleanup_shown => CountRow(f)
    PROVE  /\ ClearCleanupLine(f) \in FancyStates(C) /\ ~ClearCleanupLine(f).cleanup_shown
           /\ SameCleanup(f, ClearCleanupLine(f))
           /\ f.cleanup_shown => ~ClearCleanupLine(f).screen.partial
           /\ ~f.cleanup_shown => ClearCleanupLine(f) = f
<1>1. CASE ~f.cleanup_shown
  BY <1>1 DEF ClearCleanupLine, SameCleanup
<1>2. CASE f.cleanup_shown
  <2> DEFINE s == f.screen
             t == IF f.cleanup_width = s.width THEN CursorUp(s, 1, "count", 1) ELSE Newline(s)
             g == [f EXCEPT !.cleanup_shown = FALSE, !.screen = t]
  <2>1. ClearCleanupLine(f) = g
    BY <1>2 DEF ClearCleanupLine
  <2>2. s \in Screens(C) /\ CountRow(f)
    BY <1>2 DEF FancyStates
  <2>3. Drawn(C, s, t)
    <3>1. CASE f.cleanup_width = s.width
      BY <2>2, <3>1, UpOverCount
    <3>2. CASE f.cleanup_width # s.width
      BY <2>2, <3>2, NewlineDraws
    <3> QED BY <3>1, <3>2
  <2> HIDE DEF t
  <2>4. t \in Screens(C)
    BY <2>3 DEF Drawn
  <2>5. g \in FancyStates(C)
    BY <2>4 DEF FancyStates
  <2>6. g.screen = t /\ g.created = f.created /\ g.removing_network = f.removing_network
    BY DEF FancyStates
  <2>7. ~g.cleanup_shown /\ g.keep_updating = f.keep_updating /\ g.cleanup_live = f.cleanup_live
    BY DEF FancyStates
  <2> HIDE DEF g
  <2>8. SameCleanup(f, g) /\ ~g.screen.partial
    BY <2>3, <2>6, <2>7 DEF SameCleanup, Drawn
  <2> QED BY <1>2, <2>1, <2>5, <2>7, <2>8
<1> QED BY <1>1, <1>2

----------------------------------------------------------------------------
(* The handlers of startup.                                                *)

\* A step of startup: only what is below concerns cleanup, and none of it moves.
Advances(deps, f, g) ==
    /\ Starting(deps, g)
    /\ (g.screen.harm <=> f.screen.harm) /\ g.screen.glued = f.screen.glued
    /\ (g.cleanup_shown <=> f.cleanup_shown) /\ (g.cleanup_live <=> f.cleanup_live)
    /\ (g.separator_owed <=> f.separator_owed)

Restaged(f, stage, ready) == [f EXCEPT !.stage = stage, !.ready = ready]

LEMMA RepaintAdvances ==
    ASSUME NEW deps, NEW f, Starting(deps, f), NEW stage \in [DOMAIN deps -> Stages(DOMAIN deps)],
           NEW ready \in SUBSET DOMAIN deps, WaitsFor(deps, stage, ready),
           NEW g, g = RepaintStartup(Restaged(f, stage, ready))
    PROVE  Advances(deps, f, g) /\ g.created = f.created /\ g.ready = ready
<1> DEFINE C == DOMAIN deps
           h == [f EXCEPT !.stage = stage, !.ready = ready]
<1>0. g = RepaintStartup(h)
  BY DEF Restaged
<1>1. f \in FancyStates(C)
  BY DEF Starting
<1>2. h \in FancyStates(C)
  BY <1>1 DEF FancyStates
<1>3. /\ h.stage = stage /\ h.ready = ready /\ h.created = f.created /\ h.lines = f.lines
      /\ h.screen = f.screen /\ h.painted_lines = f.painted_lines
      /\ h.painted_width = f.painted_width /\ h.last_rendered = f.last_rendered
  BY <1>1 DEF FancyStates
<1>4. /\ h.keep_updating = f.keep_updating /\ h.cleanup_shown = f.cleanup_shown
      /\ h.cleanup_live = f.cleanup_live /\ h.separator_owed = f.separator_owed
  BY <1>1 DEF FancyStates
<1> HIDE DEF h
<1>5. /\ Len(h.lines) <= RowsKept /\ Ordered(deps, h.lines) /\ ~h.screen.partial
      /\ h.keep_updating /\ BlockAtBottom(h)
  BY <1>3, <1>4 DEF Starting, BlockAtBottom
<1>6. g \in FancyStates(C) /\ ~g.screen.partial /\ BlockAtBottom(g) /\ SameRun(h, g)
  BY <1>0, <1>2, <1>3, <1>5, RepaintStartupKeeps
<1>7. g.stage = stage /\ g.ready = ready /\ g.lines = h.lines /\ g.keep_updating
  BY <1>3, <1>5, <1>6 DEF SameRun
<1>8. WaitsForTheRest(deps, g)
  BY <1>7 DEF WaitsForTheRest
<1>9. Starting(deps, g)
  BY <1>5, <1>6, <1>7, <1>8 DEF Starting
<1>10. Advances(deps, f, g) /\ g.created = f.created
  BY <1>3, <1>4, <1>6, <1>9 DEF Advances, SameRun
<1> QED BY <1>7, <1>10

LEMMA StageType ==
    ASSUME NEW C, NEW name \in StageNames
    PROVE  Stage(name) \in Stages(C) /\ Stage(name).at = name /\ Stage(name).waits = {}
BY DEF Stage, Stages

LEMMA SetStageAdvances ==
    ASSUME NEW deps, NEW f, Starting(deps, f), NEW some, NEW name \in StageNames \ {"waiting"}
    PROVE  LET g == WhileStarting(f, SetStage(f, some, Stage(name)))
           IN  Advances(deps, f, g) /\ g.created = f.created /\ g.ready = f.ready
<1> DEFINE C == DOMAIN deps
           stage == [c \in C |-> IF c \in some THEN Stage(name) ELSE f.stage[c]]
           h == Restaged(f, stage, f.ready)
<1>1. f \in FancyStates(C) /\ f.stage \in [C -> Stages(C)] /\ f.ready \in SUBSET C
  BY DEF Starting, FancyStates
<1>2. stage \in [C -> Stages(C)]
  BY <1>1, StageType
<1>3. WaitsFor(deps, stage, f.ready)
  BY StageType DEF Starting, WaitsForTheRest, WaitsFor
<1>4. SetStage(f, some, Stage(name)) = h
  <2>1. DOMAIN f.stage = C
    BY <1>1
  <2>2. SetStage(f, some, Stage(name)) = [f EXCEPT !.stage = stage]
    BY <2>1 DEF SetStage
  <2> HIDE DEF stage
  <2> QED BY <1>1, <2>2 DEF FancyStates, Restaged
<1>5. WhileStarting(f, SetStage(f, some, Stage(name))) = RepaintStartup(h)
  BY <1>4 DEF WhileStarting, Starting
<1> HIDE DEF stage
<1> QED BY <1>1, <1>2, <1>3, <1>5, RepaintAdvances

LEMMA StartWaitingAdvances ==
    ASSUME NEW deps, NEW f, Starting(deps, f), NEW some,
           deps \in [DOMAIN deps -> Seq(DOMAIN deps)]
    PROVE  LET g == WhileStarting(f, StartWaiting(f, deps, some))
           IN  Advances(deps, f, g) /\ g.created = f.created /\ g.ready = f.ready
<1> DEFINE C == DOMAIN deps
           stage == [c \in C |-> IF c \in some THEN WaitingFor(f, deps, c) ELSE f.stage[c]]
           h == Restaged(f, stage, f.ready)
<1>1. f \in FancyStates(C) /\ f.stage \in [C -> Stages(C)] /\ f.ready \in SUBSET C
  BY DEF Starting, FancyStates
<1>2. \A c \in C : /\ WaitingFor(f, deps, c) \in Stages(C)
                   /\ WaitingFor(f, deps, c).waits = ToSet(deps[c]) \ f.ready
  <2> SUFFICES ASSUME NEW c \in C
               PROVE  /\ WaitingFor(f, deps, c) \in Stages(C)
                      /\ WaitingFor(f, deps, c).waits = ToSet(deps[c]) \ f.ready
    OBVIOUS
  <2>1. ToSet(deps[c]) \subseteq C
    BY DEF ToSet
  <2> QED BY <2>1 DEF WaitingFor, Stages, StageNames
<1>3. stage \in [C -> Stages(C)]
  BY <1>1, <1>2
<1>4. WaitsFor(deps, stage, f.ready)
  BY <1>2 DEF Starting, WaitsForTheRest, WaitsFor
<1>5. StartWaiting(f, deps, some) = h
  <2>1. DOMAIN f.stage = C
    BY <1>1
  <2>2. StartWaiting(f, deps, some) = [f EXCEPT !.stage = stage]
    BY <2>1 DEF StartWaiting
  <2> HIDE DEF stage
  <2> QED BY <1>1, <2>2 DEF FancyStates, Restaged
<1>6. WhileStarting(f, StartWaiting(f, deps, some)) = RepaintStartup(h)
  BY <1>5 DEF WhileStarting, Starting
<1> HIDE DEF stage
<1> QED BY <1>1, <1>3, <1>4, <1>6, RepaintAdvances

LEMMA MarkReadyAdvances ==
    ASSUME NEW deps, NEW f, Starting(deps, f), NEW c \in DOMAIN deps
    PROVE  LET g == WhileStarting(f, MarkReady(f, c))
           IN  Advances(deps, f, g) /\ g.created = f.created /\ g.ready = f.ready \cup {c}
<1> DEFINE C == DOMAIN deps
           ready == f.ready \cup {c}
           stage == [x \in C |-> IF x = c THEN Stage("ready")
                                 ELSE [at |-> f.stage[x].at, waits |-> f.stage[x].waits \ {c}]]
           h == Restaged(f, stage, ready)
<1>1. f \in FancyStates(C) /\ f.stage \in [C -> Stages(C)] /\ f.ready \in SUBSET C
  BY DEF Starting, FancyStates
<1>2. ASSUME NEW x \in C
      PROVE  LET e == [at |-> f.stage[x].at, waits |-> f.stage[x].waits \ {c}]
             IN  e \in Stages(C) /\ e.at = f.stage[x].at /\ e.waits = f.stage[x].waits \ {c}
  <2>1. f.stage[x] \in Stages(C)
    BY <1>1
  <2> QED BY <2>1 DEF Stages
<1>3. Stage("ready") \in Stages(C) /\ Stage("ready").at = "ready"
  BY StageType DEF StageNames
<1>4. stage \in [C -> Stages(C)] /\ ready \in SUBSET C
  BY <1>1, <1>2, <1>3
<1>5. ASSUME NEW x \in C, stage[x].at = "waiting"
      PROVE  stage[x].waits = ToSet(deps[x]) \ ready
  <2>1. x # c
    BY <1>3, <1>5
  <2>2. f.stage[x].at = "waiting" /\ stage[x].waits = f.stage[x].waits \ {c}
    BY <1>2, <1>5, <2>1
  <2>3. f.stage[x].waits = ToSet(deps[x]) \ f.ready
    BY <2>2 DEF Starting, WaitsForTheRest, WaitsFor
  <2> QED BY <2>2, <2>3
<1>6. MarkReady(f, c) = h
  <2>1. DOMAIN f.stage = C
    BY <1>1
  <2>2. MarkReady(f, c) = [f EXCEPT !.ready = ready, !.stage = stage]
    BY <2>1 DEF MarkReady
  <2> HIDE DEF stage, ready
  <2> QED BY <1>1, <2>2 DEF FancyStates, Restaged
<1>7. WhileStarting(f, MarkReady(f, c)) = RepaintStartup(h)
  BY <1>6 DEF WhileStarting, Starting
<1> HIDE DEF stage, ready
<1>8. WaitsFor(deps, stage, ready)
  BY <1>5 DEF WaitsFor
<1>9. Advances(deps, f, RepaintStartup(h)) /\ RepaintStartup(h).created = f.created
      /\ RepaintStartup(h).ready = ready
  BY <1>4, <1>8, RepaintAdvances
<1> QED BY <1>7, <1>9 DEF ready

----------------------------------------------------------------------------
(* dependency_post_order.                                                  *)

Visited(visit, list, ordered) ==
    \E f : /\ f[0] = ordered
           /\ \A i \in 1..Len(list) : f[i] = visit[list[i]][f[i - 1]]
           /\ VisitAll(visit, list, ordered) = f[Len(list)]

StaysIn(visit, list, T) == \A i \in 1..Len(list) : \A x \in T : visit[list[i]][x] \in T

LEMMA VisitAllRuns ==
    ASSUME NEW T, NEW visit, NEW list, Len(list) \in Nat, NEW ordered \in T,
           StaysIn(visit, list, T)
    PROVE  Visited(visit, list, ordered)
<1> DEFINE N == Len(list)
           step == [i \in 1..N |-> [x \in T |-> visit[list[i]][x]]]
           Def(f) == [i \in 0..N |-> IF i = 0 THEN ordered ELSE visit[list[i]][f[i - 1]]]
           after == CHOOSE f : f = Def(f)
<1>1. step \in [1..N -> [T -> T]] /\ N \in Nat
  BY DEF StaysIn
<1>2. HasRun(T, N, ordered, step)
  <2> HIDE DEF step, N
  <2> QED BY <1>1, Recursion
<1>3. PICK f \in [0..N -> T] : f[0] = ordered /\ \A i \in 1..N : f[i] = step[i][f[i - 1]]
  BY <1>2 DEF HasRun
<1>4. ASSUME NEW i \in 1..N PROVE f[i] = visit[list[i]][f[i - 1]]
  <2>1. f[i - 1] \in T
    OBVIOUS
  <2>2. step[i][f[i - 1]] = visit[list[i]][f[i - 1]]
    BY <2>1
  <2> QED BY <1>3, <2>2
<1>5. f = Def(f)
  BY <1>3, <1>4
<1>6. after = Def(after)
  BY <1>5
<1>7. VisitAll(visit, list, ordered) = after[N]
  BY DEF VisitAll
<1> HIDE DEF after
<1>8. after[0] = ordered /\ \A i \in 1..N : after[i] = visit[list[i]][after[i - 1]]
  <2> HIDE DEF step, N
  <2>1. \A i \in 0..N : after[i] = IF i = 0 THEN ordered ELSE visit[list[i]][after[i - 1]]
    BY <1>6
  <2>2. 0 \in 0..N /\ \A i \in 1..N : i \in 0..N /\ i # 0
    BY <1>1
  <2> QED BY <2>1, <2>2
<1> QED BY <1>7, <1>8 DEF Visited

LEMMA VisitAllType ==
    ASSUME NEW T, NEW visit, NEW list, Len(list) \in Nat, NEW ordered \in T,
           StaysIn(visit, list, T)
    PROVE  VisitAll(visit, list, ordered) \in T
<1>1. Visited(visit, list, ordered)
  BY VisitAllRuns
<1>2. PICK f : /\ f[0] = ordered
               /\ \A i \in 1..Len(list) : f[i] = visit[list[i]][f[i - 1]]
               /\ VisitAll(visit, list, ordered) = f[Len(list)]
  BY <1>1 DEF Visited
<1>3. \A i \in 1..Len(list) : f[i - 1] \in T => f[i] \in T
  BY <1>2 DEF StaysIn
<1>4. \A i \in 0..Len(list) : f[i] \in T
  BY <1>2, <1>3, Along
<1> QED BY <1>2, <1>4

SameOn(v, w, list) == \A i \in 1..Len(list) : v[list[i]] = w[list[i]]

\* Only what the visits of the list's own elements do matters.
LEMMA VisitAllLocal ==
    ASSUME NEW T, NEW v, NEW w, NEW list, Len(list) \in Nat, NEW ordered \in T,
           StaysIn(v, list, T), StaysIn(w, list, T), SameOn(v, w, list)
    PROVE  VisitAll(v, list, ordered) = VisitAll(w, list, ordered)
<1>1. Visited(v, list, ordered) /\ Visited(w, list, ordered)
  BY VisitAllRuns
<1>2. PICK f : /\ f[0] = ordered
               /\ \A i \in 1..Len(list) : f[i] = v[list[i]][f[i - 1]]
               /\ VisitAll(v, list, ordered) = f[Len(list)]
  BY <1>1 DEF Visited
<1>3. PICK g : /\ g[0] = ordered
               /\ \A i \in 1..Len(list) : g[i] = w[list[i]][g[i - 1]]
               /\ VisitAll(w, list, ordered) = g[Len(list)]
  BY <1>1 DEF Visited
<1> DEFINE Q == {i \in Nat : i <= Len(list) => f[i] = g[i]}
<1>4. 0 \in Q
  BY <1>2, <1>3
<1>5. ASSUME NEW i \in Nat, i \in Q PROVE i + 1 \in Q
  <2> SUFFICES ASSUME i + 1 <= Len(list) PROVE f[i + 1] = g[i + 1]
    OBVIOUS
  <2>1. i + 1 \in 1..Len(list) /\ (i + 1) - 1 = i /\ f[i] = g[i]
    BY <1>5
  <2> QED BY <1>2, <1>3, <2>1 DEF SameOn
<1>6. Len(list) \in Q
  <2> HIDE DEF Q
  <2> QED BY <1>4, <1>5, SetInduction
<1> QED BY <1>2, <1>3, <1>6

VisitStep(deps, v) ==
    [c \in DOMAIN deps |->
        [ordered \in Seq(DOMAIN deps) |->
            IF c \in ToSet(ordered) THEN ordered
            ELSE Append(VisitAll(v, deps[c], ordered), c)]]

Ranks(deps, rank) ==
    /\ rank \in [DOMAIN deps -> 0..Cardinality(DOMAIN deps)]
    /\ \A c \in DOMAIN deps : \A d \in ToSet(deps[c]) : rank[d] < rank[c]

LEMMA VisitStepType ==
    ASSUME NEW deps, deps \in [DOMAIN deps -> Seq(DOMAIN deps)],
           NEW v \in [DOMAIN deps -> [Seq(DOMAIN deps) -> Seq(DOMAIN deps)]]
    PROVE  /\ \A c \in DOMAIN deps : StaysIn(v, deps[c], Seq(DOMAIN deps))
           /\ VisitStep(deps, v) \in [DOMAIN deps -> [Seq(DOMAIN deps) -> Seq(DOMAIN deps)]]
<1> DEFINE C == DOMAIN deps
<1>1. ASSUME NEW c \in C PROVE StaysIn(v, deps[c], Seq(C))
  <2>1. \A i \in 1..Len(deps[c]) : deps[c][i] \in C
    OBVIOUS
  <2> QED BY <2>1 DEF StaysIn
<1>2. ASSUME NEW c \in C, NEW ordered \in Seq(C)
      PROVE  (IF c \in ToSet(ordered) THEN ordered
              ELSE Append(VisitAll(v, deps[c], ordered), c)) \in Seq(C)
  <2>1. Len(deps[c]) \in Nat
    OBVIOUS
  <2>2. VisitAll(v, deps[c], ordered) \in Seq(C)
    BY <1>1, <2>1, VisitAllType
  <2>3. Append(VisitAll(v, deps[c], ordered), c) \in Seq(C)
    BY <2>2, OneMore
  <2> QED BY <2>3
<1>3. VisitStep(deps, v) \in [C -> [Seq(C) -> Seq(C)]]
  BY <1>2 DEF VisitStep
<1> QED BY <1>1, <1>3

\* The visits of what is ranked below n are settled from one round to the next.
VisitsAgree(deps, rank, v, w, n) == \A c \in DOMAIN deps : rank[c] < n => v[c] = w[c]

LEMMA VisitSettles ==
    ASSUME NEW deps, deps \in [DOMAIN deps -> Seq(DOMAIN deps)],
           NEW rank \in [DOMAIN deps -> Nat],
           \A c \in DOMAIN deps : \A d \in ToSet(deps[c]) : rank[d] < rank[c],
           NEW v \in [DOMAIN deps -> [Seq(DOMAIN deps) -> Seq(DOMAIN deps)]],
           NEW w \in [DOMAIN deps -> [Seq(DOMAIN deps) -> Seq(DOMAIN deps)]],
           NEW n \in Nat, VisitsAgree(deps, rank, v, w, n)
    PROVE  VisitsAgree(deps, rank, VisitStep(deps, v), VisitStep(deps, w), n + 1)
<1> SUFFICES ASSUME NEW c \in DOMAIN deps, rank[c] < n + 1
             PROVE  VisitStep(deps, v)[c] = VisitStep(deps, w)[c]
  BY DEF VisitsAgree
<1>1. SameOn(v, w, deps[c])
  <2> SUFFICES ASSUME NEW j \in 1..Len(deps[c]) PROVE v[deps[c][j]] = w[deps[c][j]]
    BY DEF SameOn
  <2>1. deps[c][j] \in DOMAIN deps /\ deps[c][j] \in ToSet(deps[c])
    BY DEF ToSet
  <2> DEFINE d == deps[c][j]
  <2> HIDE DEF d
  <2>2. d \in DOMAIN deps /\ rank[d] < rank[c]
    BY <2>1 DEF d
  <2>3. rank[d] < n
    BY <2>2
  <2>4. v[d] = w[d]
    BY <2>2, <2>3 DEF VisitsAgree
  <2> QED BY <2>4 DEF d
<1>2. ASSUME NEW ordered \in Seq(DOMAIN deps)
      PROVE  VisitAll(v, deps[c], ordered) = VisitAll(w, deps[c], ordered)
  <2>1. Len(deps[c]) \in Nat
    OBVIOUS
  <2>2. StaysIn(v, deps[c], Seq(DOMAIN deps)) /\ StaysIn(w, deps[c], Seq(DOMAIN deps))
    BY VisitStepType
  <2> QED BY <1>1, <2>1, <2>2, VisitAllLocal
<1> QED BY <1>2 DEF VisitStep

LEMMA VisitExists ==
    ASSUME NEW deps, deps \in [DOMAIN deps -> Seq(DOMAIN deps)], IsFiniteSet(DOMAIN deps),
           NEW rank, Ranks(deps, rank)
    PROVE  Visit(deps) = VisitStep(deps, Visit(deps))
<1> DEFINE C == DOMAIN deps
           T == [C -> [Seq(C) -> Seq(C)]]
           K == Cardinality(C)
           N == K + 2
           step == [i \in 1..N |-> [v \in T |-> VisitStep(deps, v)]]
           base == [c \in C |-> [ordered \in Seq(C) |-> ordered]]
<1>1. K \in Nat /\ N \in Nat /\ rank \in [C -> Nat] /\ \A c \in C : rank[c] < K + 1
  <2>1. K \in Nat
    BY FS_CardinalityType
  <2> QED BY <2>1 DEF Ranks
<1>2. base \in T
  OBVIOUS
<1>3. step \in [1..N -> [T -> T]]
  <2>1. \A v \in T : VisitStep(deps, v) \in T
    BY VisitStepType
  <2> HIDE DEF N, T
  <2> QED BY <2>1
<1>4. HasRun(T, N, base, step)
  <2> HIDE DEF N, T, base, step
  <2> QED BY <1>1, <1>2, <1>3, Recursion
<1>5. PICK f \in [0..N -> T] : f[0] = base /\ \A i \in 1..N : f[i] = step[i][f[i - 1]]
  BY <1>4 DEF HasRun
<1>6. ASSUME NEW i \in 0..N - 1
      PROVE  f[i] \in T /\ f[i + 1] = VisitStep(deps, f[i]) /\ f[i + 1] \in T
  <2> HIDE DEF T
  <2>1. i \in 0..N /\ i + 1 \in 0..N /\ i + 1 \in 1..N /\ (i + 1) - 1 = i
    BY <1>1
  <2>2. f[i] \in T /\ f[i + 1] \in T
    BY <2>1
  <2>3. step[i + 1][f[i]] = VisitStep(deps, f[i])
    BY <2>1, <2>2
  <2> QED BY <1>5, <2>1, <2>2, <2>3
<1> DEFINE Q == {i \in Nat : i <= K + 1 => VisitsAgree(deps, rank, f[i], f[i + 1], i)}
<1> HIDE DEF N, step, base
<1>7. 0 \in Q
  BY <1>1 DEF VisitsAgree
<1>8. ASSUME NEW i \in Nat, i \in Q PROVE i + 1 \in Q
  <2> SUFFICES ASSUME i + 1 <= K + 1 PROVE VisitsAgree(deps, rank, f[i + 1], f[(i + 1) + 1], i + 1)
    OBVIOUS
  <2>1. i \in 0..N - 1 /\ i + 1 \in 0..N - 1 /\ i <= K + 1
    BY <1>1 DEF N
  <2>2. /\ f[i] \in T /\ f[i + 1] \in T /\ f[i + 1] = VisitStep(deps, f[i])
        /\ f[(i + 1) + 1] = VisitStep(deps, f[i + 1])
    BY <1>6, <2>1
  <2>3. VisitsAgree(deps, rank, f[i], f[i + 1], i)
    BY <1>8, <2>1
  <2>4. VisitsAgree(deps, rank, VisitStep(deps, f[i]), VisitStep(deps, f[i + 1]), i + 1)
    <3> DEFINE v == f[i]
               w == f[i + 1]
    <3>1. v \in T /\ w \in T /\ VisitsAgree(deps, rank, v, w, i)
      BY <2>2, <2>3
    <3>2. \A c \in DOMAIN deps : \A d \in ToSet(deps[c]) : rank[d] < rank[c]
      BY DEF Ranks
    <3> HIDE DEF v, w
    <3>3. VisitsAgree(deps, rank, VisitStep(deps, v), VisitStep(deps, w), i + 1)
      BY <1>1, <3>1, <3>2, VisitSettles
    <3> QED BY <3>3 DEF v, w
  <2> QED BY <2>2, <2>4
<1>9. K + 1 \in Q
  <2> HIDE DEF Q
  <2> QED BY <1>1, <1>7, <1>8, SetInduction
<1>10. K + 1 \in 0..N - 1
  BY <1>1 DEF N
<1> DEFINE v == f[K + 1]
           w == f[(K + 1) + 1]
<1>11. v = VisitStep(deps, v)
  <2>1. VisitsAgree(deps, rank, v, w, K + 1)
    BY <1>1, <1>9
  <2>2. v \in T /\ w = VisitStep(deps, v) /\ w \in T
    BY <1>6, <1>10
  <2> HIDE DEF v, w
  <2>3. \A c \in C : v[c] = w[c]
    BY <1>1, <2>1 DEF VisitsAgree
  <2>4. v = w
    BY <2>2, <2>3
  <2> QED BY <2>2, <2>4
<1> HIDE DEF v
<1>12. Visit(deps) = CHOOSE u : u = VisitStep(deps, u)
  BY DEF Visit, VisitStep
<1> QED BY <1>11, <1>12

\* Orders of some containers, each once and below what it depends on.
Orders(deps) == {o \in Seq(DOMAIN deps) : IsInjective(o) /\ Ordered(deps, o)}

\* p has all of o, and what it has beside is ranked below n.
Grown(deps, rank, o, p, n) ==
    /\ p \in Orders(deps) /\ ToSet(o) \subseteq ToSet(p)
    /\ \A x \in ToSet(p) \ ToSet(o) : rank[x] < n

VisitsWell(deps, rank, v, c) ==
    \A o \in Orders(deps) : Grown(deps, rank, o, v[c][o], rank[c] + 1) /\ c \in ToSet(v[c][o])

LEMMA GrownOn ==
    ASSUME NEW deps, NEW rank \in [DOMAIN deps -> Nat], NEW o, NEW p, NEW q,
           NEW n \in Nat, NEW m \in Nat,
           Grown(deps, rank, o, p, n), Grown(deps, rank, p, q, m), m <= n
    PROVE  Grown(deps, rank, o, q, n)
<1>1. ToSet(q) \subseteq DOMAIN deps
  BY DEF Grown, Orders, ToSet
<1>2. ASSUME NEW x \in ToSet(q) \ ToSet(o) PROVE rank[x] < n
  <2>1. CASE x \in ToSet(p)
    BY <2>1 DEF Grown
  <2>2. CASE x \notin ToSet(p)
    <3>1. rank[x] < m /\ rank[x] \in Nat
      BY <1>1, <2>2 DEF Grown
    <3> QED BY <3>1
  <2> QED BY <2>1, <2>2
<1> QED BY <1>2 DEF Grown

LEMMA AppendOrders ==
    ASSUME NEW deps, NEW o \in Orders(deps), NEW c \in DOMAIN deps, c \notin ToSet(o),
           ToSet(deps[c]) \subseteq ToSet(o)
    PROVE  Append(o, c) \in Orders(deps) /\ ToSet(Append(o, c)) = ToSet(o) \cup {c}
<1> DEFINE p == Append(o, c)
           n == Len(o)
<1>1. o \in Seq(DOMAIN deps) /\ n \in Nat /\ DOMAIN o = 1..n
  BY DEF Orders
<1>2. /\ p \in Seq(DOMAIN deps) /\ DOMAIN p = 1..n + 1
      /\ p[n + 1] = c /\ \A i \in 1..n : p[i] = o[i]
  BY <1>1
<1> HIDE DEF p, n
<1>3. \A i \in 1..n + 1 : i \in 1..n \/ i = n + 1
  BY <1>1
<1>4. n + 1 \in 1..n + 1 /\ \A i \in 1..n : i \in 1..n + 1
  BY <1>1
<1>5. ToSet(p) = ToSet(o) \cup {c}
  BY <1>1, <1>2, <1>3, <1>4 DEF ToSet
<1>6. \A i \in 1..n : p[i] # c
  BY <1>1, <1>2 DEF ToSet
<1>7. IsInjective(p)
  <2>1. \A i, j \in 1..n : o[i] = o[j] => i = j
    BY <1>1 DEF Orders, IsInjective
  <2> QED BY <1>2, <1>3, <1>6, <2>1 DEF IsInjective
<1>8. ASSUME NEW i \in 1..n + 1 PROVE ToSet(deps[p[i]]) \subseteq {p[j] : j \in 1..i - 1}
  <2>1. CASE i \in 1..n
    <3>1. ToSet(deps[o[i]]) \subseteq {o[j] : j \in 1..i - 1}
      BY <1>1, <2>1 DEF Orders, Ordered
    <3>2. \A j \in 1..i - 1 : j \in 1..n
      BY <1>1, <2>1
    <3> QED BY <1>2, <2>1, <3>1, <3>2
  <2>2. CASE i = n + 1
    <3>1. i - 1 = n
      BY <1>1, <2>2
    <3>2. ToSet(o) = {p[j] : j \in 1..n}
      BY <1>1, <1>2 DEF ToSet
    <3> QED BY <1>2, <2>2, <3>1, <3>2
  <2> QED BY <1>3, <2>1, <2>2
<1>9. Ordered(deps, p)
  BY <1>2, <1>8 DEF Ordered
<1> QED BY <1>2, <1>5, <1>7, <1>9 DEF p, Orders

LEMMA VisitAllGrows ==
    ASSUME NEW deps, NEW rank \in [DOMAIN deps -> Nat], NEW v, NEW list \in Seq(DOMAIN deps),
           NEW n \in Nat, NEW o \in Orders(deps),
           \A d \in ToSet(list) : rank[d] < n /\ VisitsWell(deps, rank, v, d)
    PROVE  /\ Grown(deps, rank, o, VisitAll(v, list, o), n)
           /\ ToSet(list) \subseteq ToSet(VisitAll(v, list, o))
<1> DEFINE G == Orders(deps)
           N == Len(list)
<1>1. N \in Nat /\ \A i \in 1..N : list[i] \in ToSet(list) /\ list[i] \in DOMAIN deps
  BY DEF ToSet
<1>2. StaysIn(v, list, G)
  BY <1>1 DEF StaysIn, VisitsWell, Grown
<1>3. Visited(v, list, o)
  BY <1>1, <1>2, VisitAllRuns
<1>4. PICK f : /\ f[0] = o
               /\ \A i \in 1..N : f[i] = v[list[i]][f[i - 1]]
               /\ VisitAll(v, list, o) = f[N]
  BY <1>3 DEF Visited
<1> DEFINE Done(i) == /\ Grown(deps, rank, o, f[i], n)
                      /\ \A j \in 1..i : list[j] \in ToSet(f[i])
           Q == {i \in Nat : i <= N => Done(i)}
<1>5. 0 \in Q
  BY <1>4 DEF Grown
<1>6. ASSUME NEW i \in Nat, i \in Q PROVE i + 1 \in Q
  <2> SUFFICES ASSUME i + 1 <= N PROVE Done(i + 1)
    OBVIOUS
  <2>1. i + 1 \in 1..N /\ (i + 1) - 1 = i /\ i <= N
    BY <1>1
  <2> DEFINE d == list[i + 1]
             p == f[i]
             q == f[i + 1]
  <2>2. Grown(deps, rank, o, p, n) /\ \A j \in 1..i : list[j] \in ToSet(p)
    BY <1>6, <2>1
  <2>3. q = v[d][p]
    BY <1>4, <2>1
  <2>4. d \in DOMAIN deps /\ rank[d] < n /\ VisitsWell(deps, rank, v, d)
    BY <1>1, <2>1
  <2> HIDE DEF d, p, q
  <2>5. p \in G
    BY <2>2 DEF Grown
  <2>6. Grown(deps, rank, p, q, rank[d] + 1) /\ d \in ToSet(q)
    BY <2>3, <2>4, <2>5 DEF VisitsWell
  <2>7. rank[d] + 1 \in Nat /\ rank[d] + 1 <= n
    BY <2>4
  <2>8. Grown(deps, rank, o, q, n)
    BY <2>2, <2>6, <2>7, GrownOn
  <2>9. ToSet(p) \subseteq ToSet(q)
    BY <2>6 DEF Grown
  <2>10. ASSUME NEW j \in 1..i + 1 PROVE list[j] \in ToSet(q)
    <3>1. j \in 1..i \/ j = i + 1
      OBVIOUS
    <3> QED BY <2>2, <2>6, <2>9, <3>1 DEF d
  <2> QED BY <2>8, <2>10 DEF q
<1>7. N \in Q
  <2> HIDE DEF Q
  <2> QED BY <1>1, <1>5, <1>6, SetInduction
<1>8. Done(N)
  BY <1>1, <1>7
<1> QED BY <1>1, <1>4, <1>8 DEF ToSet

AllVisitWell(deps, rank, v, n) ==
    \A c \in DOMAIN deps : rank[c] < n => VisitsWell(deps, rank, v, c)

LEMMA VisitWellStep ==
    ASSUME NEW deps, deps \in [DOMAIN deps -> Seq(DOMAIN deps)],
           NEW rank \in [DOMAIN deps -> Nat],
           \A c \in DOMAIN deps : \A d \in ToSet(deps[c]) : rank[d] < rank[c],
           NEW v, v = VisitStep(deps, v), NEW n \in Nat, AllVisitWell(deps, rank, v, n)
    PROVE  AllVisitWell(deps, rank, v, n + 1)
<1> SUFFICES ASSUME NEW c \in DOMAIN deps, rank[c] < n + 1, NEW o \in Orders(deps)
             PROVE  Grown(deps, rank, o, v[c][o], rank[c] + 1) /\ c \in ToSet(v[c][o])
  BY DEF AllVisitWell, VisitsWell
<1>1. o \in Seq(DOMAIN deps) /\ deps[c] \in Seq(DOMAIN deps) /\ rank[c] \in Nat
  BY DEF Orders
<1>2. v[c][o] = VisitStep(deps, v)[c][o]
  OBVIOUS
<1>3. v[c][o] = IF c \in ToSet(o) THEN o ELSE Append(VisitAll(v, deps[c], o), c)
  BY <1>1, <1>2 DEF VisitStep
<1>4. CASE c \in ToSet(o)
  BY <1>3, <1>4 DEF Grown
<1>5. CASE c \notin ToSet(o)
  <2> DEFINE r == VisitAll(v, deps[c], o)
  <2>1. ASSUME NEW d \in ToSet(deps[c]) PROVE rank[d] < rank[c] /\ VisitsWell(deps, rank, v, d)
    <3>1. d \in DOMAIN deps
      BY <1>1 DEF ToSet
    <3>2. rank[d] < rank[c] /\ rank[d] \in Nat
      BY <3>1
    <3>3. rank[d] < n
      BY <1>1, <3>2
    <3> QED BY <3>1, <3>2, <3>3 DEF AllVisitWell
  <2>2. Grown(deps, rank, o, r, rank[c]) /\ ToSet(deps[c]) \subseteq ToSet(r)
    BY <1>1, <2>1, VisitAllGrows
  <2> HIDE DEF r
  <2>3. r \in Orders(deps) /\ c \notin ToSet(r) /\ ToSet(r) \subseteq DOMAIN deps
    <3>1. r \in Orders(deps) /\ ToSet(r) \subseteq DOMAIN deps
      BY <2>2 DEF Grown, Orders, ToSet
    <3>2. ~(rank[c] < rank[c])
      BY <1>1
    <3> QED BY <1>5, <2>2, <3>1, <3>2 DEF Grown
  <2> DEFINE q == Append(r, c)
  <2>4. q \in Orders(deps) /\ ToSet(q) = ToSet(r) \cup {c}
    BY <2>2, <2>3, AppendOrders
  <2> HIDE DEF q
  <2>5. ASSUME NEW x \in ToSet(q) \ ToSet(o) PROVE rank[x] < rank[c] + 1
    <3>1. CASE x = c
      BY <1>1, <3>1
    <3>2. CASE x # c
      <4>1. x \in ToSet(r) /\ x \in DOMAIN deps
        BY <2>3, <2>4, <3>2
      <4>2. rank[x] < rank[c] /\ rank[x] \in Nat
        BY <2>2, <4>1 DEF Grown
      <4> QED BY <1>1, <4>2
    <3> QED BY <3>1, <3>2
  <2>6. ToSet(o) \subseteq ToSet(q) /\ c \in ToSet(q)
    BY <2>2, <2>4 DEF Grown
  <2>7. v[c][o] = q
    BY <1>3, <1>5 DEF q, r
  <2> QED BY <2>4, <2>5, <2>6, <2>7 DEF Grown
<1> QED BY <1>4, <1>5

LEMMA NoneAsSeq == SetToSeq({}) = <<>>
<1>1. Cardinality({}) = 0
  BY FS_EmptySet
<1>2. 1..0 = {}
  OBVIOUS
<1>3. \A f \in [{} -> {}] : f = <<>>
  OBVIOUS
<1>4. <<>> \in [{} -> {}] /\ IsInjective(<<>>)
  BY DEF IsInjective
<1>5. SetToSeq({}) = CHOOSE f \in [{} -> {}] : IsInjective(f)
  BY <1>1, <1>2 DEF SetToSeq
<1> QED BY <1>3, <1>4, <1>5

\* The lines of a task are its containers, each once, below what it depends on.
LEMMA PostOrder ==
    ASSUME NEW deps, IsTaskGraph(deps)
    PROVE  LET order == DependencyPostOrder(deps, TaskContainer)
           IN  /\ order \in Seq(DOMAIN deps) /\ Ordered(deps, order)
               /\ Len(order) <= Cardinality(DOMAIN deps)
<1> DEFINE C == DOMAIN deps
           v == Visit(deps)
           reached == v[TaskContainer][<<>>]
<1>1. IsFiniteSet(C) /\ TaskContainer \in C /\ deps \in [C -> Seq(C)]
  BY DEF IsTaskGraph
<1>2. PICK rank : Ranks(deps, rank)
  BY DEF IsTaskGraph, Ranks
<1>3. Cardinality(C) \in Nat
  BY <1>1, FS_CardinalityType
<1>4. rank \in [C -> Nat] /\ (\A c \in C : \A d \in ToSet(deps[c]) : rank[d] < rank[c])
  BY <1>2, <1>3 DEF Ranks
<1>5. v = VisitStep(deps, v)
  BY <1>1, <1>2, VisitExists
<1> HIDE DEF v
<1> DEFINE Q == {n \in Nat : AllVisitWell(deps, rank, v, n)}
<1>6. 0 \in Q
  BY <1>4 DEF AllVisitWell
<1>7. ASSUME NEW n \in Nat, n \in Q PROVE n + 1 \in Q
  <2>1. AllVisitWell(deps, rank, v, n)
    BY <1>7
  <2>2. AllVisitWell(deps, rank, v, n + 1)
    BY <1>1, <1>4, <1>5, <2>1, VisitWellStep
  <2> QED BY <2>2
<1>8. rank[TaskContainer] + 1 \in Q
  <2> HIDE DEF Q
  <2>1. rank[TaskContainer] + 1 \in Nat
    BY <1>1, <1>4
  <2> QED BY <1>6, <1>7, <2>1, SetInduction
<1>9. VisitsWell(deps, rank, v, TaskContainer)
  <2>1. rank[TaskContainer] < rank[TaskContainer] + 1
    BY <1>1, <1>4
  <2> QED BY <1>1, <1>8, <2>1 DEF AllVisitWell
<1>10. <<>> \in Orders(deps)
  BY DEF Orders, IsInjective, Ordered
<1>11. reached \in Orders(deps) /\ TaskContainer \in ToSet(reached)
  BY <1>9, <1>10 DEF VisitsWell, Grown
<1> HIDE DEF reached
<1>12. reached \in Seq(C) /\ Ordered(deps, reached) /\ IsInjective(reached)
  BY <1>11 DEF Orders
<1>13. ToSet(reached) = C
  <2>1. ToSet(reached) \subseteq C
    BY <1>12 DEF ToSet
  <2>2. ASSUME NEW c \in ToSet(reached) PROVE ToSet(deps[c]) \subseteq ToSet(reached)
    <3>1. PICK i \in DOMAIN reached : c = reached[i]
      BY DEF ToSet
    <3>2. ToSet(deps[c]) \subseteq {reached[j] : j \in 1..i - 1}
      BY <1>12, <3>1 DEF Ordered
    <3>3. \A j \in 1..i - 1 : j \in DOMAIN reached
      BY <1>12, <3>1
    <3> QED BY <3>2, <3>3 DEF ToSet
  <2>3. ToSet(reached) \in SUBSET C
    BY <2>1
  <2> QED BY <1>11, <2>2, <2>3 DEF IsTaskGraph
<1>14. DependencyPostOrder(deps, TaskContainer) = reached
  <2>1. DOMAIN deps \ ToSet(reached) = {}
    BY <1>13
  <2>2. DependencyPostOrder(deps, TaskContainer)
           = reached \o SetToSeq(DOMAIN deps \ ToSet(reached))
    BY DEF DependencyPostOrder, reached, v
  <2>3. DependencyPostOrder(deps, TaskContainer) = reached \o <<>>
    BY <2>1, <2>2, NoneAsSeq
  <2> QED BY <1>12, <2>3
<1>15. Len(reached) <= Cardinality(C)
  <2>1. reached \in [1..Len(reached) -> C] /\ Len(reached) \in Nat
    BY <1>12
  <2>2. reached \in Injection(1..Len(reached), C)
    BY <1>12, <2>1 DEF Injection
  <2>3. Cardinality(1..Len(reached)) <= Cardinality(C)
    BY <1>1, <2>2, FS_Injection
  <2>4. Cardinality(1..Len(reached)) = IF 1 > Len(reached) THEN 0 ELSE Len(reached) - 1 + 1
    BY <2>1, FS_Interval
  <2> QED BY <1>3, <2>1, <2>3, <2>4
<1> QED BY <1>12, <1>14, <1>15

----------------------------------------------------------------------------
(* Every handler keeps the live display as it is to be.                    *)

LEMMA StartingStep ==
    ASSUME NEW deps, NEW f, NEW there, NEW ready, FancyOk(deps, f, "starting", there, ready),
           NEW g, Advances(deps, f, g)
    PROVE  FancyOk(deps, g, "starting", g.created, g.ready)
<1>1. Starting(deps, g) /\ g \in FancyStates(DOMAIN deps) /\ ~g.screen.partial
  BY DEF Advances, Starting
<1>2. ~f.cleanup_live /\ ~f.cleanup_shown /\ ~f.screen.harm
      /\ f.screen.glued \subseteq {"stderr", "exited"}
  BY DEF FancyOk
<1>3. ~g.cleanup_live /\ ~g.cleanup_shown /\ ~g.screen.harm
      /\ g.screen.glued \subseteq {"stderr", "exited"}
  BY <1>2 DEF Advances
<1> QED BY <1>1, <1>3 DEF FancyOk

LEMMA SetStageOk ==
    ASSUME NEW deps, NEW f, NEW there, NEW ready, FancyOk(deps, f, "starting", there, ready),
           NEW some, NEW name \in StageNames \ {"waiting"}
    PROVE  FancyOk(deps, WhileStarting(f, SetStage(f, some, Stage(name))), "starting", there, ready)
<1> DEFINE g == WhileStarting(f, SetStage(f, some, Stage(name)))
<1>1. Starting(deps, f) /\ f.created = there /\ f.ready = ready
  BY DEF FancyOk
<1>2. Advances(deps, f, g) /\ g.created = there /\ g.ready = ready
  BY <1>1, SetStageAdvances
<1> HIDE DEF g
<1> QED BY <1>2, StartingStep DEF g

LEMMA StartWaitingOk ==
    ASSUME NEW deps, NEW f, NEW there, NEW ready, FancyOk(deps, f, "starting", there, ready),
           deps \in [DOMAIN deps -> Seq(DOMAIN deps)], NEW some
    PROVE  FancyOk(deps, WhileStarting(f, StartWaiting(f, deps, some)), "starting", there, ready)
<1> DEFINE g == WhileStarting(f, StartWaiting(f, deps, some))
<1>1. Starting(deps, f) /\ f.created = there /\ f.ready = ready
  BY DEF FancyOk
<1>2. Advances(deps, f, g) /\ g.created = there /\ g.ready = ready
  BY <1>1, StartWaitingAdvances
<1> HIDE DEF g
<1> QED BY <1>2, StartingStep DEF g

LEMMA MarkReadyOk ==
    ASSUME NEW deps, NEW f, NEW there, NEW ready, FancyOk(deps, f, "starting", there, ready),
           NEW c \in DOMAIN deps
    PROVE  FancyOk(deps, WhileStarting(f, MarkReady(f, c)), "starting", there, ready \cup {c})
<1> DEFINE g == WhileStarting(f, MarkReady(f, c))
<1>1. Starting(deps, f) /\ f.created = there /\ f.ready = ready
  BY DEF FancyOk
<1>2. Advances(deps, f, g) /\ g.created = there /\ g.ready = ready \cup {c}
  BY <1>1, MarkReadyAdvances
<1> HIDE DEF g
<1> QED BY <1>2, StartingStep DEF g

LEMMA CreatedOk ==
    ASSUME NEW deps, NEW f, NEW there, NEW ready, FancyOk(deps, f, "starting", there, ready),
           deps \in [DOMAIN deps -> Seq(DOMAIN deps)], NEW c \in DOMAIN deps
    PROVE  FancyOk(deps, FancyContainerCreated(f, deps, c), "starting", there \cup {c}, ready)
<1> DEFINE h == WhileStarting(f, StartWaiting(f, deps, {c}))
           g == [h EXCEPT !.created = @ \cup {c}]
<1>1. FancyOk(deps, h, "starting", there, ready)
  BY StartWaitingOk
<1> HIDE DEF h
<1>2. h \in FancyStates(DOMAIN deps) /\ h.created = there
  BY <1>1 DEF FancyOk
<1>3. g \in FancyStates(DOMAIN deps)
  BY <1>2 DEF FancyStates
<1>4. /\ g.created = there \cup {c} /\ g.screen = h.screen /\ g.lines = h.lines
      /\ g.stage = h.stage /\ g.ready = h.ready /\ g.painted_lines = h.painted_lines
      /\ g.painted_width = h.painted_width /\ g.last_rendered = h.last_rendered
  BY <1>2 DEF FancyStates
<1>5. /\ g.keep_updating = h.keep_updating /\ g.cleanup_shown = h.cleanup_shown
      /\ g.cleanup_live = h.cleanup_live /\ g.separator_owed = h.separator_owed
  BY <1>2 DEF FancyStates
<1>6. FancyContainerCreated(f, deps, c) = g
  BY DEF FancyContainerCreated, h
<1> HIDE DEF g
<1>7. Starting(deps, h) /\ ~h.cleanup_live /\ ~h.cleanup_shown /\ ~h.screen.harm
      /\ h.screen.glued \subseteq {"stderr", "exited"} /\ h.ready = ready
  BY <1>1 DEF FancyOk
<1>8. Starting(deps, g)
  BY <1>3, <1>4, <1>5, <1>7 DEF Starting, BlockAtBottom, WaitsForTheRest
<1>9. Advances(deps, h, g) /\ g.ready = ready
  BY <1>4, <1>5, <1>7, <1>8 DEF Advances
<1>10. FancyOk(deps, g, "starting", g.created, g.ready)
  BY <1>1, <1>9, StartingStep
<1> QED BY <1>4, <1>6, <1>9, <1>10

\* A create that answers once the run has ended: only the count has it.
LEMMA CreatedLateOk ==
    ASSUME NEW deps, NEW f, NEW there, NEW ready, FancyOk(deps, f, "ended", there, ready),
           NEW c \in DOMAIN deps
    PROVE  FancyOk(deps, FancyContainerCreated(f, deps, c), "ended", there \cup {c}, ready)
<1> DEFINE g == [f EXCEPT !.created = @ \cup {c}]
<1>1. /\ f \in FancyStates(DOMAIN deps) /\ f.created = there /\ ~f.keep_updating
      /\ ~f.cleanup_shown /\ ~f.cleanup_live
  BY DEF FancyOk
<1>2. FancyContainerCreated(f, deps, c) = g
  BY <1>1 DEF FancyContainerCreated, WhileStarting
<1>3. g \in FancyStates(DOMAIN deps)
  BY <1>1 DEF FancyStates
<1>4. g.created = there \cup {c} /\ g.screen = f.screen
  BY <1>1 DEF FancyStates
<1>5. /\ g.keep_updating = f.keep_updating /\ g.cleanup_shown = f.cleanup_shown
      /\ g.cleanup_live = f.cleanup_live /\ g.separator_owed = f.separator_owed
  BY <1>1 DEF FancyStates
<1> HIDE DEF g
<1> QED BY <1>1, <1>2, <1>3, <1>4, <1>5 DEF FancyOk

\* Rows as a resize leaves them: what they say is what they said.
SameText(rows, now) ==
    /\ Len(now) = Len(rows)
    /\ \A i \in 1..Len(rows) :
          now[i].kind = rows[i].kind /\ now[i].says = rows[i].says
          /\ now[i].columns = rows[i].columns

LEMMA ReflowKeeps ==
    ASSUME NEW C, NEW s \in Screens(C), NEW w \in Nat, NEW wrapped
    PROVE  /\ Reflow(s, w, wrapped) \in Screens(C) /\ Reflow(s, w, wrapped).glued = s.glued
           /\ Reflow(s, w, wrapped).partial = s.partial /\ Reflow(s, w, wrapped).harm = s.harm
           /\ SameText(s.rows, Reflow(s, w, wrapped).rows)
<1> DEFINE n == Len(s.rows)
           now == [i \in DOMAIN s.rows |-> [s.rows[i] EXCEPT !.wrapped = i \in wrapped]]
           t == [s EXCEPT !.width = w, !.rows = now]
<1>1. s.rows \in Seq(Rows(C)) /\ n \in Nat /\ DOMAIN s.rows = 1..n
  BY DEF Screens
<1>2. ASSUME NEW i \in 1..n
      PROVE  /\ now[i] \in Rows(C) /\ now[i].kind = s.rows[i].kind
             /\ now[i].says = s.rows[i].says /\ now[i].columns = s.rows[i].columns
  <2> DEFINE row == s.rows[i]
             bit == i \in wrapped
  <2>1. row \in Rows(C)
    BY <1>1
  <2>2. now[i] = [row EXCEPT !.wrapped = bit]
    BY <1>1
  <2>3. bit \in BOOLEAN
    OBVIOUS
  <2> HIDE DEF row, bit, now
  <2>4. /\ now[i] \in Rows(C) /\ now[i].kind = row.kind
        /\ now[i].says = row.says /\ now[i].columns = row.columns
    BY <2>1, <2>2, <2>3 DEF Rows
  <2> QED BY <2>4 DEF row
<1>3. now = [i \in 1..n |-> now[i]]
  BY <1>1
<1> HIDE DEF now
<1>4. now \in Seq(Rows(C)) /\ Len(now) = n
  <2>1. now \in [1..n -> Rows(C)]
    BY <1>2, <1>3
  <2> QED BY <1>1, <2>1
<1>5. SameText(s.rows, now)
  BY <1>2, <1>4 DEF SameText
<1>6. Reflow(s, w, wrapped) = t
  BY DEF Reflow, now
<1>7. t \in Screens(C) /\ t.glued = s.glued /\ t.rows = now
  BY <1>4 DEF Screens
<1>8. t.partial = s.partial /\ t.harm = s.harm
  BY DEF Screens
<1> HIDE DEF t
<1> QED BY <1>5, <1>6, <1>7, <1>8

LEMMA SameBlock ==
    ASSUME NEW R, NEW rows \in Seq(R), NEW now, SameText(rows, now), NEW n \in Nat,
           NEW rendered, NEW width, BlockRows(rows, n, rendered, width)
    PROVE  BlockRows(now, n, rendered, width)
<1>1. Len(rows) \in Nat /\ Len(now) = Len(rows) /\ n <= Len(rows)
  BY DEF SameText, BlockRows
<1>2. ASSUME NEW i \in 1..n
      PROVE  /\ now[Len(now) - n + i].kind = "block" /\ now[Len(now) - n + i].says = i
             /\ now[Len(now) - n + i].columns = rendered[i].columns
             /\ now[Len(now) - n + i].columns <= width
  <2> DEFINE j == Len(rows) - n + i
  <2>1. j \in 1..Len(rows) /\ Len(now) - n + i = j
    BY <1>1
  <2>2. /\ rows[j].kind = "block" /\ rows[j].says = i
        /\ rows[j].columns = rendered[i].columns /\ rows[j].columns <= width
    BY DEF BlockRows
  <2> HIDE DEF j
  <2>3. now[j].kind = rows[j].kind /\ now[j].says = rows[j].says
        /\ now[j].columns = rows[j].columns
    BY <2>1 DEF SameText
  <2> QED BY <2>1, <2>2, <2>3
<1> QED BY <1>1, <1>2 DEF BlockRows

\* The block is as it was, however wide the terminal is now and whatever it has wrapped.
LEMMA ResizeOk ==
    ASSUME NEW deps, NEW f, NEW ph, NEW there, NEW ready, FancyOk(deps, f, ph, there, ready),
           NEW w \in Nat, NEW wrapped
    PROVE  FancyOk(deps, [f EXCEPT !.screen = Reflow(@, w, wrapped)], ph, there, ready)
<1> DEFINE C == DOMAIN deps
           s == Reflow(f.screen, w, wrapped)
           g == [f EXCEPT !.screen = s]
<1>1. f \in FancyStates(C) /\ f.screen \in Screens(C) /\ f.screen.rows \in Seq(Rows(C))
  BY DEF FancyOk, FancyStates, Screens
<1>2. s \in Screens(C) /\ SameText(f.screen.rows, s.rows) /\ s.glued = f.screen.glued
  BY <1>1, ReflowKeeps
<1>4. s.partial = f.screen.partial /\ s.harm = f.screen.harm
  BY <1>1, ReflowKeeps
<1>5. [f EXCEPT !.screen = Reflow(@, w, wrapped)] = g
  OBVIOUS
<1> HIDE DEF s
<1>6. g \in FancyStates(C)
  BY <1>1, <1>2 DEF FancyStates
<1>7. /\ g.screen = s /\ g.created = f.created /\ g.lines = f.lines /\ g.stage = f.stage
      /\ g.ready = f.ready /\ g.painted_lines = f.painted_lines
      /\ g.painted_width = f.painted_width /\ g.last_rendered = f.last_rendered
      /\ g.cleanup_width = f.cleanup_width
  BY <1>1 DEF FancyStates
<1>8. /\ g.keep_updating = f.keep_updating /\ g.cleanup_shown = f.cleanup_shown
      /\ g.cleanup_live = f.cleanup_live /\ g.separator_owed = f.separator_owed
      /\ g.removing_network = f.removing_network
  BY <1>1 DEF FancyStates
<1> HIDE DEF g
<1>9. BlockAtBottom(f) => BlockAtBottom(g)
  <2> SUFFICES ASSUME BlockAtBottom(f), f.painted_lines > 0 PROVE BlockAtBottom(g)
    BY <1>7 DEF BlockAtBottom
  <2>1. /\ f.painted_lines = Len(f.lines) /\ ~f.screen.partial /\ f.painted_width \in Nat
        /\ BlockRows(f.screen.rows, f.painted_lines, f.last_rendered, f.painted_width)
    BY DEF BlockAtBottom
  <2>2. f.painted_lines \in Nat
    BY <1>1 DEF FancyStates
  <2>3. BlockRows(s.rows, f.painted_lines, f.last_rendered, f.painted_width)
    BY <1>1, <1>2, <2>1, <2>2, SameBlock
  <2> QED BY <1>4, <1>7, <2>1, <2>3 DEF BlockAtBottom
<1>10. Starting(deps, f) => Starting(deps, g)
  BY <1>4, <1>6, <1>7, <1>8, <1>9 DEF Starting, WaitsForTheRest
<1>11. CountAtBottom(f) => CountAtBottom(g)
  <2> SUFFICES ASSUME CountAtBottom(f) PROVE CountAtBottom(g)
    OBVIOUS
  <2> DEFINE n == Len(f.screen.rows)
  <2>1. n \in Nat /\ n > 0 /\ Len(s.rows) = n /\ n \in 1..n
    BY <1>1, <1>2 DEF CountAtBottom, CountRow, SameText
  <2>2. /\ s.rows[n].kind = f.screen.rows[n].kind /\ s.rows[n].says = f.screen.rows[n].says
        /\ s.rows[n].columns = f.screen.rows[n].columns
    BY <1>2, <2>1 DEF SameText
  <2>3. CleanupText(g) = CleanupText(f)
    BY <1>7, <1>8 DEF CleanupText
  <2> QED BY <1>4, <1>7, <2>1, <2>2, <2>3 DEF CountAtBottom, CountRow
<1> QED BY <1>2, <1>4, <1>5, <1>6, <1>7, <1>8, <1>10, <1>11 DEF FancyOk

\* Nothing is wrong on the screen of f.
Unharmed(C, f) ==
    /\ f \in FancyStates(C) /\ ~f.screen.harm /\ f.screen.glued \subseteq {"stderr", "exited"}

LEMMA CountdownOk ==
    ASSUME NEW deps, NEW f, Unharmed(DOMAIN deps, f), ~f.keep_updating, f.cleanup_live,
           f.cleanup_shown => CountRow(f), NEW ph \in {"cleaning", "network"}, NEW ready
    PROVE  FancyOk(deps, RepaintCleanup(f), ph, f.created, ready)
<1> DEFINE g == RepaintCleanup(f)
<1>1. /\ g \in FancyStates(DOMAIN deps) /\ ~g.screen.partial /\ CountAtBottom(g)
      /\ g.cleanup_shown /\ SameCleanup(f, g)
  BY RepaintCleanupKeeps DEF Unharmed
<1> HIDE DEF g
<1>2. ~g.screen.harm /\ g.screen.glued \subseteq {"stderr", "exited"} /\ g.created = f.created
      /\ ~g.keep_updating /\ g.cleanup_live
  BY <1>1 DEF SameCleanup, Unharmed
<1> QED BY <1>1, <1>2 DEF FancyOk, g

LEMMA IdleOk ==
    ASSUME NEW deps, NEW f, Unharmed(DOMAIN deps, f), ~f.keep_updating, ~f.cleanup_live,
           ~f.cleanup_shown, ~f.screen.partial,
           NEW ph \in {"new", "running", "ended", "cleaned", "between"},
           ph = "running" => f.separator_owed, NEW there, ph # "between" => f.created = there,
           NEW ready
    PROVE  FancyOk(deps, f, ph, there, ready)
BY DEF FancyOk, Unharmed

\* A line printed: the block and the countdown are no longer right above the cursor.
Below(f, what) ==
    [f EXCEPT !.screen = Println(@, what), !.painted_lines = 0, !.last_rendered = None,
              !.cleanup_shown = FALSE]
BelowCount(f, what) == [f EXCEPT !.screen = Println(@, what), !.cleanup_shown = FALSE]

AfterLine(C, f, g) ==
    /\ Unharmed(C, g) /\ ~g.screen.partial /\ ~g.cleanup_shown
    /\ g.created = f.created /\ g.ready = f.ready /\ g.stage = f.stage /\ g.lines = f.lines
    /\ (g.keep_updating <=> f.keep_updating) /\ (g.cleanup_live <=> f.cleanup_live)
    /\ (g.separator_owed <=> f.separator_owed)

LEMMA LinePrinted ==
    ASSUME NEW C, NEW f, Unharmed(C, f), NEW what \in {"stderr", "exited"}
    PROVE  /\ AfterLine(C, f, Below(f, what)) /\ Below(f, what).painted_lines = 0
           /\ AfterLine(C, f, BelowCount(f, what))
<1> DEFINE s == Println(f.screen, what)
           g == [f EXCEPT !.screen = s, !.painted_lines = 0, !.last_rendered = None,
                          !.cleanup_shown = FALSE]
           h == [f EXCEPT !.screen = s, !.cleanup_shown = FALSE]
<1>1. f \in FancyStates(C) /\ f.screen \in Screens(C)
  BY DEF Unharmed, FancyStates
<1>2. what \in Whats
  BY DEF Whats
<1>3. s \in Screens(C) /\ ~s.partial /\ (s.harm <=> f.screen.harm)
      /\ s.glued \subseteq f.screen.glued \cup {what}
  BY <1>1, <1>2, PrintlnKeeps
<1>4. Below(f, what) = g /\ BelowCount(f, what) = h
  BY DEF Below, BelowCount
<1> HIDE DEF s
<1>5. AfterLine(C, f, g) /\ g.painted_lines = 0
  <2>1. g \in FancyStates(C)
    BY <1>1, <1>3 DEF FancyStates
  <2>2. /\ g.screen = s /\ g.created = f.created /\ g.ready = f.ready /\ g.stage = f.stage
        /\ g.lines = f.lines /\ g.painted_lines = 0
    BY <1>1 DEF FancyStates
  <2>3. /\ ~g.cleanup_shown /\ g.keep_updating = f.keep_updating
        /\ g.cleanup_live = f.cleanup_live /\ g.separator_owed = f.separator_owed
    BY <1>1 DEF FancyStates
  <2> HIDE DEF g
  <2>4. Unharmed(C, g)
    BY <1>3, <2>1, <2>2 DEF Unharmed
  <2> QED BY <1>3, <2>2, <2>3, <2>4 DEF AfterLine
<1>6. AfterLine(C, f, h)
  <2>1. h \in FancyStates(C)
    BY <1>1, <1>3 DEF FancyStates
  <2>2. /\ h.screen = s /\ h.created = f.created /\ h.ready = f.ready /\ h.stage = f.stage
        /\ h.lines = f.lines
    BY <1>1 DEF FancyStates
  <2>3. /\ ~h.cleanup_shown /\ h.keep_updating = f.keep_updating
        /\ h.cleanup_live = f.cleanup_live /\ h.separator_owed = f.separator_owed
    BY <1>1 DEF FancyStates
  <2> HIDE DEF h
  <2>4. Unharmed(C, h)
    BY <1>3, <2>1, <2>2 DEF Unharmed
  <2> QED BY <1>3, <2>2, <2>3, <2>4 DEF AfterLine
<1> HIDE DEF g, h
<1> QED BY <1>4, <1>5, <1>6

LEMMA StderrOk ==
    ASSUME NEW deps, NEW f, NEW there, NEW ready, NEW onScreen \in BOOLEAN,
           NEW ph \in {"starting", "ended", "cleaning", "network", "cleaned"},
           FancyOk(deps, f, ph, there, ready)
    PROVE  FancyOk(deps, FancyStderrClass(f, onScreen), ph, there, ready)
<1> DEFINE g == Below(f, "stderr")
<1>1. CASE ~onScreen
  BY <1>1 DEF FancyStderrClass
<1>2. CASE onScreen
  <2>1. Unharmed(DOMAIN deps, f)
    BY DEF FancyOk, Unharmed
  <2>2. /\ Unharmed(DOMAIN deps, g) /\ ~g.screen.partial /\ ~g.cleanup_shown
        /\ g.created = f.created /\ g.ready = f.ready /\ g.stage = f.stage /\ g.lines = f.lines
        /\ (g.keep_updating <=> f.keep_updating) /\ (g.cleanup_live <=> f.cleanup_live)
        /\ (g.separator_owed <=> f.separator_owed)
    BY <2>1, LinePrinted DEF AfterLine
  <2>3. g.painted_lines = 0
    BY <2>1, LinePrinted
  <2>4. FancyStderrClass(f, onScreen) = RepaintCleanupIfLive(g)
    BY <1>2 DEF FancyStderrClass, Below
  <2>5. f.created = there /\ (f.cleanup_live <=> ph \in {"cleaning", "network"})
    BY DEF FancyOk
  <2> HIDE DEF g
  <2>6. CASE ph \in {"cleaning", "network"}
    <3>1. RepaintCleanupIfLive(g) = RepaintCleanup(g) /\ ~g.keep_updating
      BY <2>2, <2>5, <2>6 DEF RepaintCleanupIfLive, FancyOk
    <3> QED BY <2>2, <2>4, <2>5, <2>6, <3>1, CountdownOk
  <2>7. CASE ph \in {"ended", "cleaned"}
    <3>1. RepaintCleanupIfLive(g) = g /\ ~g.keep_updating
      BY <2>2, <2>5, <2>7 DEF RepaintCleanupIfLive, FancyOk
    <3> QED BY <2>2, <2>4, <2>5, <2>7, <3>1, IdleOk
  <2>8. CASE ph = "starting"
    <3>1. RepaintCleanupIfLive(g) = g /\ Starting(deps, f) /\ f.ready = ready
      BY <2>2, <2>5, <2>8 DEF RepaintCleanupIfLive, FancyOk
    <3>2. Starting(deps, g)
      BY <2>2, <2>3, <3>1 DEF Starting, Unharmed, BlockAtBottom, WaitsForTheRest
    <3> QED BY <2>2, <2>4, <2>5, <2>8, <3>1, <3>2 DEF FancyOk, Unharmed
  <2> QED BY <2>6, <2>7, <2>8
<1> QED BY <1>1, <1>2

LEMMA ExitedOk ==
    ASSUME NEW deps, NEW f, NEW there, NEW ready, NEW c,
           NEW ph \in {"starting", "running", "ended", "cleaning", "network"},
           FancyOk(deps, f, ph, there, ready)
    PROVE  FancyOk(deps, FancyDependencyExited(f, c), ph, there, ready)
<1> DEFINE g == BelowCount(f, "exited")
<1>1. CASE ph = "starting"
  <2>1. f.keep_updating
    BY <1>1 DEF FancyOk, Starting
  <2>2. FancyDependencyExited(f, c) = WhileStarting(f, SetStage(f, {c}, Stage("exited")))
    BY <2>1 DEF FancyDependencyExited, WhileStarting
  <2>3. "exited" \in StageNames \ {"waiting"}
    BY DEF StageNames
  <2> QED BY <1>1, <2>2, <2>3, SetStageOk
<1>2. CASE ph # "starting"
  <2>1. Unharmed(DOMAIN deps, f)
    BY DEF FancyOk, Unharmed
  <2>2. /\ Unharmed(DOMAIN deps, g) /\ ~g.screen.partial /\ ~g.cleanup_shown
        /\ g.created = f.created /\ g.ready = f.ready /\ g.stage = f.stage /\ g.lines = f.lines
        /\ (g.keep_updating <=> f.keep_updating) /\ (g.cleanup_live <=> f.cleanup_live)
        /\ (g.separator_owed <=> f.separator_owed)
    BY <2>1, LinePrinted DEF AfterLine
  <2>3. ~f.keep_updating /\ f.created = there /\ (f.cleanup_live <=> ph \in {"cleaning", "network"})
        /\ (ph = "running" => f.separator_owed)
    BY <1>2 DEF FancyOk
  <2>4. FancyDependencyExited(f, c) = RepaintCleanupIfLive(g)
    BY <2>3 DEF FancyDependencyExited, BelowCount
  <2> HIDE DEF g
  <2>6. CASE ph \in {"cleaning", "network"}
    <3>1. RepaintCleanupIfLive(g) = RepaintCleanup(g)
      BY <2>2, <2>3, <2>6 DEF RepaintCleanupIfLive
    <3> QED BY <2>2, <2>3, <2>4, <2>6, <3>1, CountdownOk
  <2>7. CASE ph \in {"running", "ended"}
    <3>1. RepaintCleanupIfLive(g) = g
      BY <2>2, <2>3, <2>7 DEF RepaintCleanupIfLive
    <3> QED BY <2>2, <2>3, <2>4, <2>7, <3>1, IdleOk
  <2> QED BY <1>2, <2>6, <2>7
<1> QED BY <1>1, <1>2

\* What Introduce makes of a display, whatever it was but for the screen.
LEMMA IntroduceKeeps ==
    ASSUME NEW C, NEW f, Unharmed(C, f), ~f.screen.partial, NEW keep \in BOOLEAN
    PROVE  LET g == Introduce(f, keep)
           IN  /\ Unharmed(C, g) /\ ~g.screen.partial /\ (g.keep_updating <=> keep)
               /\ g.lines = <<>> /\ g.created = {} /\ g.ready = {}
               /\ ~g.cleanup_live /\ ~g.cleanup_shown
<1> DEFINE s == IF f.printed_a_task THEN Newline(f.screen) ELSE f.screen
           t == Println(s, "running")
           g == [State(t) EXCEPT !.printed_a_task = TRUE, !.keep_updating = keep]
<1>1. f.screen \in Screens(C) /\ ~f.screen.harm
      /\ f.screen.glued \subseteq {"stderr", "exited"}
  BY DEF Unharmed, FancyStates
<1>2. s \in Screens(C) /\ ~s.partial /\ ~s.harm /\ s.glued \subseteq {"stderr", "exited"}
  <2>1. /\ Newline(f.screen) \in Screens(C) /\ ~Newline(f.screen).partial
        /\ (Newline(f.screen).harm <=> f.screen.harm)
        /\ Newline(f.screen).glued = f.screen.glued
    BY <1>1, NewlineKeeps
  <2> QED BY <1>1, <2>1
<1> HIDE DEF s
<1>3. "running" \in Whats
  BY DEF Whats
<1>4. t \in Screens(C) /\ ~t.partial /\ (t.harm <=> s.harm) /\ t.glued = s.glued
  BY <1>2, <1>3, PrintlnKeeps
<1>5. Introduce(f, keep) = g
  BY DEF Introduce, s
<1> HIDE DEF t
<1> DEFINE new == State(t)
<1>6. new \in FancyStates(C)
  BY <1>4 DEF State, FancyStates
<1>7. new.screen = t /\ new.lines = <<>> /\ new.created = {} /\ new.ready = {}
  BY DEF State
<1>8. ~new.cleanup_live /\ ~new.cleanup_shown
  BY DEF State
<1> HIDE DEF new
<1>9. g = [new EXCEPT !.printed_a_task = TRUE, !.keep_updating = keep]
  BY DEF new
<1> HIDE DEF g
<1>10. /\ g \in FancyStates(C) /\ g.screen = t /\ g.lines = <<>> /\ g.created = {}
       /\ g.ready = {}
  BY <1>6, <1>7, <1>9 DEF FancyStates
<1>11. g.keep_updating = keep /\ ~g.cleanup_live /\ ~g.cleanup_shown
  BY <1>6, <1>8, <1>9 DEF FancyStates
<1>12. Unharmed(C, g)
  BY <1>2, <1>4, <1>10 DEF Unharmed
<1> QED BY <1>4, <1>5, <1>10, <1>11, <1>12

LEMMA TaskStartingOk ==
    ASSUME NEW deps, NEW f, NEW there, NEW ready, NEW ph \in {"new", "between"},
           FancyOk(deps, f, ph, there, ready)
    PROVE  FancyOk(deps, FancyTaskStarting(f), "opening", {}, {})
<1> DEFINE g == FancyTaskStarting(f)
<1>1. Unharmed(DOMAIN deps, f) /\ ~f.screen.partial
  BY DEF FancyOk, Unharmed
<1>2. /\ Unharmed(DOMAIN deps, g) /\ ~g.screen.partial
      /\ g.lines = <<>> /\ g.created = {} /\ g.ready = {}
      /\ ~g.cleanup_live /\ ~g.cleanup_shown
  BY <1>1, IntroduceKeeps DEF FancyTaskStarting
<1> HIDE DEF g
<1> QED BY <1>2 DEF FancyOk, Unharmed, g

LEMMA PrerequisitesOk ==
    ASSUME NEW deps, NEW f, NEW there, NEW ready, FancyOk(deps, f, "between", there, ready)
    PROVE  FancyOk(deps, FancyPrerequisitesOnly(f), "between", there, ready)
<1> DEFINE g == FancyPrerequisitesOnly(f)
<1>1. Unharmed(DOMAIN deps, f) /\ ~f.screen.partial
  BY DEF FancyOk, Unharmed
<1>2. /\ Unharmed(DOMAIN deps, g) /\ ~g.screen.partial /\ ~g.keep_updating
      /\ ~g.cleanup_live /\ ~g.cleanup_shown
  BY <1>1, IntroduceKeeps DEF FancyPrerequisitesOnly
<1> HIDE DEF g
<1> QED BY <1>2, IdleOk DEF g

LEMMA GraphResolvedOk ==
    ASSUME NEW deps, IsTaskGraph(deps), Cardinality(DOMAIN deps) <= RowsKept,
           NEW f, NEW there, NEW ready, FancyOk(deps, f, "opening", there, ready)
    PROVE  FancyOk(deps, FancyTaskGraphResolved(f, deps, TaskContainer), "starting", there, ready)
<1> DEFINE C == DOMAIN deps
           order == DependencyPostOrder(deps, TaskContainer)
           stage == [c \in C |-> Stage("pending")]
           h == [f EXCEPT !.lines = order, !.stage = stage, !.painted_lines = 0,
                          !.painted_width = None, !.last_rendered = None, !.keep_updating = TRUE]
           g == RepaintStartup(h)
<1>1. FancyTaskGraphResolved(f, deps, TaskContainer) = g
  BY DEF FancyTaskGraphResolved
<1>2. order \in Seq(C) /\ Ordered(deps, order) /\ Len(order) <= RowsKept
  <2>1. /\ order \in Seq(C) /\ Ordered(deps, order) /\ Len(order) <= Cardinality(C)
    BY PostOrder
  <2>2. Cardinality(C) \in Nat
    BY FS_CardinalityType DEF IsTaskGraph
  <2> HIDE DEF order
  <2>3. Len(order) \in Nat
    BY <2>1
  <2> QED BY <2>1, <2>2, <2>3, DisplayAssumption
<1> HIDE DEF order
<1>3. Stage("pending") \in Stages(C) /\ Stage("pending").at = "pending"
  BY StageType DEF StageNames
<1>4. stage \in [C -> Stages(C)] /\ \A c \in C : stage[c].at = "pending"
  BY <1>3
<1> HIDE DEF stage
<1>5. f \in FancyStates(C) /\ f.created = there /\ f.ready = {} /\ ready = {}
      /\ ~f.screen.partial /\ ~f.screen.harm /\ f.screen.glued \subseteq {"stderr", "exited"}
      /\ ~f.cleanup_live /\ ~f.cleanup_shown
  BY DEF FancyOk
<1>6. h \in FancyStates(C)
  BY <1>2, <1>4, <1>5 DEF FancyStates
<1>7. /\ h.screen = f.screen /\ h.lines = order /\ h.stage = stage /\ h.painted_lines = 0
      /\ h.created = f.created /\ h.ready = f.ready
  BY <1>5 DEF FancyStates
<1>8. h.keep_updating /\ h.cleanup_live = f.cleanup_live /\ h.cleanup_shown = f.cleanup_shown
  BY <1>5 DEF FancyStates
<1> HIDE DEF h
<1>9. BlockAtBottom(h)
  BY <1>7 DEF BlockAtBottom
<1>10. /\ g \in FancyStates(C) /\ ~g.screen.partial /\ BlockAtBottom(g) /\ SameRun(h, g)
  BY <1>2, <1>4, <1>5, <1>6, <1>7, <1>9, RepaintStartupKeeps
<1> HIDE DEF g
<1>11. /\ g.lines = order /\ g.stage = stage /\ g.created = there /\ g.ready = {}
       /\ g.keep_updating /\ ~g.cleanup_live /\ ~g.cleanup_shown /\ ~g.screen.harm
       /\ g.screen.glued \subseteq {"stderr", "exited"}
  BY <1>5, <1>7, <1>8, <1>10 DEF SameRun
<1>12. WaitsForTheRest(deps, g)
  BY <1>4, <1>11 DEF WaitsForTheRest, WaitsFor
<1>13. Starting(deps, g)
  BY <1>2, <1>4, <1>10, <1>11, <1>12 DEF Starting
<1> QED BY <1>1, <1>5, <1>10, <1>11, <1>13 DEF FancyOk

LEMMA RunningOk ==
    ASSUME NEW deps, NEW f, NEW there, NEW ready, NEW now, NEW c,
           FancyOk(deps, f, "starting", there, ready)
    PROVE  FancyOk(deps, FancyRunningTaskContainer(f, c), "running", there, now)
<1> DEFINE C == DOMAIN deps
           g == [f EXCEPT !.separator_owed = TRUE]
           h == WhileStarting(g, SetStage(g, {c}, Stage("running")))
           s == Newline(h.screen)
           k == [h EXCEPT !.keep_updating = FALSE, !.screen = s]
<1>1. f \in FancyStates(C) /\ Starting(deps, f) /\ f.keep_updating /\ f.created = there
      /\ f.ready = ready /\ Unharmed(C, f) /\ ~f.cleanup_live /\ ~f.cleanup_shown
  BY DEF FancyOk, Starting, Unharmed
<1>2. g \in FancyStates(C)
  BY <1>1 DEF FancyStates
<1>3. /\ g.created = f.created /\ g.screen = f.screen /\ g.lines = f.lines
      /\ g.stage = f.stage /\ g.ready = f.ready /\ g.painted_lines = f.painted_lines
      /\ g.painted_width = f.painted_width /\ g.last_rendered = f.last_rendered
  BY <1>1 DEF FancyStates
<1>4. /\ g.keep_updating = f.keep_updating /\ g.cleanup_shown = f.cleanup_shown
      /\ g.cleanup_live = f.cleanup_live /\ g.separator_owed
  BY <1>1 DEF FancyStates
<1>5. FancyRunningTaskContainer(f, c) = k
  BY <1>1, <1>4 DEF FancyRunningTaskContainer, WhileStarting
<1> HIDE DEF g
<1>6. Starting(deps, g)
  BY <1>1, <1>2, <1>3, <1>4 DEF Starting, BlockAtBottom, WaitsForTheRest
<1>7. "running" \in StageNames \ {"waiting"}
  BY DEF StageNames
<1>8. Advances(deps, g, h) /\ h.created = g.created
  BY <1>6, <1>7, SetStageAdvances
<1> HIDE DEF h
<1>9. h \in FancyStates(C) /\ h.screen \in Screens(C) /\ ~h.screen.harm
      /\ h.screen.glued \subseteq {"stderr", "exited"} /\ ~h.cleanup_shown /\ ~h.cleanup_live
      /\ h.separator_owed /\ h.created = there
  <2>1. h \in FancyStates(C) /\ h.screen \in Screens(C)
    BY <1>8 DEF Advances, Starting, FancyStates
  <2> QED BY <1>1, <1>3, <1>4, <1>8, <2>1 DEF Advances, Unharmed
<1>10. s \in Screens(C) /\ ~s.partial /\ (s.harm <=> h.screen.harm) /\ s.glued = h.screen.glued
  BY <1>9, NewlineKeeps
<1> HIDE DEF s
<1>11. k \in FancyStates(C)
  BY <1>9, <1>10 DEF FancyStates
<1>12. k.screen = s /\ k.created = h.created
  BY <1>9 DEF FancyStates
<1>13. /\ ~k.keep_updating /\ k.cleanup_shown = h.cleanup_shown
       /\ k.cleanup_live = h.cleanup_live /\ k.separator_owed = h.separator_owed
  BY <1>9 DEF FancyStates
<1> HIDE DEF k
<1>14. Unharmed(C, k)
  BY <1>9, <1>10, <1>11, <1>12 DEF Unharmed
<1> QED BY <1>5, <1>9, <1>10, <1>12, <1>13, <1>14, IdleOk

LEMMA TaskOutputOk ==
    ASSUME NEW deps, NEW f, NEW there, NEW ready, FancyOk(deps, f, "running", there, ready),
           NEW ended \in BOOLEAN
    PROVE  FancyOk(deps, [f EXCEPT !.screen = RawOutput(@, ended)], "running", there, ready)
<1> DEFINE C == DOMAIN deps
           s == RawOutput(f.screen, ended)
           g == [f EXCEPT !.screen = s]
<1>1. f \in FancyStates(C) /\ f.screen \in Screens(C) /\ ~f.screen.harm /\ f.created = there
      /\ f.screen.glued \subseteq {"stderr", "exited"} /\ f.separator_owed
      /\ ~f.keep_updating /\ ~f.cleanup_live /\ ~f.cleanup_shown
  BY DEF FancyOk, FancyStates
<1>2. s \in Screens(C) /\ (s.harm <=> f.screen.harm) /\ s.glued = f.screen.glued
  BY <1>1, RawOutputKeeps
<1> HIDE DEF s
<1>3. g \in FancyStates(C)
  BY <1>1, <1>2 DEF FancyStates
<1>4. g.screen = s /\ g.created = f.created
  BY <1>1 DEF FancyStates
<1>5. /\ g.keep_updating = f.keep_updating /\ g.cleanup_shown = f.cleanup_shown
      /\ g.cleanup_live = f.cleanup_live /\ g.separator_owed = f.separator_owed
  BY <1>1 DEF FancyStates
<1>6. FancyOk(deps, g, "running", there, ready)
  <2> HIDE DEF g
  <2> QED BY <1>1, <1>2, <1>3, <1>4, <1>5 DEF FancyOk
<1> QED BY <1>6 DEF s

LEMMA RunEndedOk ==
    ASSUME NEW deps, NEW f, NEW there, NEW ready, NEW ph \in {"opening", "starting", "running"},
           FancyOk(deps, f, ph, there, ready)
    PROVE  FancyOk(deps, FancyRunEnded(f), "ended", there, ready)
<1> DEFINE C == DOMAIN deps
           g == [f EXCEPT !.keep_updating = FALSE]
<1>1. f \in FancyStates(C) /\ ~f.screen.harm /\ f.created = there
      /\ f.screen.glued \subseteq {"stderr", "exited"}
      /\ (f.screen.partial => f.separator_owed) /\ ~f.cleanup_live /\ ~f.cleanup_shown
  BY DEF FancyOk
<1>2. g \in FancyStates(C) /\ g.screen = f.screen /\ g.created = f.created
  BY <1>1 DEF FancyStates
<1>3. /\ ~g.keep_updating /\ g.cleanup_shown = f.cleanup_shown
      /\ g.cleanup_live = f.cleanup_live /\ g.separator_owed = f.separator_owed
  BY <1>1 DEF FancyStates
<1>4. FancyRunEnded(f) = g
  BY DEF FancyRunEnded
<1> HIDE DEF g
<1> QED BY <1>1, <1>2, <1>3, <1>4 DEF FancyOk

LEMMA CleanupStartingOk ==
    ASSUME NEW deps, NEW f, NEW there, NEW ready, FancyOk(deps, f, "ended", there, ready)
    PROVE  FancyOk(deps, FancyCleanupStarting(f), "cleaning", there, ready)
<1> DEFINE C == DOMAIN deps
           g == [f EXCEPT !.cleanup_live = TRUE]
<1>1. f \in FancyStates(C) /\ ~f.screen.harm /\ f.created = there
      /\ f.screen.glued \subseteq {"stderr", "exited"} /\ ~f.cleanup_shown /\ ~f.keep_updating
  BY DEF FancyOk
<1>2. g \in FancyStates(C) /\ g.screen = f.screen /\ g.created = f.created
  BY <1>1 DEF FancyStates
<1>3. g.cleanup_live /\ g.cleanup_shown = f.cleanup_shown /\ g.keep_updating = f.keep_updating
  BY <1>1 DEF FancyStates
<1>4. FancyCleanupStarting(f) = RepaintCleanup(g)
  BY DEF FancyCleanupStarting
<1> HIDE DEF g
<1>5. Unharmed(C, g)
  BY <1>1, <1>2 DEF Unharmed
<1> QED BY <1>1, <1>2, <1>3, <1>4, <1>5, CountdownOk

Counting(f, created, network) == [f EXCEPT !.created = created, !.removing_network = network]

\* The countdown goes on with what there is left.
LEMMA CountdownGoesOn ==
    ASSUME NEW deps, NEW f, NEW there, NEW ready, NEW ph \in {"cleaning", "network"},
           FancyOk(deps, f, ph, there, ready), NEW created \in SUBSET DOMAIN deps,
           NEW network \in BOOLEAN, NEW next \in {"cleaning", "network"}, NEW now
    PROVE  FancyOk(deps, RepaintCleanupIfLive(Counting(f, created, network)), next, created, now)
<1> DEFINE C == DOMAIN deps
           g == [f EXCEPT !.created = created, !.removing_network = network]
<1>1. f \in FancyStates(C) /\ ~f.screen.harm /\ f.screen.glued \subseteq {"stderr", "exited"}
      /\ ~f.keep_updating /\ f.cleanup_live /\ CountRow(f)
  BY DEF FancyOk, CountAtBottom
<1>2. /\ g \in FancyStates(C) /\ g.screen = f.screen /\ g.created = created
      /\ g.cleanup_width = f.cleanup_width
  BY <1>1 DEF FancyStates
<1>3. g.cleanup_live = f.cleanup_live /\ g.keep_updating = f.keep_updating
  BY <1>1 DEF FancyStates
<1> HIDE DEF g
<1>4. Unharmed(C, g) /\ CountRow(g)
  BY <1>1, <1>2 DEF Unharmed, CountRow
<1>5. RepaintCleanupIfLive(g) = RepaintCleanup(g)
  BY <1>1, <1>3 DEF RepaintCleanupIfLive
<1>6. FancyOk(deps, RepaintCleanup(g), next, g.created, now)
  BY <1>1, <1>3, <1>4, CountdownOk
<1> QED BY <1>2, <1>5, <1>6 DEF g, Counting

LEMMA RemovedOk ==
    ASSUME NEW deps, NEW f, NEW there, NEW ready, FancyOk(deps, f, "cleaning", there, ready),
           NEW c, NEW now
    PROVE  FancyOk(deps, FancyContainerRemoved(f, c), "cleaning", there \ {c}, now)
<1>1. f \in FancyStates(DOMAIN deps) /\ f.created = there
  BY DEF FancyOk
<1>2. there \ {c} \in SUBSET DOMAIN deps /\ f.removing_network \in BOOLEAN
  BY <1>1 DEF FancyStates
<1>3. [f EXCEPT !.created = @ \ {c}]
        = [f EXCEPT !.created = there \ {c}, !.removing_network = f.removing_network]
  BY <1>1 DEF FancyStates
<1>4. FancyContainerRemoved(f, c) = RepaintCleanupIfLive(Counting(f, there \ {c}, f.removing_network))
  BY <1>3 DEF FancyContainerRemoved, Counting
<1> QED BY <1>2, <1>4, CountdownGoesOn

LEMMA NetworkOk ==
    ASSUME NEW deps, NEW f, NEW there, NEW ready, FancyOk(deps, f, "cleaning", there, ready)
    PROVE  FancyOk(deps, FancyRemovingNetwork(f), "network", there, ready)
<1>1. f \in FancyStates(DOMAIN deps) /\ f.created = there
  BY DEF FancyOk
<1>2. there \in SUBSET DOMAIN deps
  BY <1>1 DEF FancyStates
<1>3. [f EXCEPT !.removing_network = TRUE]
        = [f EXCEPT !.created = there, !.removing_network = TRUE]
  BY <1>1 DEF FancyStates
<1>4. FancyRemovingNetwork(f) = RepaintCleanupIfLive(Counting(f, there, TRUE))
  BY <1>3 DEF FancyRemovingNetwork, Counting
<1> QED BY <1>2, <1>4, CountdownGoesOn

LEMMA FinishedOk ==
    ASSUME NEW deps, NEW f, NEW there, NEW ready, NEW ph \in {"cleaning", "network"},
           FancyOk(deps, f, ph, there, ready)
    PROVE  FancyOk(deps, FancyCleanupFinished(f), "cleaned", there, ready)
<1> DEFINE C == DOMAIN deps
           g == [f EXCEPT !.cleanup_live = FALSE]
           h == ClearCleanupLine(g)
<1>1. f \in FancyStates(C) /\ ~f.screen.harm /\ f.created = there
      /\ f.screen.glued \subseteq {"stderr", "exited"} /\ f.cleanup_shown /\ CountRow(f)
      /\ ~f.keep_updating
  BY DEF FancyOk, CountAtBottom
<1>2. /\ g \in FancyStates(C) /\ g.screen = f.screen /\ g.created = f.created
      /\ g.cleanup_width = f.cleanup_width
  BY <1>1 DEF FancyStates
<1>3. ~g.cleanup_live /\ g.cleanup_shown = f.cleanup_shown /\ g.keep_updating = f.keep_updating
  BY <1>1 DEF FancyStates
<1>4. FancyCleanupFinished(f) = h
  BY DEF FancyCleanupFinished
<1> HIDE DEF g
<1>5. CountRow(g)
  BY <1>1, <1>2 DEF CountRow
<1>6. /\ h \in FancyStates(C) /\ ~h.cleanup_shown /\ SameCleanup(g, h)
      /\ (g.cleanup_shown => ~h.screen.partial)
  BY <1>2, <1>5, ClearCleanupLineKeeps
<1> HIDE DEF h
<1>7. /\ Unharmed(C, h) /\ ~h.keep_updating /\ ~h.cleanup_live /\ ~h.cleanup_shown
      /\ ~h.screen.partial /\ h.created = there
  BY <1>1, <1>2, <1>3, <1>6 DEF SameCleanup, Unharmed
<1> QED BY <1>4, <1>7, IdleOk

LEMMA SummaryOk ==
    ASSUME NEW deps, NEW f, NEW there, NEW ready, NEW ph \in {"ended", "cleaned"},
           FancyOk(deps, f, ph, there, ready)
    PROVE  FancyOk(deps, FancySummary(f), "between", there, ready)
<1> DEFINE C == DOMAIN deps
           g == PaySeparator(f)
           s == Println(g.screen, "summary")
           h == [g EXCEPT !.screen = s]
<1>1. f \in FancyStates(C) /\ f.screen \in Screens(C) /\ ~f.screen.harm
      /\ f.screen.glued \subseteq {"stderr", "exited"} /\ ~f.cleanup_shown
      /\ (f.screen.partial => f.separator_owed) /\ ~f.keep_updating /\ ~f.cleanup_live
  BY DEF FancyOk, FancyStates
<1>2. FancySummary(f) = h
  <2>1. ClearCleanupLine(f) = f
    BY <1>1 DEF ClearCleanupLine
  <2> QED BY <2>1 DEF FancySummary
<1>3. Unharmed(C, g) /\ ~g.screen.partial /\ ~g.cleanup_shown /\ ~g.keep_updating
      /\ ~g.cleanup_live
  <2>1. CASE ~f.separator_owed
    BY <1>1, <2>1 DEF PaySeparator, Unharmed
  <2>2. CASE f.separator_owed
    <3> DEFINE t == Newline(f.screen)
               k == [f EXCEPT !.separator_owed = FALSE, !.screen = t]
    <3>1. g = k
      BY <2>2 DEF PaySeparator
    <3>2. t \in Screens(C) /\ ~t.partial /\ (t.harm <=> f.screen.harm)
          /\ t.glued = f.screen.glued
      BY <1>1, NewlineKeeps
    <3> HIDE DEF t
    <3>3. k \in FancyStates(C) /\ k.screen = t
      BY <1>1, <3>2 DEF FancyStates
    <3>4. /\ k.cleanup_shown = f.cleanup_shown /\ k.keep_updating = f.keep_updating
          /\ k.cleanup_live = f.cleanup_live
      BY <1>1 DEF FancyStates
    <3> HIDE DEF k, g
    <3> QED BY <1>1, <3>1, <3>2, <3>3, <3>4 DEF Unharmed
  <2> QED BY <2>1, <2>2
<1> HIDE DEF g
<1>4. "summary" \in Whats /\ g.screen \in Screens(C) /\ g \in FancyStates(C)
  BY <1>3 DEF Whats, Unharmed, FancyStates
<1>5. s \in Screens(C) /\ ~s.partial /\ (s.harm <=> g.screen.harm) /\ s.glued = g.screen.glued
  <2> DEFINE t == g.screen
  <2>1. t \in Screens(C) /\ ~t.partial
    BY <1>3, <1>4
  <2> HIDE DEF t
  <2>2. "summary" \in Whats
    BY <1>4
  <2>3. Drawn(C, t, Println(t, "summary"))
    BY <2>1, <2>2, PrintlnDraws
  <2> QED BY <2>3 DEF t, Drawn
<1> HIDE DEF s
<1>6. h \in FancyStates(C) /\ h.screen = s
  BY <1>4, <1>5 DEF FancyStates
<1>7. /\ h.cleanup_shown = g.cleanup_shown /\ h.keep_updating = g.keep_updating
      /\ h.cleanup_live = g.cleanup_live
  BY <1>4 DEF FancyStates
<1> HIDE DEF h
<1>8. /\ Unharmed(C, h) /\ ~h.keep_updating /\ ~h.cleanup_live /\ ~h.cleanup_shown
      /\ ~h.screen.partial
  BY <1>3, <1>5, <1>6, <1>7 DEF Unharmed
<1> QED BY <1>2, <1>8, IdleOk

----------------------------------------------------------------------------
(* So does every handler of the simple display.                            *)

Loud == {"stderr", "exited", "cleanup", "summary"}

\* A display that may print on a row left unended, but only what is of these.
SimpleFine(C, p) == p \in SimpleStates(C) /\ ~p.screen.harm /\ p.screen.glued \subseteq Loud

LEMMA SimplyOn ==
    ASSUME NEW C, NEW p, SimpleFine(C, p), NEW s \in Screens(C), ~s.harm, s.glued \subseteq Loud
    PROVE  LET q == [p EXCEPT !.screen = s]
           IN  SimpleFine(C, q) /\ q.screen = s /\ q.task_container = p.task_container
BY DEF SimpleFine, SimpleStates

LEMMA SimplySaid ==
    ASSUME NEW C, NEW p, SimpleFine(C, p), NEW what \in Whats, p.screen.partial => what \in Loud
    PROVE  /\ SimpleFine(C, Say(p, what)) /\ ~Say(p, what).screen.partial
           /\ Say(p, what).task_container = p.task_container
<1> DEFINE s == Println(p.screen, what)
           q == [p EXCEPT !.screen = s]
<1>1. p.screen \in Screens(C) /\ ~p.screen.harm /\ p.screen.glued \subseteq Loud
  BY DEF SimpleFine, SimpleStates
<1>2. s \in Screens(C) /\ ~s.partial /\ ~s.harm /\ s.glued \subseteq Loud
  <2> DEFINE t == p.screen
  <2>1. t \in Screens(C) /\ ~t.harm /\ t.glued \subseteq Loud /\ (t.partial => what \in Loud)
    BY <1>1
  <2> HIDE DEF t
  <2>2. /\ Println(t, what) \in Screens(C) /\ Println(t, what).partial = FALSE
        /\ Println(t, what).width = t.width /\ Println(t, what).harm = t.harm
        /\ Println(t, what).glued \subseteq t.glued \cup {what}
        /\ ~t.partial => Println(t, what).glued = t.glued
    BY <2>1, PrintlnKeeps
  <2> QED BY <2>1, <2>2 DEF t
<1>3. Say(p, what) = q
  BY DEF Say
<1> HIDE DEF s
<1>4. SimpleFine(C, q) /\ q.screen = s /\ q.task_container = p.task_container
  BY <1>2, SimplyOn
<1> HIDE DEF q
<1> QED BY <1>2, <1>3, <1>4

LEMMA SimplyFine ==
    ASSUME NEW C, NEW p, NEW ph
    PROVE  SimpleOk(C, p, ph) <=>
              /\ SimpleFine(C, p)
              /\ p.screen.partial => ph \notin {"new", "opening", "starting", "between"}
              /\ ph \in {"starting", "running"} => p.task_container = TaskContainer
BY DEF SimpleOk, SimpleFine, Loud

\* Milestones are printed where nothing is left unended.
LEMMA SimpleSays ==
    ASSUME NEW C, NEW p, NEW ph, SimpleOk(C, p, ph), NEW what \in Whats,
           ph \in {"new", "opening", "starting", "between"} \/ what \in Loud, NEW next,
           next \in {"starting", "running"} => ph \in {"starting", "running"}
    PROVE  SimpleOk(C, Say(p, what), next)
<1>1. SimpleFine(C, p) /\ (p.screen.partial => what \in Loud)
      /\ (ph \in {"starting", "running"} => p.task_container = TaskContainer)
  BY SimplyFine
<1>2. /\ SimpleFine(C, Say(p, what)) /\ ~Say(p, what).screen.partial
      /\ Say(p, what).task_container = p.task_container
  BY <1>1, SimplySaid
<1> QED BY <1>1, <1>2, SimplyFine

LEMMA SimpleIntroduces ==
    ASSUME NEW C, NEW p, NEW ph \in {"new", "between"}, SimpleOk(C, p, ph)
    PROVE  /\ SimpleOk(C, SimpleTaskStarting(p), "opening")
           /\ SimpleOk(C, SimplePrerequisitesOnly(p), "between")
<1> DEFINE q == BlankBetweenTasks(p)
           r == Say(q, "running")
           t == [r EXCEPT !.started_cleanup = FALSE, !.task_container = None]
<1>1. SimpleFine(C, p) /\ ~p.screen.partial
  BY SimplyFine
<1>2. SimpleFine(C, q) /\ ~q.screen.partial
  <2>1. CASE p.printed_a_task
    <3> DEFINE s == Newline(p.screen)
    <3>1. p.screen \in Screens(C)
      BY <1>1 DEF SimpleFine, SimpleStates
    <3>2. Drawn(C, p.screen, s)
      BY <3>1, NewlineDraws
    <3>3. q = [p EXCEPT !.screen = s]
      BY <2>1 DEF BlankBetweenTasks
    <3> HIDE DEF q, s
    <3>4. s \in Screens(C) /\ ~s.harm /\ s.glued \subseteq Loud /\ ~s.partial
      BY <1>1, <3>2 DEF SimpleFine, Drawn
    <3> QED BY <1>1, <3>3, <3>4, SimplyOn
  <2>2. CASE ~p.printed_a_task
    <3>1. q = [p EXCEPT !.printed_a_task = TRUE]
      BY <2>2 DEF BlankBetweenTasks
    <3> HIDE DEF q
    <3>2. q \in SimpleStates(C) /\ q.screen = p.screen
      BY <1>1, <3>1 DEF SimpleFine, SimpleStates
    <3> QED BY <1>1, <3>2 DEF SimpleFine
  <2> QED BY <2>1, <2>2
<1> HIDE DEF q
<1>3. "running" \in Whats
  BY DEF Whats
<1>4. SimpleFine(C, r) /\ ~r.screen.partial
  BY <1>2, <1>3, SimplySaid
<1>5. SimplePrerequisitesOnly(p) = r /\ SimpleTaskStarting(p) = t
  BY DEF SimplePrerequisitesOnly, SimpleTaskStarting, q
<1> HIDE DEF r
<1>6. t \in SimpleStates(C) /\ t.screen = r.screen
  BY <1>4 DEF SimpleFine, SimpleStates
<1> HIDE DEF t
<1>7. SimpleFine(C, t) /\ ~t.screen.partial
  BY <1>4, <1>6 DEF SimpleFine
<1> QED BY <1>4, <1>5, <1>7, SimplyFine

LEMMA SimpleResolves ==
    ASSUME NEW C, NEW p, SimpleOk(C, p, "opening")
    PROVE  SimpleOk(C, SimpleTaskGraphResolved(p, TaskContainer), "starting")
<1> DEFINE q == [p EXCEPT !.task_container = TaskContainer]
<1>1. SimpleFine(C, p) /\ ~p.screen.partial
  BY SimplyFine
<1>2. q \in SimpleStates(C) /\ q.screen = p.screen /\ q.task_container = TaskContainer
  BY <1>1 DEF SimpleFine, SimpleStates
<1>3. SimpleTaskGraphResolved(p, TaskContainer) = q
  BY DEF SimpleTaskGraphResolved
<1> HIDE DEF q
<1> QED BY <1>1, <1>2, <1>3, SimplyFine DEF SimpleFine

LEMMA SimpleCleans ==
    ASSUME NEW C, NEW p, SimpleOk(C, p, "ended")
    PROVE  SimpleOk(C, SimpleCleanupStarting(p), "cleaning")
<1> DEFINE s == Newline(p.screen)
           q == [p EXCEPT !.started_cleanup = TRUE, !.screen = s]
<1>1. SimpleFine(C, p) /\ p.screen \in Screens(C)
  BY SimplyFine DEF SimpleFine, SimpleStates
<1>2. Drawn(C, p.screen, s)
  BY <1>1, NewlineDraws
<1>3. CASE p.started_cleanup
  BY <1>1, <1>3, SimplyFine DEF SimpleCleanupStarting
<1>4. CASE ~p.started_cleanup
  <2>1. SimpleCleanupStarting(p) = Say(q, "cleanup")
    BY <1>4 DEF SimpleCleanupStarting
  <2> HIDE DEF s
  <2>2. q \in SimpleStates(C) /\ q.screen = s
    BY <1>1, <1>2 DEF SimpleFine, SimpleStates, Drawn
  <2> HIDE DEF q
  <2>3. SimpleFine(C, q)
    BY <1>1, <1>2, <2>2 DEF SimpleFine, Drawn
  <2>4. "cleanup" \in Whats /\ "cleanup" \in Loud
    BY DEF Whats, Loud
  <2>5. SimpleFine(C, Say(q, "cleanup")) /\ ~Say(q, "cleanup").screen.partial
    BY <2>3, <2>4, SimplySaid
  <2> QED BY <2>1, <2>5, SimplyFine
<1> QED BY <1>3, <1>4

LEMMA SimpleOutput ==
    ASSUME NEW C, NEW p, SimpleOk(C, p, "running"), NEW ended \in BOOLEAN
    PROVE  SimpleOk(C, [p EXCEPT !.screen = RawOutput(@, ended)], "running")
<1> DEFINE s == RawOutput(p.screen, ended)
           q == [p EXCEPT !.screen = s]
<1>1. SimpleFine(C, p) /\ p.screen \in Screens(C) /\ p.task_container = TaskContainer
  BY SimplyFine DEF SimpleFine, SimpleStates
<1>2. s \in Screens(C) /\ ~s.harm /\ s.glued \subseteq Loud
  <2>1. s \in Screens(C) /\ (s.harm <=> p.screen.harm) /\ s.glued = p.screen.glued
    BY <1>1, RawOutputKeeps
  <2> HIDE DEF s
  <2> QED BY <1>1, <2>1 DEF SimpleFine
<1> HIDE DEF s
<1>3. SimpleFine(C, q) /\ q.task_container = TaskContainer
  BY <1>1, <1>2, SimplyOn
<1>4. q = [p EXCEPT !.screen = RawOutput(@, ended)]
  BY DEF s
<1> HIDE DEF q
<1> QED BY <1>3, <1>4, SimplyFine

\* is_task_container: nothing is said of the task container while it may print.
LEMMA SimpleReadinessOk ==
    ASSUME NEW C, NEW p, NEW ph \in {"starting", "running"}, SimpleOk(C, p, ph), NEW c,
           ph = "running" => c = TaskContainer
    PROVE  SimpleOk(C, SimpleReadiness(p, c), ph)
<1>1. "milestone" \in Whats
  BY DEF Whats
<1>2. CASE c = p.task_container
  BY <1>2 DEF SimpleReadiness
<1>3. CASE c # p.task_container
  <2>1. ph = "starting"
    BY <1>3, SimplyFine
  <2>2. SimpleReadiness(p, c) = Say(p, "milestone")
    BY <1>3 DEF SimpleReadiness
  <2>3. SimpleOk(C, Say(p, "milestone"), ph)
    BY <1>1, <2>1, SimpleSays
  <2> QED BY <2>2, <2>3
<1> QED BY <1>2, <1>3

----------------------------------------------------------------------------
(* And every handler of "all".                                             *)

\* Nothing is wrong, and the task, if there is one, has been introduced or will be.
AllFine(C, p) ==
    p \in AllStates(C) /\ ~p.screen.harm /\ p.screen.glued = {} /\ ~p.screen.partial /\ ~p.early

LEMMA AllyFine ==
    ASSUME NEW C, NEW p, NEW ph
    PROVE  AllOk(C, p, ph) <=>
              /\ AllFine(C, p) /\ (p.preamble_pending => ph = "opening")
              /\ ph \in {"starting", "running"} => p.task_container = TaskContainer
BY DEF AllOk, AllFine

LEMMA AllSaid ==
    ASSUME NEW C, NEW p, AllFine(C, p), NEW what \in Whats
    PROVE  LET q == Say(p, what)
           IN  /\ AllFine(C, q) /\ q.task_container = p.task_container
               /\ (q.preamble_pending <=> p.preamble_pending)
<1> DEFINE s == Println(p.screen, what)
           q == [p EXCEPT !.screen = s]
<1>1. p \in AllStates(C) /\ p.screen \in Screens(C) /\ ~p.screen.partial
  BY DEF AllFine, AllStates
<1>2. Drawn(C, p.screen, s)
  BY <1>1, PrintlnDraws
<1>3. Say(p, what) = q
  BY DEF Say
<1> HIDE DEF s
<1>4. q \in AllStates(C) /\ q.screen = s /\ q.task_container = p.task_container
  BY <1>1, <1>2 DEF AllStates, Drawn
<1>5. q.preamble_pending = p.preamble_pending /\ q.early = p.early
  BY <1>1 DEF AllStates
<1> HIDE DEF q
<1>6. AllFine(C, q)
  BY <1>2, <1>4, <1>5 DEF AllFine, Drawn
<1> QED BY <1>3, <1>4, <1>5, <1>6

LEMMA PrefixedSaid ==
    ASSUME NEW C, NEW p, AllFine(C, p), ~p.preamble_pending
    PROVE  /\ AllFine(C, Prefixed(p)) /\ Prefixed(p).task_container = p.task_container
           /\ ~Prefixed(p).preamble_pending
<1> DEFINE q == Say(p, "prefixed")
           r == [q EXCEPT !.early = @ \/ p.preamble_pending]
<1>1. "prefixed" \in Whats
  BY DEF Whats
<1>2. /\ AllFine(C, q) /\ q.task_container = p.task_container
      /\ (q.preamble_pending <=> p.preamble_pending)
  BY <1>1, AllSaid
<1>3. Prefixed(p) = r
  BY DEF Prefixed
<1> HIDE DEF q
<1>4. r = q
  <2>1. q \in AllStates(C) /\ ~q.early
    BY <1>2 DEF AllFine
  <2>2. q.early = FALSE /\ (q.early \/ p.preamble_pending) = FALSE
    BY <2>1 DEF AllStates
  <2>3. r = [q EXCEPT !.early = FALSE]
    BY <2>2
  <2> HIDE DEF r
  <2> QED BY <2>1, <2>2, <2>3 DEF AllStates
<1> QED BY <1>2, <1>3, <1>4

LEMMA AllMilestoneOk ==
    ASSUME NEW C, NEW p, NEW ph, AllOk(C, p, ph), ph # "opening", NEW next,
           next \in {"starting", "running"} => ph \in {"starting", "running"}
    PROVE  AllOk(C, Prefixed(p), next)
<1>1. AllFine(C, p) /\ ~p.preamble_pending
      /\ (ph \in {"starting", "running"} => p.task_container = TaskContainer)
  BY AllyFine
<1>2. /\ AllFine(C, Prefixed(p)) /\ Prefixed(p).task_container = p.task_container
      /\ ~Prefixed(p).preamble_pending
  BY <1>1, PrefixedSaid
<1> QED BY <1>1, <1>2, AllyFine

LEMMA FlushKeeps ==
    ASSUME NEW C, NEW p, AllFine(C, p)
    PROVE  /\ AllFine(C, FlushPreamble(p)) /\ ~FlushPreamble(p).preamble_pending
           /\ FlushPreamble(p).task_container = p.task_container
<1> DEFINE q == [p EXCEPT !.preamble_pending = FALSE]
<1>1. CASE ~p.preamble_pending
  BY <1>1 DEF FlushPreamble
<1>2. CASE p.preamble_pending
  <2>1. FlushPreamble(p) = Prefixed(q)
    BY <1>2 DEF FlushPreamble
  <2>2. q \in AllStates(C) /\ q.screen = p.screen /\ q.task_container = p.task_container
    BY DEF AllFine, AllStates
  <2>3. ~q.preamble_pending /\ q.early = p.early
    BY DEF AllFine, AllStates
  <2> HIDE DEF q
  <2>4. AllFine(C, q)
    BY <2>2, <2>3 DEF AllFine
  <2> QED BY <2>1, <2>2, <2>3, <2>4, PrefixedSaid
<1> QED BY <1>1, <1>2

LEMMA AllIntroduces ==
    ASSUME NEW C, NEW p, NEW ph \in {"new", "between"}, AllOk(C, p, ph), NEW task \in Nat
    PROVE  /\ AllOk(C, AllTaskStarting(p, task), "opening")
           /\ AllOk(C, AllPrerequisitesOnly(p, task), "between")
<1> DEFINE new == AllState(p.screen)
           fresh == [new EXCEPT !.heard = p.heard, !.early = p.early]
           q == [fresh EXCEPT !.task = task, !.preamble_pending = TRUE]
           r == [fresh EXCEPT !.task = task]
<1>1. AllFine(C, p) /\ p \in AllStates(C)
  BY AllyFine DEF AllFine
<1>2. new \in AllStates(C) /\ new.screen = p.screen
  BY <1>1 DEF AllState, AllStates
<1>3. ~new.preamble_pending
  BY DEF AllState
<1>4. AllTaskStarting(p, task) = q /\ AllPrerequisitesOnly(p, task) = Prefixed(r)
  BY DEF AllTaskStarting, AllPrerequisitesOnly, Afresh
<1> HIDE DEF new
<1>5. fresh \in AllStates(C) /\ fresh.screen = p.screen
  BY <1>1, <1>2 DEF AllStates
<1>6. fresh.early = p.early /\ fresh.preamble_pending = new.preamble_pending
  BY <1>1, <1>2 DEF AllStates
<1> HIDE DEF fresh
<1>7. q \in AllStates(C) /\ q.screen = p.screen /\ r \in AllStates(C) /\ r.screen = p.screen
  BY <1>5 DEF AllStates
<1>8. q.early = fresh.early /\ r.early = fresh.early
      /\ r.preamble_pending = fresh.preamble_pending
  BY <1>5 DEF AllStates
<1> HIDE DEF q, r
<1>9. AllFine(C, q) /\ AllFine(C, r) /\ ~r.preamble_pending
  BY <1>1, <1>3, <1>6, <1>7, <1>8 DEF AllFine
<1>10. AllFine(C, Prefixed(r)) /\ ~Prefixed(r).preamble_pending
  BY <1>9, PrefixedSaid
<1> QED BY <1>4, <1>9, <1>10, AllyFine

LEMMA AllResolves ==
    ASSUME NEW C, NEW p, AllOk(C, p, "opening"), NEW users \in SUBSET C
    PROVE  AllOk(C, AllTaskGraphResolved(p, TaskContainer, users), "starting")
<1> DEFINE q == [p EXCEPT !.task_container = TaskContainer, !.images = users]
<1>1. AllFine(C, p) /\ p \in AllStates(C)
  BY AllyFine DEF AllFine
<1>2. q \in AllStates(C) /\ q.screen = p.screen /\ q.task_container = TaskContainer
  BY <1>1 DEF AllStates
<1>3. q.early = p.early
  BY <1>1 DEF AllStates
<1>4. AllTaskGraphResolved(p, TaskContainer, users) = FlushPreamble(q)
  BY DEF AllTaskGraphResolved
<1> HIDE DEF q
<1>5. AllFine(C, q)
  BY <1>1, <1>2, <1>3 DEF AllFine
<1>6. /\ AllFine(C, FlushPreamble(q)) /\ ~FlushPreamble(q).preamble_pending
      /\ FlushPreamble(q).task_container = q.task_container
  BY <1>5, FlushKeeps
<1> QED BY <1>2, <1>4, <1>6, AllyFine

LEMMA AllEnds ==
    ASSUME NEW C, NEW p, NEW ph, AllOk(C, p, ph)
    PROVE  AllOk(C, AllRunEnded(p), "ended")
<1>1. AllFine(C, p)
  BY AllyFine
<1>2. AllFine(C, FlushPreamble(p)) /\ ~FlushPreamble(p).preamble_pending
  BY <1>1, FlushKeeps
<1> QED BY <1>2, AllyFine DEF AllRunEnded

LEMMA AllHears ==
    ASSUME NEW C, NEW p, NEW ph \in {"starting", "running"}, AllOk(C, p, ph), NEW c
    PROVE  AllOk(C, AllContainerOutput(p, c), ph)
<1> DEFINE q == [p EXCEPT !.heard = @ \cup {c}]
<1>1. AllFine(C, p) /\ p \in AllStates(C) /\ p.task_container = TaskContainer
      /\ ~p.preamble_pending
  BY AllyFine DEF AllFine
<1>2. CASE c = p.task_container
  <2>1. AllContainerOutput(p, c) = q
    BY <1>2 DEF AllContainerOutput
  <2>2. q \in AllStates(C) /\ q.screen = p.screen /\ q.task_container = TaskContainer
    BY <1>1, <1>2 DEF AllStates
  <2>3. q.early = p.early /\ q.preamble_pending = p.preamble_pending
    BY <1>1 DEF AllStates
  <2> HIDE DEF q
  <2>4. AllFine(C, q)
    BY <1>1, <2>2, <2>3 DEF AllFine
  <2> QED BY <1>1, <2>1, <2>2, <2>3, <2>4, AllyFine
<1>3. CASE c # p.task_container
  <2>1. AllContainerOutput(p, c) = Prefixed(p)
    BY <1>3 DEF AllContainerOutput
  <2> QED BY <2>1, AllMilestoneOk
<1> QED BY <1>2, <1>3

LEMMA AllCleans ==
    ASSUME NEW C, NEW p, AllOk(C, p, "ended")
    PROVE  AllOk(C, AllCleanupStarting(p), "cleaning")
<1> DEFINE q == [p EXCEPT !.started_cleanup = TRUE]
<1>1. AllFine(C, p) /\ p \in AllStates(C) /\ ~p.preamble_pending
  BY AllyFine DEF AllFine
<1>2. CASE p.started_cleanup
  BY <1>1, <1>2, AllyFine DEF AllCleanupStarting
<1>3. CASE ~p.started_cleanup
  <2>1. AllCleanupStarting(p) = Prefixed(q)
    BY <1>3 DEF AllCleanupStarting
  <2>2. q \in AllStates(C) /\ q.screen = p.screen
    BY <1>1 DEF AllStates
  <2>3. q.early = p.early /\ q.preamble_pending = p.preamble_pending
    BY <1>1 DEF AllStates
  <2> HIDE DEF q
  <2>4. AllFine(C, q)
    BY <1>1, <2>2, <2>3 DEF AllFine
  <2>5. AllFine(C, Prefixed(q)) /\ ~Prefixed(q).preamble_pending
    BY <1>1, <2>3, <2>4, PrefixedSaid
  <2> QED BY <2>1, <2>5, AllyFine
<1> QED BY <1>2, <1>3

\* A pull is said once for each of its containers, and each time all is well.
LEMMA AllPulls ==
    ASSUME NEW C, IsFiniteSet(C), NEW p, AllOk(C, p, "starting")
    PROVE  AllOk(C, AllImagePull(p), "starting")
<1> DEFINE T == {q \in AllStates(C) : AllOk(C, q, "starting")}
           N == Cardinality(p.images)
           step == [i \in 1..N |-> [q \in T |-> Prefixed(q)]]
           Def(f) == [n \in 0..N |-> IF n = 0 THEN p ELSE Prefixed(f[n - 1])]
           said == CHOOSE f : f = Def(f)
<1>1. p \in T
  BY DEF AllOk
<1>2. ASSUME NEW q \in T PROVE Prefixed(q) \in T
  <2>1. AllOk(C, q, "starting")
    OBVIOUS
  <2>2. AllOk(C, Prefixed(q), "starting")
    BY <2>1, AllMilestoneOk
  <2>3. Prefixed(q) \in AllStates(C)
    BY <2>2 DEF AllOk
  <2> QED BY <2>2, <2>3
<1>3. N \in Nat
  <2>1. p.images \subseteq C
    BY <1>1 DEF AllStates
  <2> QED BY <2>1, FS_Subset, FS_CardinalityType
<1>4. step \in [1..N -> [T -> T]]
  <2> HIDE DEF T, N
  <2> QED BY <1>2
<1>5. HasRun(T, N, p, step)
  <2> HIDE DEF T, N, step
  <2> QED BY <1>1, <1>3, <1>4, Recursion
<1>6. PICK f \in [0..N -> T] : f[0] = p /\ \A i \in 1..N : f[i] = step[i][f[i - 1]]
  BY <1>5 DEF HasRun
<1> HIDE DEF T, N
<1>7. ASSUME NEW i \in 1..N PROVE f[i] = Prefixed(f[i - 1])
  <2>1. f[i - 1] \in T
    BY <1>3
  <2>2. step[i][f[i - 1]] = Prefixed(f[i - 1])
    BY <2>1
  <2> QED BY <1>6, <2>2
<1>8. f = Def(f)
  BY <1>6, <1>7
<1>9. said = Def(said)
  BY <1>8
<1>10. AllImagePull(p) = said[N]
  BY DEF AllImagePull, N
<1> HIDE DEF said, step
<1>11. \A n \in 0..N : said[n] = IF n = 0 THEN p ELSE Prefixed(said[n - 1])
  BY <1>9
<1>12. 0 \in 0..N /\ N \in 0..N /\ \A i \in 1..N : i \in 0..N /\ i # 0
  BY <1>3
<1>13. said[0] \in T /\ \A i \in 1..N : said[i - 1] \in T => said[i] \in T
  BY <1>1, <1>2, <1>11, <1>12
<1>14. \A i \in 0..N : said[i] \in T
  BY <1>3, <1>13, Along
<1>15. said[N] \in T
  BY <1>12, <1>14
<1> QED BY <1>10, <1>15 DEF T

\* Lines on stderr, of the displays that only append.
LEMMA PlainStderrOk ==
    ASSUME NEW C, NEW p, NEW onScreen \in BOOLEAN, NEW ph, ph # "opening"
    PROVE  /\ SimpleOk(C, p, ph) => SimpleOk(C, PlainStderrClass(p, onScreen), ph)
           /\ AllOk(C, p, ph) => AllOk(C, PlainStderrClass(p, onScreen), ph)
<1>1. CASE ~onScreen
  BY <1>1 DEF PlainStderrClass
<1>2. CASE onScreen
  <2>1. PlainStderrClass(p, onScreen) = Say(p, "stderr")
    BY <1>2 DEF PlainStderrClass
  <2>2. "stderr" \in Whats /\ "stderr" \in Loud
    BY DEF Whats, Loud
  <2>3. ASSUME SimpleOk(C, p, ph) PROVE SimpleOk(C, Say(p, "stderr"), ph)
    BY <2>2, <2>3, SimpleSays
  <2>4. ASSUME AllOk(C, p, ph) PROVE AllOk(C, Say(p, "stderr"), ph)
    <3>1. AllFine(C, p) /\ ~p.preamble_pending
          /\ (ph \in {"starting", "running"} => p.task_container = TaskContainer)
      BY <2>4, AllyFine
    <3>2. /\ AllFine(C, Say(p, "stderr"))
          /\ Say(p, "stderr").task_container = p.task_container
          /\ (Say(p, "stderr").preamble_pending <=> p.preamble_pending)
      BY <2>2, <3>1, AllSaid
    <3> QED BY <3>1, <3>2, AllyFine
  <2> QED BY <2>1, <2>3, <2>4
<1> QED BY <1>1, <1>2

----------------------------------------------------------------------------
(* Every step keeps the invariant.                                         *)

\* Not counted: one that was never announced, or is gone.
NotThere == {"none", "building", "built", "resolved", "creating", "unprepared", "removed"}

LEMMA ShowIs ==
    ASSUME NEW a, NEW b, NEW c
    PROVE  /\ style.name = "fancy" => Show(a, b, c) = a
           /\ style.name = "simple" => Show(a, b, c) = b
           /\ style.name = "all" => Show(a, b, c) = c
BY DEF Show

LEMMA GraphIs ==
    ASSUME CommonInv
    PROVE  /\ IsTaskGraph(graph) /\ Cardinality(DOMAIN graph) <= RowsKept
           /\ IsFiniteSet(DOMAIN graph) /\ TaskContainer \in DOMAIN graph
           /\ graph \in [DOMAIN graph -> Seq(DOMAIN graph)]
<1>1. IsTaskGraph(graph) /\ Cardinality(DOMAIN graph) <= RowsKept
  BY DisplayAssumption DEF CommonInv
<1> QED BY <1>1 DEF IsTaskGraph

\* No container has moved.
LEMMA AtStays ==
    ASSUME CommonInv, graph' = graph, at' = at, phase' \in Phases, tasks' \in Nat
    PROVE  CommonInv' /\ Existing' = Existing /\ ReadyOnes' = ReadyOnes
<1>1. CommonInv'
  BY DEF CommonInv
<1>2. Existing' = Existing
  BY DEF Existing, Announced, Exists
<1>3. ReadyOnes' = ReadyOnes
  BY DEF ReadyOnes, Ready
<1> QED BY <1>1, <1>2, <1>3

\* One has.
LEMMA AtMoves ==
    ASSUME CommonInv, graph' = graph, NEW c \in DOMAIN graph, NEW to,
           at' = [at EXCEPT ![c] = to], to = "running" => c = TaskContainer,
           phase' \in Phases, tasks' \in Nat
    PROVE  /\ CommonInv'
           /\ Existing' = IF to \in NotThere THEN Existing \ {c} ELSE Existing \cup {c}
           /\ ReadyOnes' = IF to \in {"ready", "exited"} THEN ReadyOnes \cup {c}
                           ELSE ReadyOnes \ {c}
           /\ (c \in Existing <=> at[c] \notin NotThere)
           /\ (c \in ReadyOnes <=> at[c] \in {"ready", "exited"})
<1>1. at = [x \in DOMAIN graph |-> at[x]]
  BY DEF CommonInv
<1>2. /\ at' = [x \in DOMAIN graph |-> at'[x]] /\ at'[c] = to
      /\ \A x \in DOMAIN graph : x # c => at'[x] = at[x]
  BY <1>1
<1>3. CommonInv'
  BY <1>2 DEF CommonInv
<1>4. Existing' = IF to \in NotThere THEN Existing \ {c} ELSE Existing \cup {c}
  <2>1. \A x : x \in Existing <=> x \in DOMAIN graph /\ at[x] \notin NotThere
    BY DEF Existing, Announced, Exists, NotThere
  <2>2. \A x : x \in Existing' <=> x \in DOMAIN graph /\ at'[x] \notin NotThere
    BY DEF Existing, Announced, Exists, NotThere
  <2> QED BY <1>2, <2>1, <2>2
<1>5. ReadyOnes' = IF to \in {"ready", "exited"} THEN ReadyOnes \cup {c} ELSE ReadyOnes \ {c}
  <2>1. \A x : x \in ReadyOnes <=> x \in DOMAIN graph /\ at[x] \in {"ready", "exited"}
    BY DEF ReadyOnes, Ready
  <2>2. \A x : x \in ReadyOnes' <=> x \in DOMAIN graph /\ at'[x] \in {"ready", "exited"}
    BY DEF ReadyOnes, Ready
  <2> QED BY <1>2, <2>1, <2>2
<1>6. /\ (c \in Existing <=> at[c] \notin NotThere)
      /\ (c \in ReadyOnes <=> at[c] \in {"ready", "exited"})
  BY DEF Existing, Announced, Exists, NotThere, ReadyOnes, Ready
<1> QED BY <1>3, <1>4, <1>5, <1>6

\* What a step has to keep, in each style.
Kept ==
    /\ CommonInv' /\ style' = style /\ graph' = graph
    /\ style.name = "fancy" => FancyOk(graph, view', phase', Existing', ReadyOnes')
    /\ style.name = "simple" => SimpleOk(DOMAIN graph, view', phase')
    /\ style.name = "all" => AllOk(DOMAIN graph, view', phase')

LEMMA KeptHolds == ASSUME DisplayInv, Kept PROVE DisplayInv'
BY DEF DisplayInv, Kept, FancyInv

LEMMA StylesOk ==
    ASSUME DisplayInv
    PROVE  /\ CommonInv /\ style.name \in {"fancy", "simple", "all"} /\ style.stderr \in BOOLEAN
           /\ style.name = "fancy" => FancyOk(graph, view, phase, Existing, ReadyOnes)
           /\ style.name = "simple" => SimpleOk(DOMAIN graph, view, phase)
           /\ style.name = "all" => AllOk(DOMAIN graph, view, phase)
BY DEF DisplayInv, FancyInv

LEMMA InitHolds == ASSUME DisplayInit PROVE DisplayInv
<1>1. PICK session \in Sessions : graph = session.graph /\ tasks = session.tasks
  BY DEF DisplayInit
<1>2. at = [c \in DOMAIN graph |-> "none"] /\ phase = "new"
  BY DEF DisplayInit
<1>3. tasks \in Nat
  BY <1>1, DisplayAssumption
<1>4. CommonInv
  BY <1>1, <1>2, <1>3 DEF CommonInv, Phases
<1>5. Existing = {}
  BY <1>2 DEF Existing, Announced, Exists
<1>6. style.name \in {"fancy", "simple", "all"} /\ style.stderr \in BOOLEAN
  <2>1. PICK asked \in Styles \cup {None}, term \in BOOLEAN, plain \in BOOLEAN, e \in BOOLEAN :
             style = [name |-> SelectOutputStyle(asked, TRUE, term, plain), stderr |-> e]
    BY DEF DisplayInit
  <2>2. SelectOutputStyle(asked, TRUE, term, plain) \in {"fancy", "simple", "all"}
    BY DisplayAssumption DEF SelectOutputStyle
  <2> QED BY <2>1, <2>2
<1>7. PICK w \in Widths : view = CreateEventSink(style.name, w)
  BY DEF DisplayInit
<1> DEFINE C == DOMAIN graph
           s == NewScreen(w)
<1>8. s \in Screens(C) /\ s.glued = {}
  BY DisplayAssumption DEF NewScreen, Screens
<1>9. ~s.partial /\ ~s.harm
  BY DEF NewScreen
<1> HIDE DEF s
<1>10. CASE style.name = "fancy"
  <2>1. view = State(s)
    BY <1>7, <1>10 DEF CreateEventSink, s
  <2>2. State(s) \in FancyStates(C)
    BY <1>8 DEF State, FancyStates
  <2>3. State(s).screen = s /\ State(s).created = {}
    BY DEF State
  <2>4. ~State(s).keep_updating /\ ~State(s).cleanup_live /\ ~State(s).cleanup_shown
    BY DEF State
  <2>5. Unharmed(C, State(s)) /\ ~State(s).screen.partial
    BY <1>8, <1>9, <2>2, <2>3 DEF Unharmed
  <2>6. FancyOk(graph, view, "new", Existing, ReadyOnes)
    BY <1>5, <2>1, <2>3, <2>4, <2>5, IdleOk
  <2> QED BY <1>2, <1>4, <1>6, <1>10, <2>6 DEF DisplayInv, FancyInv
<1>11. CASE style.name = "simple"
  <2>1. view = SimpleState(s)
    BY <1>7, <1>11 DEF CreateEventSink, s
  <2>2. SimpleState(s) \in SimpleStates(C)
    BY <1>8 DEF SimpleState, SimpleStates
  <2>3. SimpleState(s).screen = s
    BY DEF SimpleState
  <2>4. SimpleOk(C, view, phase)
    BY <1>2, <1>8, <1>9, <2>1, <2>2, <2>3 DEF SimpleOk
  <2> QED BY <1>4, <1>6, <1>11, <2>4 DEF DisplayInv
<1>12. CASE style.name = "all"
  <2>1. view = AllState(s)
    BY <1>7, <1>12 DEF CreateEventSink, s
  <2>2. AllState(s) \in AllStates(C)
    BY <1>8 DEF AllState, AllStates
  <2>3. AllState(s).screen = s
    BY DEF AllState
  <2>4. ~AllState(s).preamble_pending /\ ~AllState(s).early
    BY DEF AllState
  <2>5. AllOk(C, view, phase)
    BY <1>2, <1>8, <1>9, <2>1, <2>2, <2>3, <2>4 DEF AllOk
  <2> QED BY <1>4, <1>6, <1>12, <2>5 DEF DisplayInv
<1> QED BY <1>6, <1>10, <1>11, <1>12

LEMMA ResizeKeeps == ASSUME DisplayInv, Resize PROVE DisplayInv'
<1>1. /\ graph' = graph /\ style' = style /\ at' = at /\ phase' = phase /\ tasks' = tasks
      /\ style.name = "fancy"
  BY DEF Resize
<1>2. PICK w \in Widths : \E wrapped : view' = [view EXCEPT !.screen = Reflow(@, w, wrapped)]
  BY DEF Resize
<1>0. PICK wrapped : view' = [view EXCEPT !.screen = Reflow(@, w, wrapped)]
  BY <1>2
<1>3. w \in Nat
  BY DisplayAssumption
<1>4. CommonInv' /\ Existing' = Existing /\ ReadyOnes' = ReadyOnes
  BY <1>1, StylesOk, AtStays DEF CommonInv
<1>5. FancyOk(graph, view, phase, Existing, ReadyOnes)
  BY <1>1, StylesOk
<1>6. FancyOk(graph, [view EXCEPT !.screen = Reflow(@, w, wrapped)], phase, Existing, ReadyOnes)
  BY <1>3, <1>5, ResizeOk
<1> QED BY <1>1, <1>0, <1>4, <1>6, KeptHolds DEF Kept

LEMMA TaskOutputKeeps == ASSUME DisplayInv, TaskOutput PROVE DisplayInv'
<1>1. /\ graph' = graph /\ style' = style /\ at' = at /\ phase' = phase /\ tasks' = tasks
      /\ phase = "running"
  BY DEF TaskOutput, Unmoved
<1> DEFINE raw(ended) == [view EXCEPT !.screen = RawOutput(@, ended)]
           all == AllContainerOutput(view, TaskContainer)
<1>2. PICK ended \in BOOLEAN : view' = Show(raw(ended), raw(ended), all)
  BY DEF TaskOutput
<1>3. CommonInv' /\ Existing' = Existing /\ ReadyOnes' = ReadyOnes
  BY <1>1, StylesOk, AtStays DEF CommonInv
<1>4. style.name = "fancy" =>
         view' = raw(ended) /\ FancyOk(graph, raw(ended), phase, Existing, ReadyOnes)
  BY <1>1, <1>2, StylesOk, ShowIs, TaskOutputOk
<1>5. style.name = "simple" => view' = raw(ended) /\ SimpleOk(DOMAIN graph, raw(ended), phase)
  BY <1>1, <1>2, StylesOk, ShowIs, SimpleOutput
<1>6. style.name = "all" => view' = all /\ AllOk(DOMAIN graph, all, phase)
  BY <1>1, <1>2, StylesOk, ShowIs, AllHears
<1> HIDE DEF raw, all
<1> QED BY <1>1, <1>3, <1>4, <1>5, <1>6, KeptHolds DEF Kept

LEMMA StderrKeeps == ASSUME DisplayInv, StderrClass PROVE DisplayInv'
<1>1. /\ graph' = graph /\ style' = style /\ at' = at /\ phase' = phase /\ tasks' = tasks
      /\ phase \in {"starting", "ended", "cleaning", "network", "cleaned"}
  BY DEF StderrClass, Unmoved
<1> DEFINE fancy == FancyStderrClass(view, style.stderr)
           plain == PlainStderrClass(view, style.stderr)
<1>2. view' = Show(fancy, plain, plain)
  BY DEF StderrClass
<1>3. CommonInv' /\ Existing' = Existing /\ ReadyOnes' = ReadyOnes
  BY <1>1, StylesOk, AtStays DEF CommonInv
<1>4. style.name = "fancy" => view' = fancy /\ FancyOk(graph, fancy, phase, Existing, ReadyOnes)
  BY <1>1, <1>2, StylesOk, ShowIs, StderrOk
<1>5. style.name = "simple" => view' = plain /\ SimpleOk(DOMAIN graph, plain, phase)
  BY <1>1, <1>2, StylesOk, ShowIs, PlainStderrOk
<1>6. style.name = "all" => view' = plain /\ AllOk(DOMAIN graph, plain, phase)
  BY <1>1, <1>2, StylesOk, ShowIs, PlainStderrOk
<1> HIDE DEF fancy, plain
<1> QED BY <1>1, <1>3, <1>4, <1>5, <1>6, KeptHolds DEF Kept

LEMMA DependencyOutputKeeps ==
    ASSUME DisplayInv, NEW c \in DOMAIN graph, DependencyOutput(c) PROVE DisplayInv'
<1>1. /\ graph' = graph /\ style' = style /\ at' = at /\ phase' = phase /\ tasks' = tasks
      /\ phase \in {"starting", "running"} /\ style.name = "all"
      /\ view' = AllContainerOutput(view, c)
  BY DEF DependencyOutput, Unmoved
<1>2. CommonInv' /\ Existing' = Existing /\ ReadyOnes' = ReadyOnes
  BY <1>1, StylesOk, AtStays DEF CommonInv
<1>3. AllOk(DOMAIN graph, AllContainerOutput(view, c), phase)
  BY <1>1, StylesOk, AllHears
<1> QED BY <1>1, <1>2, <1>3, KeptHolds DEF Kept

LEMMA TaskStartingKeeps == ASSUME DisplayInv, TaskStarting PROVE DisplayInv'
<1>1. /\ graph' = graph /\ style' = style /\ phase' = "opening" /\ tasks' = tasks - 1
      /\ phase \in {"new", "between"} /\ tasks > 0 /\ at' = [c \in DOMAIN graph |-> "none"]
  BY DEF TaskStarting, Unmoved
<1> DEFINE fancy == FancyTaskStarting(view)
           simple == SimpleTaskStarting(view)
           all == AllTaskStarting(view, tasks)
<1>2. view' = Show(fancy, simple, all)
  BY DEF TaskStarting
<1>3. tasks \in Nat /\ tasks' \in Nat
  BY <1>1, StylesOk DEF CommonInv
<1>4. CommonInv' /\ Existing' = {} /\ ReadyOnes' = {}
  <2>1. CommonInv'
    BY <1>1, <1>3, StylesOk DEF CommonInv, Phases
  <2>2. Existing' = {} /\ ReadyOnes' = {}
    BY <1>1 DEF Existing, Announced, Exists, ReadyOnes, Ready
  <2> QED BY <2>1, <2>2
<1>5. style.name = "fancy" => view' = fancy /\ FancyOk(graph, fancy, "opening", {}, {})
  BY <1>1, <1>2, StylesOk, ShowIs, TaskStartingOk
<1>6. style.name = "simple" => view' = simple /\ SimpleOk(DOMAIN graph, simple, "opening")
  BY <1>1, <1>2, StylesOk, ShowIs, SimpleIntroduces
<1>7. style.name = "all" => view' = all /\ AllOk(DOMAIN graph, all, "opening")
  BY <1>1, <1>2, <1>3, StylesOk, ShowIs, AllIntroduces
<1> HIDE DEF fancy, simple, all
<1> QED BY <1>1, <1>4, <1>5, <1>6, <1>7, KeptHolds DEF Kept

LEMMA PrerequisitesKeeps == ASSUME DisplayInv, PrerequisitesOnly PROVE DisplayInv'
<1>1. /\ graph' = graph /\ style' = style /\ at' = at /\ phase' = phase /\ tasks' = 0
      /\ phase = "between"
  BY DEF PrerequisitesOnly, Unmoved
<1> DEFINE fancy == FancyPrerequisitesOnly(view)
           simple == SimplePrerequisitesOnly(view)
           all == AllPrerequisitesOnly(view, tasks)
<1>2. view' = Show(fancy, simple, all)
  BY DEF PrerequisitesOnly
<1>3. CommonInv' /\ Existing' = Existing /\ ReadyOnes' = ReadyOnes /\ tasks \in Nat
  <2>1. phase' \in Phases /\ tasks' \in Nat /\ tasks \in Nat
    BY <1>1, StylesOk DEF CommonInv
  <2> QED BY <1>1, <2>1, StylesOk, AtStays
<1>4. style.name = "fancy" =>
         view' = fancy /\ FancyOk(graph, fancy, "between", Existing, ReadyOnes)
  BY <1>1, <1>2, StylesOk, ShowIs, PrerequisitesOk
<1>5. style.name = "simple" => view' = simple /\ SimpleOk(DOMAIN graph, simple, "between")
  BY <1>1, <1>2, StylesOk, ShowIs, SimpleIntroduces
<1>6. style.name = "all" => view' = all /\ AllOk(DOMAIN graph, all, "between")
  BY <1>1, <1>2, <1>3, StylesOk, ShowIs, AllIntroduces
<1> HIDE DEF fancy, simple, all
<1> QED BY <1>1, <1>3, <1>4, <1>5, <1>6, KeptHolds DEF Kept

LEMMA GraphResolvedKeeps == ASSUME DisplayInv, TaskGraphResolved PROVE DisplayInv'
<1>1. /\ graph' = graph /\ style' = style /\ at' = at /\ phase' = "starting" /\ tasks' = tasks
      /\ phase = "opening"
  BY DEF TaskGraphResolved, Unmoved
<1> DEFINE fancy == FancyTaskGraphResolved(view, graph, TaskContainer)
           simple == SimpleTaskGraphResolved(view, TaskContainer)
           all == AllTaskGraphResolved(view, TaskContainer, Dependencies)
<1>2. view' = Show(fancy, simple, all)
  BY DEF TaskGraphResolved
<1>3. CommonInv' /\ Existing' = Existing /\ ReadyOnes' = ReadyOnes
  BY <1>1, StylesOk, AtStays DEF CommonInv, Phases
<1>4. style.name = "fancy" =>
         view' = fancy /\ FancyOk(graph, fancy, "starting", Existing, ReadyOnes)
  BY <1>1, <1>2, StylesOk, ShowIs, GraphIs, GraphResolvedOk
<1>5. style.name = "simple" => view' = simple /\ SimpleOk(DOMAIN graph, simple, "starting")
  BY <1>1, <1>2, StylesOk, ShowIs, SimpleResolves
<1>6. style.name = "all" => view' = all /\ AllOk(DOMAIN graph, all, "starting")
  <2>1. Dependencies \in SUBSET DOMAIN graph
    BY DEF Dependencies
  <2> QED BY <1>1, <1>2, <2>1, StylesOk, ShowIs, AllResolves
<1> HIDE DEF fancy, simple, all
<1> QED BY <1>1, <1>3, <1>4, <1>5, <1>6, KeptHolds DEF Kept

\* What the displays make of a milestone of startup, when it is well with the live one.
LEMMA MilestoneKept ==
    ASSUME DisplayInv, graph' = graph, style' = style, CommonInv', phase = "starting",
           phase' \in {"starting", "running"}, NEW f,
           view' = Milestone(f) \/ (view' = OnlyFancy(f) /\ phase' = "starting"),
           style.name = "fancy" => FancyOk(graph, f, phase', Existing', ReadyOnes')
    PROVE  DisplayInv'
<1>1. "milestone" \in Whats
  BY DEF Whats
<1>2. style.name = "fancy" => view' = f
  BY ShowIs DEF Milestone, OnlyFancy
<1>3. style.name = "simple" => SimpleOk(DOMAIN graph, view', phase')
  <2> SUFFICES ASSUME style.name = "simple" PROVE SimpleOk(DOMAIN graph, view', phase')
    OBVIOUS
  <2>1. SimpleOk(DOMAIN graph, view, "starting")
    BY StylesOk
  <2>2. SimpleOk(DOMAIN graph, Say(view, "milestone"), phase')
    BY <1>1, <2>1, SimpleSays
  <2>3. view' = Say(view, "milestone") \/ (view' = view /\ phase' = "starting")
    BY ShowIs DEF Milestone, OnlyFancy, SimpleMilestone
  <2> QED BY <2>1, <2>2, <2>3
<1>4. style.name = "all" => AllOk(DOMAIN graph, view', phase')
  <2> SUFFICES ASSUME style.name = "all" PROVE AllOk(DOMAIN graph, view', phase')
    OBVIOUS
  <2>1. AllOk(DOMAIN graph, view, "starting")
    BY StylesOk
  <2>2. AllOk(DOMAIN graph, Prefixed(view), phase')
    BY <2>1, AllMilestoneOk
  <2>3. view' = Prefixed(view) \/ (view' = view /\ phase' = "starting")
    BY ShowIs DEF Milestone, OnlyFancy, AllMilestone
  <2> QED BY <2>1, <2>2, <2>3
<1> QED BY <1>2, <1>3, <1>4, KeptHolds DEF Kept

LEMMA ImagePullKeeps == ASSUME DisplayInv, ImagePull PROVE DisplayInv'
<1>1. /\ graph' = graph /\ style' = style /\ at' = at /\ phase' = "starting" /\ tasks' = tasks
      /\ phase = "starting"
  BY DEF ImagePull, Unmoved
<1>2. CommonInv' /\ Existing' = Existing /\ ReadyOnes' = ReadyOnes
  BY <1>1, StylesOk, AtStays DEF CommonInv
<1>3. graph \in [DOMAIN graph -> Seq(DOMAIN graph)] /\ IsFiniteSet(DOMAIN graph)
  BY StylesOk, GraphIs
<1> DEFINE Fine(f) == FancyOk(graph, f, "starting", Existing, ReadyOnes)
           Pull(name) == FancyImagePull(view, Dependencies, name)
           Done == FancyImagePullCompleted(view, graph, Dependencies)
<1>4. style.name = "fancy" => Fine(Pull("pulling")) /\ Fine(Pull("layers")) /\ Fine(Done)
  <2> SUFFICES ASSUME style.name = "fancy"
               PROVE  Fine(Pull("pulling")) /\ Fine(Pull("layers")) /\ Fine(Done)
    OBVIOUS
  <2>1. FancyOk(graph, view, "starting", Existing, ReadyOnes)
    BY <1>1, StylesOk
  <2>2. "pulling" \in StageNames \ {"waiting"} /\ "layers" \in StageNames \ {"waiting"}
    BY DEF StageNames
  <2>3. Fine(Pull("pulling"))
    BY <2>1, <2>2, SetStageOk DEF FancyImagePull
  <2>4. Fine(Pull("layers"))
    BY <2>1, <2>2, SetStageOk DEF FancyImagePull
  <2>5. Fine(Done)
    BY <1>3, <2>1, StartWaitingOk DEF FancyImagePullCompleted
  <2> QED BY <2>3, <2>4, <2>5
<1> HIDE DEF Pull, Done
<1>5. \/ view' = Show(Pull("pulling"), SimpleMilestone(view), AllImagePull(view))
      \/ view' = OnlyFancy(Pull("layers"))
      \/ view' = Show(Done, SimpleMilestone(view), AllImagePull(view))
  BY DEF ImagePull, Pull, Done
<1>6. CASE style.name = "fancy"
  <2>1. view' = Pull("pulling") \/ view' = Pull("layers") \/ view' = Done
    BY <1>5, <1>6, ShowIs DEF OnlyFancy
  <2>2. Fine(view')
    BY <1>4, <1>6, <2>1
  <2> QED BY <1>1, <1>2, <1>6, <2>2, KeptHolds DEF Kept
<1>7. CASE style.name = "simple"
  <2>1. view' = Say(view, "milestone") \/ view' = view
    BY <1>5, <1>7, ShowIs DEF OnlyFancy, SimpleMilestone
  <2>2. SimpleOk(DOMAIN graph, view, "starting") /\ "milestone" \in Whats
    BY <1>1, <1>7, StylesOk DEF Whats
  <2>3. SimpleOk(DOMAIN graph, Say(view, "milestone"), "starting")
    BY <2>2, SimpleSays
  <2> QED BY <1>1, <1>2, <1>7, <2>1, <2>2, <2>3, KeptHolds DEF Kept
<1>8. CASE style.name = "all"
  <2>1. view' = AllImagePull(view) \/ view' = view
    BY <1>5, <1>8, ShowIs DEF OnlyFancy
  <2>2. AllOk(DOMAIN graph, view, "starting")
    BY <1>1, <1>8, StylesOk
  <2>3. AllOk(DOMAIN graph, AllImagePull(view), "starting")
    BY <1>3, <2>2, AllPulls
  <2> QED BY <1>1, <1>2, <1>8, <2>1, <2>2, <2>3, KeptHolds DEF Kept
<1> QED BY <1>6, <1>7, <1>8, StylesOk

\* A container that is no more there, and no more ready, than before.
Sideways(from, to) ==
    /\ from \in NotThere <=> to \in NotThere
    /\ from \in {"ready", "exited"} <=> to \in {"ready", "exited"}

LEMMA MovesSideways ==
    ASSUME CommonInv, graph' = graph, NEW c \in DOMAIN graph, NEW to,
           at' = [at EXCEPT ![c] = to], to # "running", Sideways(at[c], to),
           phase' \in Phases, tasks' \in Nat
    PROVE  CommonInv' /\ Existing' = Existing /\ ReadyOnes' = ReadyOnes
<1>1. /\ CommonInv'
      /\ Existing' = IF to \in NotThere THEN Existing \ {c} ELSE Existing \cup {c}
      /\ ReadyOnes' = IF to \in {"ready", "exited"} THEN ReadyOnes \cup {c} ELSE ReadyOnes \ {c}
      /\ (c \in Existing <=> at[c] \notin NotThere)
      /\ (c \in ReadyOnes <=> at[c] \in {"ready", "exited"})
  BY AtMoves
<1>2. Existing' = Existing
  BY <1>1 DEF Sideways
<1>3. ReadyOnes' = ReadyOnes
  BY <1>1 DEF Sideways
<1> QED BY <1>1, <1>2, <1>3

LEMMA StagedKeeps ==
    ASSUME DisplayInv, graph' = graph, style' = style, tasks' = tasks,
           phase = "starting", phase' = "starting", NEW c \in DOMAIN graph, NEW to,
           at' = [at EXCEPT ![c] = to], to # "running", Sideways(at[c], to),
           NEW name \in StageNames \ {"waiting"}, NEW f,
           f = WhileStarting(view, SetStage(view, {c}, Stage(name))),
           view' = Milestone(f) \/ view' = OnlyFancy(f)
    PROVE  DisplayInv'
<1>1. CommonInv /\ phase' \in Phases /\ tasks' \in Nat
  BY StylesOk DEF CommonInv
<1>2. CommonInv' /\ Existing' = Existing /\ ReadyOnes' = ReadyOnes
  BY <1>1, MovesSideways
<1>3. style.name = "fancy" => FancyOk(graph, f, "starting", Existing, ReadyOnes)
  BY StylesOk, SetStageOk
<1>4. style.name = "fancy" => FancyOk(graph, f, phase', Existing', ReadyOnes')
  BY <1>2, <1>3
<1> QED BY <1>2, <1>4, MilestoneKept

LEMMA ImageBuildKeeps == ASSUME DisplayInv, ImageBuild PROVE DisplayInv'
<1>1. /\ graph' = graph /\ style' = style /\ phase' = "starting" /\ tasks' = tasks
      /\ phase = "starting"
  BY DEF ImageBuild, Unmoved
<1>2. CommonInv /\ TaskContainer \in DOMAIN graph /\ phase' \in Phases /\ tasks' \in Nat
  BY <1>1, StylesOk, GraphIs DEF CommonInv
<1> DEFINE Built(name) == WhileStarting(view, SetStage(view, {TaskContainer}, Stage(name)))
<1>3. /\ FancyImageBuild(view, TaskContainer, "building") = Built("building")
      /\ FancyImageBuild(view, TaskContainer, "step") = Built("step")
      /\ FancyImageBuild(view, TaskContainer, "built") = Built("built")
      /\ FancyImageBuild(view, TaskContainer, "blank") = view
  BY DEF FancyImageBuild
<1>4. /\ "building" \in StageNames \ {"waiting"} /\ "built" \in StageNames \ {"waiting"}
      /\ "step" \in StageNames \ {"waiting"}
  BY DEF StageNames
<1>5. Sideways("none", "building") /\ Sideways("building", "building")
      /\ Sideways("building", "built")
  BY DEF Sideways, NotThere
<1>6. CASE /\ Moves(TaskContainer, {"none"}, "building")
           /\ view' = Milestone(FancyImageBuild(view, TaskContainer, "building"))
  <2>1. at[TaskContainer] = "none" /\ at' = [at EXCEPT ![TaskContainer] = "building"]
    BY <1>6 DEF Moves
  <2>2. view' = Milestone(Built("building"))
    BY <1>3, <1>6
  <2> HIDE DEF Built
  <2>3. Built("building") = WhileStarting(view, SetStage(view, {TaskContainer}, Stage("building")))
    BY DEF Built
  <2>4. Sideways(at[TaskContainer], "building")
    BY <1>5, <2>1
  <2> QED BY <1>1, <1>2, <1>4, <2>1, <2>2, <2>3, <2>4, StagedKeeps
<1>7. CASE /\ Moves(TaskContainer, {"building"}, "built")
           /\ view' = Milestone(FancyImageBuild(view, TaskContainer, "built"))
  <2>1. at[TaskContainer] = "building" /\ at' = [at EXCEPT ![TaskContainer] = "built"]
    BY <1>7 DEF Moves
  <2>2. view' = Milestone(Built("built"))
    BY <1>3, <1>7
  <2> HIDE DEF Built
  <2>3. Built("built") = WhileStarting(view, SetStage(view, {TaskContainer}, Stage("built")))
    BY DEF Built
  <2>4. Sideways(at[TaskContainer], "built")
    BY <1>5, <2>1
  <2> QED BY <1>1, <1>2, <1>4, <2>1, <2>2, <2>3, <2>4, StagedKeeps
<1>8. CASE /\ Moves(TaskContainer, {"building"}, "building")
           /\ \E line \in {"blank", "step"} :
                 view' = Show(FancyImageBuild(view, TaskContainer, line), view,
                              AllMilestone(view))
  <2>1. at[TaskContainer] = "building" /\ at' = [at EXCEPT ![TaskContainer] = "building"]
    BY <1>8 DEF Moves
  <2>2. Sideways(at[TaskContainer], "building")
    BY <1>5, <2>1
  <2>3. CommonInv' /\ Existing' = Existing /\ ReadyOnes' = ReadyOnes
    BY <1>1, <1>2, <2>1, <2>2, MovesSideways
  <2>4. \/ view' = Show(view, view, AllMilestone(view))
        \/ view' = Show(Built("step"), view, AllMilestone(view))
    BY <1>3, <1>8
  <2>5. style.name = "fancy" => FancyOk(graph, view', "starting", Existing, ReadyOnes)
    <3> SUFFICES ASSUME style.name = "fancy"
                 PROVE  FancyOk(graph, view', "starting", Existing, ReadyOnes)
      OBVIOUS
    <3>1. FancyOk(graph, view, "starting", Existing, ReadyOnes)
      BY <1>1, StylesOk
    <3>2. FancyOk(graph, Built("step"), "starting", Existing, ReadyOnes)
      BY <1>4, <3>1, SetStageOk
    <3> HIDE DEF Built
    <3>3. view' = view \/ view' = Built("step")
      BY <2>4, ShowIs
    <3> QED BY <3>1, <3>2, <3>3
  <2>6. style.name = "simple" => SimpleOk(DOMAIN graph, view', "starting")
    <3>1. style.name = "simple" => view' = view
      BY <2>4, ShowIs
    <3> QED BY <1>1, <3>1, StylesOk
  <2>7. style.name = "all" => AllOk(DOMAIN graph, view', "starting")
    <3>1. style.name = "all" => view' = Prefixed(view)
      BY <2>4, ShowIs DEF AllMilestone
    <3>2. style.name = "all" => AllOk(DOMAIN graph, Prefixed(view), "starting")
      BY <1>1, StylesOk, AllMilestoneOk
    <3> QED BY <3>1, <3>2
  <2> QED BY <1>1, <2>3, <2>5, <2>6, <2>7, KeptHolds DEF Kept
<1> QED BY <1>6, <1>7, <1>8 DEF ImageBuild

LEMMA ImageResolvedKeeps ==
    ASSUME DisplayInv, NEW c \in DOMAIN graph, ImageResolved(c) PROVE DisplayInv'
<1>1. /\ graph' = graph /\ style' = style /\ phase' = "starting" /\ tasks' = tasks
      /\ phase = "starting"
  BY DEF ImageResolved, Unmoved
<1>2. at[c] \in {"none", "built"} /\ at' = [at EXCEPT ![c] = "resolved"]
  BY DEF ImageResolved, Moves
<1>3. CommonInv /\ phase' \in Phases /\ tasks' \in Nat
      /\ graph \in [DOMAIN graph -> Seq(DOMAIN graph)]
  BY <1>1, StylesOk, GraphIs DEF CommonInv
<1>4. Sideways(at[c], "resolved")
  BY <1>2 DEF Sideways, NotThere
<1>5. CommonInv' /\ Existing' = Existing /\ ReadyOnes' = ReadyOnes
  BY <1>1, <1>2, <1>3, <1>4, MovesSideways
<1> DEFINE some == {x \in {c} : view.stage[x].at = "pending"}
           f == WhileStarting(view, StartWaiting(view, graph, some))
<1>6. view' = OnlyFancy(f)
  BY DEF ImageResolved, FancyImageResolved
<1>7. style.name = "fancy" => FancyOk(graph, f, "starting", Existing, ReadyOnes)
  <2> HIDE DEF some
  <2> QED BY <1>1, <1>3, StylesOk, StartWaitingOk
<1> HIDE DEF f
<1> QED BY <1>1, <1>5, <1>6, <1>7, MilestoneKept

LEMMA CreatingKeeps ==
    ASSUME DisplayInv, NEW c \in DOMAIN graph, ContainerCreating(c) PROVE DisplayInv'
<1>1. /\ graph' = graph /\ style' = style /\ phase' = "starting" /\ tasks' = tasks
      /\ phase = "starting" /\ at[c] = "resolved" /\ at' = [at EXCEPT ![c] = "creating"]
  BY DEF ContainerCreating, Unmoved, Moves
<1>2. Sideways(at[c], "creating") /\ "creating" \in StageNames \ {"waiting"}
  BY <1>1 DEF Sideways, NotThere, StageNames
<1> DEFINE f == WhileStarting(view, SetStage(view, {c}, Stage("creating")))
<1>3. view' = OnlyFancy(f)
  BY DEF ContainerCreating, FancyContainerCreating
<1>4. f = WhileStarting(view, SetStage(view, {c}, Stage("creating")))
  OBVIOUS
<1> HIDE DEF f
<1> QED BY <1>1, <1>2, <1>3, <1>4, StagedKeeps

LEMMA CreatedKeeps ==
    ASSUME DisplayInv, NEW c \in DOMAIN graph, ContainerCreated(c) PROVE DisplayInv'
<1>1. /\ graph' = graph /\ style' = style /\ phase' = phase /\ tasks' = tasks
      /\ phase \in {"starting", "ended"}
      /\ at[c] = "creating" /\ at' = [at EXCEPT ![c] = "created"]
  BY DEF ContainerCreated, Unmoved, Moves
<1>2. CommonInv /\ phase' \in Phases /\ tasks' \in Nat
      /\ graph \in [DOMAIN graph -> Seq(DOMAIN graph)]
  BY <1>1, StylesOk, GraphIs DEF CommonInv
<1>3. CommonInv' /\ Existing' = Existing \cup {c} /\ ReadyOnes' = ReadyOnes
  <2>1. "created" \notin NotThere
    BY DEF NotThere
  <2> QED BY <1>1, <1>2, <2>1, AtMoves
<1> DEFINE f == FancyContainerCreated(view, graph, c)
<1>4. view' = OnlyFancy(f)
  BY DEF ContainerCreated
<1>5. style.name = "fancy" => FancyOk(graph, f, phase, Existing \cup {c}, ReadyOnes)
  BY <1>1, <1>2, StylesOk, CreatedOk, CreatedLateOk
<1> HIDE DEF f
<1>6. /\ style.name = "fancy" => view' = f
      /\ style.name \in {"simple", "all"} => view' = view
  BY <1>4, ShowIs DEF OnlyFancy
<1> QED BY <1>1, <1>3, <1>5, <1>6, StylesOk, KeptHolds DEF Kept

LEMMA UnpreparedKeeps ==
    ASSUME DisplayInv, NEW c \in DOMAIN graph, CreatedUnprepared(c) PROVE DisplayInv'
<1>1. /\ graph' = graph /\ style' = style /\ phase' = phase /\ tasks' = tasks /\ view' = view
      /\ at[c] = "creating" /\ at' = [at EXCEPT ![c] = "unprepared"]
  BY DEF CreatedUnprepared, Unmoved, Moves
<1>2. CommonInv /\ phase' \in Phases /\ tasks' \in Nat /\ Sideways(at[c], "unprepared")
  BY <1>1, StylesOk DEF CommonInv, Sideways, NotThere
<1>3. CommonInv' /\ Existing' = Existing /\ ReadyOnes' = ReadyOnes
  BY <1>1, <1>2, MovesSideways
<1> QED BY <1>1, <1>3, StylesOk, KeptHolds DEF Kept

LEMMA DependencyStartingKeeps ==
    ASSUME DisplayInv, NEW c \in DOMAIN graph, DependencyStarting(c) PROVE DisplayInv'
<1>1. /\ graph' = graph /\ style' = style /\ phase' = "starting" /\ tasks' = tasks
      /\ phase = "starting" /\ at[c] = "created" /\ at' = [at EXCEPT ![c] = "starting"]
  BY DEF DependencyStarting, Unmoved, Moves
<1>2. Sideways(at[c], "starting") /\ "starting" \in StageNames \ {"waiting"}
  BY <1>1 DEF Sideways, NotThere, StageNames
<1> DEFINE f == WhileStarting(view, SetStage(view, {c}, Stage("starting")))
<1>3. view' = Milestone(f)
  BY DEF DependencyStarting, FancyDependencyStarting
<1>4. f = WhileStarting(view, SetStage(view, {c}, Stage("starting")))
  OBVIOUS
<1> HIDE DEF f
<1> QED BY <1>1, <1>2, <1>3, <1>4, StagedKeeps

LEMMA DependencyStartedKeeps ==
    ASSUME DisplayInv, NEW c \in DOMAIN graph, DependencyStarted(c) PROVE DisplayInv'
<1>1. /\ graph' = graph /\ style' = style /\ phase' = "starting" /\ tasks' = tasks
      /\ phase = "starting" /\ at[c] = "starting" /\ at' = [at EXCEPT ![c] = "started"]
  BY DEF DependencyStarted, Unmoved, Moves
<1>2. Sideways(at[c], "started") /\ "healthy?" \in StageNames \ {"waiting"}
  BY <1>1 DEF Sideways, NotThere, StageNames
<1> DEFINE f == WhileStarting(view, SetStage(view, {c}, Stage("healthy?")))
<1>3. view' = Milestone(f)
  BY DEF DependencyStarted, FancyDependencyStarted
<1>4. f = WhileStarting(view, SetStage(view, {c}, Stage("healthy?")))
  OBVIOUS
<1> HIDE DEF f
<1> QED BY <1>1, <1>2, <1>3, <1>4, StagedKeeps

LEMMA ReadinessKept ==
    ASSUME DisplayInv, graph' = graph, style' = style, CommonInv',
           phase \in {"starting", "running"}, phase' = phase, NEW c,
           phase = "running" => c = TaskContainer, NEW f,
           view' = Show(f, SimpleReadiness(view, c), AllMilestone(view)),
           style.name = "fancy" => FancyOk(graph, f, phase', Existing', ReadyOnes')
    PROVE  DisplayInv'
<1>1. style.name = "fancy" => view' = f
  BY ShowIs
<1>2. style.name = "simple" => SimpleOk(DOMAIN graph, view', phase')
  <2> SUFFICES ASSUME style.name = "simple" PROVE SimpleOk(DOMAIN graph, view', phase')
    OBVIOUS
  <2>1. SimpleOk(DOMAIN graph, view, phase)
    BY StylesOk
  <2>2. SimpleOk(DOMAIN graph, SimpleReadiness(view, c), phase)
    BY <2>1, SimpleReadinessOk
  <2>3. view' = SimpleReadiness(view, c)
    BY ShowIs
  <2> QED BY <2>2, <2>3
<1>3. style.name = "all" => AllOk(DOMAIN graph, view', phase')
  <2> SUFFICES ASSUME style.name = "all" PROVE AllOk(DOMAIN graph, view', phase')
    OBVIOUS
  <2>1. AllOk(DOMAIN graph, view, phase) /\ phase # "opening"
    BY StylesOk
  <2>2. AllOk(DOMAIN graph, Prefixed(view), phase)
    BY <2>1, AllMilestoneOk
  <2>3. view' = Prefixed(view)
    BY ShowIs DEF AllMilestone
  <2> QED BY <2>2, <2>3
<1> QED BY <1>1, <1>2, <1>3, KeptHolds DEF Kept

\* One more is ready.
LEMMA MovesReady ==
    ASSUME CommonInv, graph' = graph, NEW c \in DOMAIN graph, at[c] \notin NotThere,
           at' = [at EXCEPT ![c] = "ready"], phase' \in Phases, tasks' \in Nat
    PROVE  CommonInv' /\ Existing' = Existing /\ ReadyOnes' = ReadyOnes \cup {c}
<1>1. "ready" \notin NotThere
  BY DEF NotThere
<1>2. /\ CommonInv'
      /\ Existing' = IF "ready" \in NotThere THEN Existing \ {c} ELSE Existing \cup {c}
      /\ ReadyOnes' = ReadyOnes \cup {c}
      /\ (c \in Existing <=> at[c] \notin NotThere)
  BY AtMoves
<1> QED BY <1>1, <1>2

\* Once the task container runs, the live display says nothing of readiness.
LEMMA RunningStays ==
    ASSUME DisplayInv, phase = "running", style.name = "fancy", NEW ready
    PROVE  ~view.keep_updating /\ FancyOk(graph, view, "running", Existing, ready)
<1>1. FancyOk(graph, view, "running", Existing, ReadyOnes)
  BY StylesOk
<1> QED BY <1>1 DEF FancyOk

LEMMA BecameHealthyKeeps ==
    ASSUME DisplayInv, NEW c \in DOMAIN graph, ContainerBecameHealthy(c) PROVE DisplayInv'
<1>1. graph' = graph /\ style' = style /\ phase' = phase /\ tasks' = tasks
  BY DEF ContainerBecameHealthy, Unmoved
<1>2. CommonInv /\ phase' \in Phases /\ tasks' \in Nat
  BY <1>1, StylesOk DEF CommonInv
<1> DEFINE f == FancyContainerBecameHealthy(view, c, HasSetup(c))
<1>3. view' = Show(f, SimpleReadiness(view, c), AllMilestone(view))
  BY DEF ContainerBecameHealthy
<1>4. \/ phase = "starting" /\ Moves(c, {"started"}, IF HasSetup(c) THEN "setup" ELSE "ready")
      \/ phase = "running" /\ Moves(c, {"running"}, "setup")
  BY DEF ContainerBecameHealthy
<1>5. CASE phase = "starting" /\ HasSetup(c)
  <2>1. at[c] = "started" /\ at' = [at EXCEPT ![c] = "setup"]
    BY <1>4, <1>5 DEF Moves
  <2>2. Sideways(at[c], "setup") /\ "setup" \in StageNames \ {"waiting"}
    BY <2>1 DEF Sideways, NotThere, StageNames
  <2>3. CommonInv' /\ Existing' = Existing /\ ReadyOnes' = ReadyOnes
    BY <1>1, <1>2, <2>1, <2>2, MovesSideways
  <2>4. f = WhileStarting(view, SetStage(view, {c}, Stage("setup")))
    BY <1>5 DEF FancyContainerBecameHealthy
  <2> HIDE DEF f
  <2>5. style.name = "fancy" => FancyOk(graph, f, "starting", Existing, ReadyOnes)
    BY <1>5, <2>2, <2>4, StylesOk, SetStageOk
  <2> QED BY <1>1, <1>3, <1>5, <2>3, <2>5, ReadinessKept
<1>6. CASE phase = "starting" /\ ~HasSetup(c)
  <2>1. at[c] = "started" /\ at' = [at EXCEPT ![c] = "ready"]
    BY <1>4, <1>6 DEF Moves
  <2>2. at[c] \notin NotThere
    BY <2>1 DEF NotThere
  <2>3. CommonInv' /\ Existing' = Existing /\ ReadyOnes' = ReadyOnes \cup {c}
    BY <1>1, <1>2, <2>1, <2>2, MovesReady
  <2>4. f = WhileStarting(view, MarkReady(view, c))
    BY <1>6 DEF FancyContainerBecameHealthy
  <2> HIDE DEF f
  <2>5. style.name = "fancy" => FancyOk(graph, f, "starting", Existing, ReadyOnes \cup {c})
    BY <1>6, <2>4, StylesOk, MarkReadyOk
  <2> QED BY <1>1, <1>3, <1>6, <2>3, <2>5, ReadinessKept
<1>7. CASE phase = "running"
  <2>1. at[c] = "running" /\ at' = [at EXCEPT ![c] = "setup"]
    BY <1>4, <1>7 DEF Moves
  <2>2. Sideways(at[c], "setup") /\ c = TaskContainer
    BY <1>2, <2>1 DEF Sideways, NotThere, CommonInv
  <2>3. CommonInv' /\ Existing' = Existing /\ ReadyOnes' = ReadyOnes
    BY <1>1, <1>2, <2>1, <2>2, MovesSideways
  <2>4. ASSUME style.name = "fancy" PROVE FancyOk(graph, f, "running", Existing, ReadyOnes)
    <3>1. ~view.keep_updating /\ FancyOk(graph, view, "running", Existing, ReadyOnes)
      BY <1>7, <2>4, RunningStays
    <3>2. f = view
      BY <3>1 DEF FancyContainerBecameHealthy, WhileStarting
    <3> QED BY <3>1, <3>2
  <2> HIDE DEF f
  <2> QED BY <1>1, <1>3, <1>7, <2>2, <2>3, <2>4, ReadinessKept
<1> QED BY <1>4, <1>5, <1>6, <1>7

LEMMA CompletedKeeps ==
    ASSUME DisplayInv, NEW c \in DOMAIN graph, DependencyCompleted(c) PROVE DisplayInv'
<1>1. /\ graph' = graph /\ style' = style /\ phase' = "starting" /\ tasks' = tasks
      /\ phase = "starting" /\ at[c] = "started" /\ at' = [at EXCEPT ![c] = "ready"]
  BY DEF DependencyCompleted, Unmoved, Moves
<1>2. CommonInv /\ phase' \in Phases /\ tasks' \in Nat /\ at[c] \notin NotThere
  BY <1>1, StylesOk DEF CommonInv, NotThere
<1>3. CommonInv' /\ Existing' = Existing /\ ReadyOnes' = ReadyOnes \cup {c}
  BY <1>1, <1>2, MovesReady
<1> DEFINE f == WhileStarting(view, MarkReady(view, c))
<1>4. view' = Milestone(f)
  BY DEF DependencyCompleted, FancyReady
<1>5. style.name = "fancy" => FancyOk(graph, f, "starting", Existing, ReadyOnes \cup {c})
  BY <1>1, StylesOk, MarkReadyOk
<1> HIDE DEF f
<1> QED BY <1>1, <1>3, <1>4, <1>5, MilestoneKept

LEMMA SetupKeeps ==
    ASSUME DisplayInv, NEW c \in DOMAIN graph, SetupCommands(c) PROVE DisplayInv'
<1>1. /\ graph' = graph /\ style' = style /\ phase' = phase /\ tasks' = tasks
      /\ phase \in {"starting", "running"} /\ (phase = "running" => c = TaskContainer)
  BY DEF SetupCommands, Unmoved
<1>2. CommonInv /\ phase' \in Phases /\ tasks' \in Nat
  BY <1>1, StylesOk DEF CommonInv
<1> DEFINE f == FancyRunningSetupCommand(view, c)
           g == FancyReady(view, c)
<1>3. CASE /\ Moves(c, {"setup"}, "in setup")
           /\ view' = Show(f, SimpleReadiness(view, c), AllMilestone(view))
  <2>1. at[c] = "setup" /\ at' = [at EXCEPT ![c] = "in setup"]
    BY <1>3 DEF Moves
  <2>2. Sideways(at[c], "in setup") /\ "in setup" \in StageNames \ {"waiting"}
    BY <2>1 DEF Sideways, NotThere, StageNames
  <2>3. CommonInv' /\ Existing' = Existing /\ ReadyOnes' = ReadyOnes
    BY <1>1, <1>2, <2>1, <2>2, MovesSideways
  <2>4. style.name = "fancy" => FancyOk(graph, f, phase, Existing, ReadyOnes)
    <3>1. CASE phase = "starting"
      BY <2>2, <3>1, StylesOk, SetStageOk DEF FancyRunningSetupCommand
    <3>2. CASE phase = "running"
      BY <3>2, RunningStays DEF FancyRunningSetupCommand, WhileStarting
    <3> QED BY <1>1, <3>1, <3>2
  <2>5. view' = Show(f, SimpleReadiness(view, c), AllMilestone(view))
    BY <1>3
  <2> HIDE DEF f
  <2> QED BY <1>1, <2>3, <2>4, <2>5, ReadinessKept
<1>4. CASE /\ Moves(c, {"in setup"}, "ready")
           /\ view' = Show(g, SimpleReadiness(view, c), AllMilestone(view))
  <2>1. at[c] = "in setup" /\ at' = [at EXCEPT ![c] = "ready"]
    BY <1>4 DEF Moves
  <2>2. at[c] \notin NotThere
    BY <2>1 DEF NotThere
  <2>3. CommonInv' /\ Existing' = Existing /\ ReadyOnes' = ReadyOnes \cup {c}
    BY <1>1, <1>2, <2>1, <2>2, MovesReady
  <2>4. style.name = "fancy" => FancyOk(graph, g, phase, Existing, ReadyOnes \cup {c})
    <3>1. CASE phase = "starting"
      BY <3>1, StylesOk, MarkReadyOk DEF FancyReady
    <3>2. CASE phase = "running"
      BY <3>2, RunningStays DEF FancyReady, WhileStarting
    <3> QED BY <1>1, <3>1, <3>2
  <2>5. view' = Show(g, SimpleReadiness(view, c), AllMilestone(view))
    BY <1>4
  <2> HIDE DEF g
  <2> QED BY <1>1, <2>3, <2>4, <2>5, ReadinessKept
<1> QED BY <1>3, <1>4 DEF SetupCommands

LEMMA ExitedKeeps ==
    ASSUME DisplayInv, NEW c \in DOMAIN graph, DependencyExitedUnexpectedly(c) PROVE DisplayInv'
<1>1. /\ graph' = graph /\ style' = style /\ phase' = phase /\ tasks' = tasks
      /\ phase \in {"starting", "running", "ended", "cleaning", "network"}
      /\ at[c] = "ready" /\ at' = [at EXCEPT ![c] = "exited"]
  BY DEF DependencyExitedUnexpectedly, Unmoved, Moves
<1>2. CommonInv /\ phase' \in Phases /\ tasks' \in Nat /\ Sideways(at[c], "exited")
  BY <1>1, StylesOk DEF CommonInv, Sideways, NotThere
<1>3. CommonInv' /\ Existing' = Existing /\ ReadyOnes' = ReadyOnes
  BY <1>1, <1>2, MovesSideways
<1> DEFINE f == FancyDependencyExited(view, c)
           p == Say(view, "exited")
           q == Prefixed(view)
<1>4. view' = Show(f, p, q)
  BY DEF DependencyExitedUnexpectedly, SimpleDependencyExited, AllMilestone
<1>5. style.name = "fancy" => view' = f /\ FancyOk(graph, f, phase, Existing, ReadyOnes)
  BY <1>1, <1>4, ShowIs, StylesOk, ExitedOk
<1>6. style.name = "simple" => view' = p /\ SimpleOk(DOMAIN graph, p, phase)
  <2>1. "exited" \in Whats /\ "exited" \in Loud
    BY DEF Whats, Loud
  <2> QED BY <1>4, <2>1, ShowIs, StylesOk, SimpleSays
<1>7. style.name = "all" => view' = q /\ AllOk(DOMAIN graph, q, phase)
  BY <1>1, <1>4, ShowIs, StylesOk, AllMilestoneOk
<1> HIDE DEF f, p, q
<1> QED BY <1>1, <1>3, <1>5, <1>6, <1>7, KeptHolds DEF Kept

LEMMA RunningKeeps == ASSUME DisplayInv, RunningTaskContainer PROVE DisplayInv'
<1>1. /\ graph' = graph /\ style' = style /\ phase' = "running" /\ tasks' = tasks
      /\ phase = "starting" /\ at[TaskContainer] = "created"
      /\ at' = [at EXCEPT ![TaskContainer] = "running"]
  BY DEF RunningTaskContainer, Unmoved, Moves
<1>2. CommonInv /\ phase' \in Phases /\ tasks' \in Nat /\ TaskContainer \in DOMAIN graph
      /\ "running" \notin NotThere /\ at[TaskContainer] \notin NotThere
  BY <1>1, StylesOk, GraphIs DEF CommonInv, NotThere, Phases
<1>3. /\ CommonInv'
      /\ Existing' = IF "running" \in NotThere THEN Existing \ {TaskContainer}
                     ELSE Existing \cup {TaskContainer}
      /\ (TaskContainer \in Existing <=> at[TaskContainer] \notin NotThere)
  BY <1>1, <1>2, AtMoves
<1>4. Existing' = Existing
  BY <1>2, <1>3
<1> DEFINE f == FancyRunningTaskContainer(view, TaskContainer)
<1>5. view' = Milestone(f)
  BY DEF RunningTaskContainer
<1>6. style.name = "fancy" => FancyOk(graph, f, "running", Existing, ReadyOnes')
  BY <1>1, StylesOk, RunningOk
<1> HIDE DEF f
<1>7. /\ style.name = "fancy" => FancyOk(graph, f, phase', Existing', ReadyOnes')
      /\ phase' \in {"starting", "running"} /\ graph' = graph /\ style' = style
      /\ phase = "starting" /\ CommonInv'
  BY <1>1, <1>3, <1>4, <1>6
<1>8. view' = Milestone(f) \/ (view' = OnlyFancy(f) /\ phase' = "starting")
  BY <1>5
<1> QED BY <1>7, <1>8, MilestoneKept

LEMMA RunEndedKeeps == ASSUME DisplayInv, RunEnded PROVE DisplayInv'
<1>1. /\ graph' = graph /\ style' = style /\ phase' = "ended" /\ tasks' = tasks /\ at' = at
      /\ phase \in {"opening", "starting", "running"}
  BY DEF RunEnded, Unmoved
<1>2. CommonInv /\ phase' \in Phases /\ tasks' \in Nat
  BY <1>1, StylesOk DEF CommonInv, Phases
<1>3. CommonInv' /\ Existing' = Existing /\ ReadyOnes' = ReadyOnes
  BY <1>1, <1>2, AtStays
<1> DEFINE f == FancyRunEnded(view)
           q == AllRunEnded(view)
<1>4. view' = Show(f, view, q)
  BY DEF RunEnded
<1>5. style.name = "fancy" => view' = f /\ FancyOk(graph, f, "ended", Existing, ReadyOnes)
  BY <1>1, <1>4, ShowIs, StylesOk, RunEndedOk
<1>6. style.name = "simple" => view' = view /\ SimpleOk(DOMAIN graph, view, "ended")
  BY <1>1, <1>4, ShowIs, StylesOk DEF SimpleOk
<1>7. style.name = "all" => view' = q /\ AllOk(DOMAIN graph, q, "ended")
  BY <1>1, <1>4, ShowIs, StylesOk, AllEnds
<1> HIDE DEF f, q
<1> QED BY <1>1, <1>3, <1>5, <1>6, <1>7, KeptHolds DEF Kept

LEMMA CleanupStartingKeeps == ASSUME DisplayInv, CleanupStarting PROVE DisplayInv'
<1>1. /\ graph' = graph /\ style' = style /\ phase' = "cleaning" /\ tasks' = tasks /\ at' = at
      /\ phase = "ended"
  BY DEF CleanupStarting, Unmoved
<1>2. CommonInv /\ phase' \in Phases /\ tasks' \in Nat
  BY <1>1, StylesOk DEF CommonInv, Phases
<1>3. CommonInv' /\ Existing' = Existing /\ ReadyOnes' = ReadyOnes
  BY <1>1, <1>2, AtStays
<1> DEFINE f == FancyCleanupStarting(view)
           p == SimpleCleanupStarting(view)
           q == AllCleanupStarting(view)
<1>4. view' = Show(f, p, q)
  BY DEF CleanupStarting
<1>5. style.name = "fancy" => view' = f /\ FancyOk(graph, f, "cleaning", Existing, ReadyOnes)
  BY <1>1, <1>4, ShowIs, StylesOk, CleanupStartingOk
<1>6. style.name = "simple" => view' = p /\ SimpleOk(DOMAIN graph, p, "cleaning")
  BY <1>1, <1>4, ShowIs, StylesOk, SimpleCleans
<1>7. style.name = "all" => view' = q /\ AllOk(DOMAIN graph, q, "cleaning")
  BY <1>1, <1>4, ShowIs, StylesOk, AllCleans
<1> HIDE DEF f, p, q
<1> QED BY <1>1, <1>3, <1>5, <1>6, <1>7, KeptHolds DEF Kept

LEMMA RemovedKeeps ==
    ASSUME DisplayInv, NEW c \in DOMAIN graph, ContainerRemoved(c) PROVE DisplayInv'
<1>1. /\ graph' = graph /\ style' = style /\ phase' = "cleaning" /\ tasks' = tasks
      /\ phase = "cleaning" /\ at' = [at EXCEPT ![c] = "removed"]
  BY DEF ContainerRemoved, Unmoved
<1>2. CommonInv /\ phase' \in Phases /\ tasks' \in Nat /\ "removed" \in NotThere
  BY <1>1, StylesOk DEF CommonInv, NotThere
<1>3. /\ CommonInv'
      /\ Existing' = IF "removed" \in NotThere THEN Existing \ {c} ELSE Existing \cup {c}
  BY <1>1, <1>2, AtMoves
<1>4. Existing' = Existing \ {c}
  BY <1>2, <1>3
<1> DEFINE f == FancyContainerRemoved(view, c)
           q == Prefixed(view)
<1>5. view' = Show(f, view, q)
  BY DEF ContainerRemoved, AllMilestone
<1>6. style.name = "fancy" => view' = f
                              /\ FancyOk(graph, f, "cleaning", Existing \ {c}, ReadyOnes')
  BY <1>1, <1>5, ShowIs, StylesOk, RemovedOk
<1>7. style.name = "simple" => view' = view /\ SimpleOk(DOMAIN graph, view, "cleaning")
  BY <1>1, <1>5, ShowIs, StylesOk
<1>8. style.name = "all" => view' = q /\ AllOk(DOMAIN graph, q, "cleaning")
  BY <1>1, <1>5, ShowIs, StylesOk, AllMilestoneOk
<1>9. CommonInv'
  BY <1>3
<1> HIDE DEF f, q
<1> QED BY <1>1, <1>4, <1>6, <1>7, <1>8, <1>9, KeptHolds DEF Kept

LEMMA NetworkKeeps == ASSUME DisplayInv, RemovingNetwork PROVE DisplayInv'
<1>1. /\ graph' = graph /\ style' = style /\ phase' = "network" /\ tasks' = tasks /\ at' = at
      /\ phase = "cleaning"
  BY DEF RemovingNetwork, Unmoved
<1>2. CommonInv /\ phase' \in Phases /\ tasks' \in Nat
  BY <1>1, StylesOk DEF CommonInv, Phases
<1>3. CommonInv' /\ Existing' = Existing /\ ReadyOnes' = ReadyOnes
  BY <1>1, <1>2, AtStays
<1> DEFINE f == FancyRemovingNetwork(view)
           q == Prefixed(view)
<1>4. view' = Show(f, view, q)
  BY DEF RemovingNetwork, AllMilestone
<1>5. style.name = "fancy" => view' = f /\ FancyOk(graph, f, "network", Existing, ReadyOnes)
  BY <1>1, <1>4, ShowIs, StylesOk, NetworkOk
<1>6. style.name = "simple" => view' = view /\ SimpleOk(DOMAIN graph, view, "network")
  BY <1>1, <1>4, ShowIs, StylesOk DEF SimpleOk
<1>7. style.name = "all" => view' = q /\ AllOk(DOMAIN graph, q, "network")
  BY <1>1, <1>4, ShowIs, StylesOk, AllMilestoneOk
<1> HIDE DEF f, q
<1> QED BY <1>1, <1>3, <1>5, <1>6, <1>7, KeptHolds DEF Kept

LEMMA FinishedKeeps == ASSUME DisplayInv, CleanupFinished PROVE DisplayInv'
<1>1. /\ graph' = graph /\ style' = style /\ phase' = "cleaned" /\ tasks' = tasks /\ at' = at
      /\ phase \in {"cleaning", "network"}
  BY DEF CleanupFinished, Unmoved
<1>2. CommonInv /\ phase' \in Phases /\ tasks' \in Nat
  BY <1>1, StylesOk DEF CommonInv, Phases
<1>3. CommonInv' /\ Existing' = Existing /\ ReadyOnes' = ReadyOnes
  BY <1>1, <1>2, AtStays
<1> DEFINE f == FancyCleanupFinished(view)
<1>4. view' = Show(f, view, view)
  BY DEF CleanupFinished, OnlyFancy
<1>5. style.name = "fancy" => view' = f /\ FancyOk(graph, f, "cleaned", Existing, ReadyOnes)
  BY <1>1, <1>4, ShowIs, StylesOk, FinishedOk
<1>6. style.name = "simple" => view' = view /\ SimpleOk(DOMAIN graph, view, "cleaned")
  BY <1>1, <1>4, ShowIs, StylesOk DEF SimpleOk
<1>7. style.name = "all" => view' = view /\ AllOk(DOMAIN graph, view, "cleaned")
  BY <1>1, <1>4, ShowIs, StylesOk DEF AllOk
<1> HIDE DEF f
<1> QED BY <1>1, <1>3, <1>5, <1>6, <1>7, KeptHolds DEF Kept

LEMMA SummaryKeeps == ASSUME DisplayInv, Summary PROVE DisplayInv'
<1>1. /\ graph' = graph /\ style' = style /\ phase' = "between" /\ tasks' = tasks /\ at' = at
      /\ phase \in {"ended", "cleaned"}
  BY DEF Summary, Unmoved
<1>2. CommonInv /\ phase' \in Phases /\ tasks' \in Nat
  BY <1>1, StylesOk DEF CommonInv, Phases
<1>3. CommonInv' /\ Existing' = Existing /\ ReadyOnes' = ReadyOnes
  BY <1>1, <1>2, AtStays
<1> DEFINE f == FancySummary(view)
           p == Say(view, "summary")
           q == Prefixed(view)
<1>4. view' = Show(f, p, q)
  BY DEF Summary, SimpleSummary, AllSummary
<1>5. style.name = "fancy" => view' = f /\ FancyOk(graph, f, "between", Existing, ReadyOnes)
  BY <1>1, <1>4, ShowIs, StylesOk, SummaryOk
<1>6. style.name = "simple" => view' = p /\ SimpleOk(DOMAIN graph, p, "between")
  <2>1. "summary" \in Whats /\ "summary" \in Loud
    BY DEF Whats, Loud
  <2> QED BY <1>4, <2>1, ShowIs, StylesOk, SimpleSays
<1>7. style.name = "all" => view' = q /\ AllOk(DOMAIN graph, q, "between")
  BY <1>1, <1>4, ShowIs, StylesOk, AllMilestoneOk
<1> HIDE DEF f, p, q
<1> QED BY <1>1, <1>3, <1>5, <1>6, <1>7, KeptHolds DEF Kept

LEMMA StepKeeps == ASSUME DisplayInv, [DisplayStep]_displayVars PROVE DisplayInv'
<1>1. CASE UNCHANGED displayVars
  <2>1. /\ graph' = graph /\ style' = style /\ phase' = phase /\ tasks' = tasks /\ at' = at
        /\ view' = view
    BY <1>1 DEF displayVars
  <2>2. CommonInv /\ phase' \in Phases /\ tasks' \in Nat
    BY <2>1, StylesOk DEF CommonInv
  <2>3. CommonInv' /\ Existing' = Existing /\ ReadyOnes' = ReadyOnes
    BY <2>1, <2>2, AtStays
  <2> QED BY <2>1, <2>3, StylesOk, KeptHolds DEF Kept
<1>2. CASE \E c \in DOMAIN graph : ContainerStep(c)
  <2>1. PICK c \in DOMAIN graph : ContainerStep(c)
    BY <1>2
  <2> QED
    BY <2>1, ImageResolvedKeeps, CreatingKeeps, CreatedKeeps, UnpreparedKeeps,
       DependencyStartingKeeps,
       DependencyStartedKeeps, BecameHealthyKeeps, CompletedKeeps, SetupKeeps, ExitedKeeps,
       RemovedKeeps, DependencyOutputKeeps
       DEF ContainerStep
<1>3. CASE \/ Resize \/ TaskOutput \/ StderrClass \/ TaskStarting \/ PrerequisitesOnly
           \/ TaskGraphResolved \/ ImagePull \/ ImageBuild
  BY <1>3, ResizeKeeps, TaskOutputKeeps, StderrKeeps, TaskStartingKeeps, PrerequisitesKeeps,
     GraphResolvedKeeps, ImagePullKeeps, ImageBuildKeeps
<1>4. CASE \/ RunningTaskContainer \/ RunEnded \/ CleanupStarting \/ RemovingNetwork
           \/ CleanupFinished \/ Summary
  BY <1>4, RunningKeeps, RunEndedKeeps, CleanupStartingKeeps, NetworkKeeps, FinishedKeeps,
     SummaryKeeps
<1> QED BY <1>1, <1>2, <1>3, <1>4 DEF DisplayStep

----------------------------------------------------------------------------
(* What the displays promise.                                              *)

LEMMA RowsFollow == ASSUME DisplayInv PROVE RowsKeepToThemselves
<1>1. CASE style.name = "fancy"
  <2>1. ~view.screen.harm /\ view.screen.glued \subseteq {"stderr", "exited"}
    BY <1>1, StylesOk DEF FancyOk
  <2> QED BY <1>1, <2>1 DEF RowsKeepToThemselves
<1>2. CASE style.name = "simple"
  <2>1. ~view.screen.harm
        /\ view.screen.glued \subseteq {"stderr", "exited", "cleanup", "summary"}
    BY <1>2, StylesOk DEF SimpleOk
  <2> QED BY <1>2, <2>1 DEF RowsKeepToThemselves
<1>3. CASE style.name = "all"
  <2>1. /\ ~view.screen.harm /\ view.screen.glued = {} /\ ~view.early
        /\ view.heard \subseteq {TaskContainer}
    BY <1>3, StylesOk DEF AllOk, AllStates
  <2> QED BY <1>3, <2>1 DEF RowsKeepToThemselves
<1> QED BY <1>1, <1>2, <1>3, StylesOk

LEMMA ShownFollows == ASSUME DisplayInv PROVE ShownIsTrue
<1> SUFFICES ASSUME style.name = "fancy" PROVE ShownIsTrue
  BY DEF ShownIsTrue
<1>1. FancyOk(graph, view, phase, Existing, ReadyOnes) /\ phase \in Phases
  BY StylesOk DEF CommonInv
<1>2. ASSUME view.keep_updating, NEW i \in DOMAIN view.lines
      PROVE  LET c == view.lines[i]
             IN /\ view.stage[c].at = "waiting" =>
                      view.stage[c].waits = {d \in ToSet(graph[c]) : ~Ready(d)}
                /\ ToSet(graph[c]) \subseteq {view.lines[j] : j \in 1..i - 1}
  <2>1. view.lines # <<>>
    BY <1>2
  <2>2. phase = "starting"
    BY <1>1, <1>2, <2>1 DEF FancyOk
  <2>3. Starting(graph, view) /\ view.ready = ReadyOnes
    BY <1>1, <2>2 DEF FancyOk
  <2>4. view.lines \in Seq(DOMAIN graph) /\ Ordered(graph, view.lines)
        /\ WaitsFor(graph, view.stage, ReadyOnes)
    BY <2>3 DEF Starting, WaitsForTheRest, FancyStates
  <2> DEFINE c == view.lines[i]
  <2>5. c \in DOMAIN graph /\ graph[c] \in Seq(DOMAIN graph)
    BY <1>2, <2>4, StylesOk, GraphIs
  <2> HIDE DEF c
  <2>6. ToSet(graph[c]) \subseteq DOMAIN graph
    BY <2>5 DEF ToSet
  <2>7. ToSet(graph[c]) \ ReadyOnes = {d \in ToSet(graph[c]) : ~Ready(d)}
    BY <2>6 DEF ReadyOnes
  <2>8. view.stage[c].at = "waiting" => view.stage[c].waits = ToSet(graph[c]) \ ReadyOnes
    BY <2>4, <2>5 DEF WaitsFor
  <2>9. ToSet(graph[view.lines[i]]) \subseteq {view.lines[j] : j \in 1..i - 1}
    BY <1>2, <2>4 DEF Ordered
  <2> QED BY <2>7, <2>8, <2>9 DEF c
<1>3. ASSUME view.cleanup_live
      PROVE  LET last == view.screen.rows[Len(view.screen.rows)]
                 left == {c \in DOMAIN graph : Announced(c)}
             IN /\ last.kind = "count"
                /\ left # {} => last.says = left
  <2>1. phase \in {"cleaning", "network"}
    BY <1>1, <1>3 DEF FancyOk
  <2>2. CountAtBottom(view) /\ view.created = Existing
    BY <1>1, <2>1 DEF FancyOk
  <2> QED BY <2>2 DEF CountAtBottom, CountRow, CleanupText, Existing
<1>4. phase \in {"cleaned", "between"} => ~view.cleanup_shown
  BY <1>1 DEF FancyOk
<1> QED BY <1>2, <1>3, <1>4 DEF ShownIsTrue

\* However lines on stderr, late exits and resizes fall between its repaints and however
\* the terminal reflows, the live display never moves the cursor up over a row that is not
\* its own, nor short of its own first row unless the terminal, narrowed and widened again,
\* has left one of them wrapped; and no display writes
\* on a row the task container has left unended what belongs on one of its own: whatever
\* the graph of the task, the widths and the number of tasks (repaint_startup,
\* repaint_cleanup, clear_cleanup_line, pay_separator, flush_preamble_if_pending).
THEOREM RowsKeepHolds == DisplaySpec => []RowsKeepToThemselves
<1>1. DisplayInit => DisplayInv
  BY InitHolds
<1>2. DisplayInv /\ [DisplayStep]_displayVars => DisplayInv'
  BY StepKeeps
<1>3. DisplayInv => RowsKeepToThemselves
  BY RowsFollow
<1> QED BY <1>1, <1>2, <1>3, PTL DEF DisplaySpec

\* What the live display says is so: a line that waits names just the dependencies not yet
\* ready, and stands below them; while cleanup goes on the last row counts just the
\* containers there are that were announced, late or not (waiting_for, mark_ready,
\* dependency_post_order, repaint_cleanup).
THEOREM ShownIsTrueHolds == DisplaySpec => []ShownIsTrue
<1>1. DisplayInit => DisplayInv
  BY InitHolds
<1>2. DisplayInv /\ [DisplayStep]_displayVars => DisplayInv'
  BY StepKeeps
<1>3. DisplayInv => ShownIsTrue
  BY ShownFollows
<1> QED BY <1>1, <1>2, <1>3, PTL DEF DisplaySpec
=============================================================================
