------------------------- MODULE TaskChainProofs -------------------------
(***************************************************************************)
(* Theorems about a named task and its prerequisites, for every project,   *)
(* every order and repetition of its lists, every set of steps that fail   *)
(* and any number of signals.                                              *)
(***************************************************************************)
EXTENDS TaskChain, SequenceTheorems, TLAPS

----------------------------------------------------------------------------
(* What a task needs, as a least closed set.                               *)

\* S holds what each of its members lists.
ListsClosed(config, S) == \A n \in S : Lists(config, n) \subseteq S

\* A task lists only tasks that have a name.
LEMMA ListsAreNames ==
    ASSUME NEW config \in Projects, NEW t
    PROVE  Lists(config, t) \subseteq Names
<1>1. CASE t \in DOMAIN config.lists
  <2>1. Expanded(config, t) \in Seq(Names)
    BY <1>1, ChainAssumption
  <2>2. ToSet(Expanded(config, t)) \subseteq Names
    BY <2>1 DEF ToSet
  <2> QED
    BY <2>2 DEF Lists
<1> QED
  BY <1>1 DEF Lists

\* What t needs is named, holds what t lists, is closed, and is in every closed
\* set that holds what t lists.
LEMMA NeedsLeast ==
    ASSUME NEW config \in Projects, NEW t \in Names
    PROVE  /\ NeedsIn(config)[t] \subseteq Names
           /\ Lists(config, t) \subseteq NeedsIn(config)[t]
           /\ ListsClosed(config, NeedsIn(config)[t])
           /\ \A S \in SUBSET Names :
                 ListsClosed(config, S) /\ Lists(config, t) \subseteq S
                    => NeedsIn(config)[t] \subseteq S
<1> DEFINE lists == {[of |-> s, names |-> Lists(config, s)] : s \in Names}
           closed == {S \in SUBSET Names : \A l \in lists : l.of \in S => l.names \subseteq S}
           N == {n \in Names : \A S \in closed : Lists(config, t) \subseteq S => n \in S}
<1>1. NeedsIn(config)[t] = N
  BY DEF NeedsIn
<1>2. ASSUME NEW S \in SUBSET Names
      PROVE  S \in closed <=> ListsClosed(config, S)
  <2>1. \A s \in Names : [of |-> s, names |-> Lists(config, s)] \in lists
    OBVIOUS
  <2>2. ASSUME S \in closed, NEW s \in S PROVE Lists(config, s) \subseteq S
    <3> DEFINE l == [of |-> s, names |-> Lists(config, s)]
    <3>1. l \in lists /\ l.of = s /\ l.names = Lists(config, s)
      BY <2>1
    <3> QED
      BY <2>2, <3>1
  <2>3. ASSUME ListsClosed(config, S), NEW l \in lists, l.of \in S
        PROVE  l.names \subseteq S
    <3>1. PICK s \in Names : l = [of |-> s, names |-> Lists(config, s)]
      OBVIOUS
    <3> QED
      BY <2>3, <3>1 DEF ListsClosed
  <2> QED
    BY <2>2, <2>3 DEF ListsClosed
<1> HIDE DEF closed
<1>3. \A S \in SUBSET Names :
         ListsClosed(config, S) /\ Lists(config, t) \subseteq S => N \subseteq S
  BY <1>2
<1>4. Lists(config, t) \subseteq N
  BY ListsAreNames
<1>5. ASSUME NEW n \in N, NEW m \in Lists(config, n) PROVE m \in N
  <2>1. m \in Names
    BY ListsAreNames
  <2>2. ASSUME NEW S \in closed, Lists(config, t) \subseteq S PROVE m \in S
    <3>1. S \in SUBSET Names
      BY DEF closed
    <3>2. n \in S /\ ListsClosed(config, S)
      BY <1>2, <2>2, <3>1
    <3> QED
      BY <3>2 DEF ListsClosed
  <2> QED
    BY <2>1, <2>2
<1> QED
  BY <1>1, <1>3, <1>4, <1>5 DEF ListsClosed

\* What a task needs needs nothing more.
LEMMA NeedsTransitive ==
    ASSUME NEW config \in Projects, NEW t \in Names,
           NEW n \in NeedsIn(config)[t]
    PROVE  NeedsIn(config)[n] \subseteq NeedsIn(config)[t]
<1>1. n \in Names /\ NeedsIn(config)[t] \in SUBSET Names
  BY NeedsLeast
<1>2. Lists(config, n) \subseteq NeedsIn(config)[t]
  BY NeedsLeast DEF ListsClosed
<1> QED
  BY <1>1, <1>2, NeedsLeast

\* A closed set that has t has all that t needs.
LEMMA NeedsWithin ==
    ASSUME NEW config \in Projects, NEW t \in Names, NEW S \in SUBSET Names,
           ListsClosed(config, S), Lists(config, t) \subseteq S
    PROVE  NeedsIn(config)[t] \subseteq S
BY NeedsLeast

----------------------------------------------------------------------------
(* The path of a depth first walk: check_prerequisites keeps one, and the  *)
(* tasks in progress are one.  `done` is what has been left behind.        *)

\* The path starts at the named task, and each task on it is needed by those
\* above it and is none of them.
Descends(config, stack) ==
    /\ \A i \in 1..Len(stack) : stack[i].task \in Names
    /\ stack # <<>> => stack[1].task = Requested
    /\ \A i, j \in 1..Len(stack) : i < j =>
          /\ stack[j].task # stack[i].task
          /\ stack[j].task \in NeedsIn(config)[stack[i].task]

\* What a task on the path lists is done, left to do, or next on the path.
Covered(config, stack, done) ==
    \A i \in 1..Len(stack) :
       /\ ToSet(stack[i].todo) \subseteq Lists(config, stack[i].task)
       /\ \A n \in Lists(config, stack[i].task) :
             n \in done \/ n \in ToSet(stack[i].todo)
                \/ (i < Len(stack) /\ n = stack[i + 1].task)

\* What is done is not on the path, and has all that it lists.
Behind(config, stack, done) ==
    /\ \A i \in 1..Len(stack) : stack[i].task \notin done
    /\ done \subseteq Names
    /\ ListsClosed(config, done)

PathOK(config, stack, done) ==
    Descends(config, stack) /\ Covered(config, stack, done)
       /\ Behind(config, stack, done)

\* The head of a sequence is in its set, and the rest of it is in the tail.
LEMMA HeadOrTail ==
    ASSUME NEW S, NEW s \in Seq(S), s # <<>>
    PROVE  /\ Head(s) \in ToSet(s)
           /\ ToSet(Tail(s)) \subseteq ToSet(s)
           /\ \A n \in ToSet(s) : n = Head(s) \/ n \in ToSet(Tail(s))
<1>1. /\ Len(s) \in Nat \ {0} /\ DOMAIN s = 1..Len(s) /\ Head(s) = s[1]
      /\ Tail(s) \in Seq(S) /\ Len(Tail(s)) = Len(s) - 1
      /\ \A i \in 1..Len(Tail(s)) : Tail(s)[i] = s[i + 1]
  BY HeadTailProperties, EmptySeq, LenProperties
<1>2. DOMAIN Tail(s) = 1..(Len(s) - 1)
  BY <1>1, LenProperties
<1>3. ASSUME NEW i \in 1..Len(s) PROVE s[i] = Head(s) \/ s[i] \in ToSet(Tail(s))
  <2>1. CASE i = 1
    BY <1>1, <2>1
  <2>2. CASE i # 1
    <3>1. i - 1 \in 1..(Len(s) - 1) /\ (i - 1) + 1 = i
      BY <1>1, <2>2
    <3>2. Tail(s)[i - 1] = s[i]
      BY <1>1, <3>1
    <3> QED
      BY <1>2, <3>1, <3>2 DEF ToSet
  <2> QED
    BY <2>1, <2>2
<1>4. ASSUME NEW i \in 1..(Len(s) - 1) PROVE Tail(s)[i] \in ToSet(s)
  <2>1. i + 1 \in 1..Len(s) /\ Tail(s)[i] = s[i + 1]
    BY <1>1
  <2> QED
    BY <1>1, <2>1 DEF ToSet
<1>5. 1 \in 1..Len(s)
  BY <1>1
<1>6. \A n : n \in ToSet(s) <=> \E i \in 1..Len(s) : n = s[i]
  BY <1>1 DEF ToSet
<1>7. \A n : n \in ToSet(Tail(s)) <=> \E i \in 1..(Len(s) - 1) : n = Tail(s)[i]
  BY <1>2 DEF ToSet
<1> QED
  BY <1>1, <1>3, <1>4, <1>5, <1>6, <1>7

\* Every task on the path is the named one or one it needs.
LEMMA PathInvolved ==
    ASSUME NEW config \in Projects, NEW R, NEW stack \in Seq(R),
           Descends(config, stack), NEW i \in 1..Len(stack)
    PROVE  stack[i].task \in {Requested} \cup NeedsIn(config)[Requested]
<1>1. Len(stack) \in Nat /\ 1 \in 1..Len(stack) /\ stack # <<>>
  BY LenProperties, EmptySeq
<1> QED
  BY <1>1 DEF Descends

\* The tasks at or above i are those of the path, or are needed.
LEMMA NeededFromAbove ==
    ASSUME NEW config \in Projects, NEW R, NEW stack \in Seq(R),
           Descends(config, stack), NEW i \in 1..Len(stack),
           NEW n \in Lists(config, stack[Len(stack)].task)
    PROVE  n \in NeedsIn(config)[stack[i].task]
<1>1. Len(stack) \in Nat /\ Len(stack) \in 1..Len(stack) /\ i <= Len(stack)
  BY LenProperties
<1>2. stack[i].task \in Names /\ stack[Len(stack)].task \in Names
  BY <1>1 DEF Descends
<1>3. n \in NeedsIn(config)[stack[Len(stack)].task]
  BY <1>2, NeedsLeast
<1>4. CASE i = Len(stack)
  BY <1>3, <1>4
<1>5. CASE i < Len(stack)
  <2>1. stack[Len(stack)].task \in NeedsIn(config)[stack[i].task]
    BY <1>1, <1>5 DEF Descends
  <2> QED
    BY <1>2, <1>3, <2>1, NeedsTransitive
<1> QED
  BY <1>1, <1>4, <1>5

\* An empty path.
LEMMA PathEmpty ==
    ASSUME NEW config, NEW done, done \subseteq Names, ListsClosed(config, done)
    PROVE  PathOK(config, <<>>, done)
BY DEF PathOK, Descends, Covered, Behind

\* The named task is stepped into.
LEMMA PathStart ==
    ASSUME NEW config \in Projects, NEW R, NEW stack \in Seq(R), NEW done,
           done \subseteq Names, ListsClosed(config, done),
           Len(stack) = 1, stack[1].task = Requested, Requested \notin done,
           ToSet(stack[1].todo) = Lists(config, Requested)
    PROVE  PathOK(config, stack, done)
<1>1. Requested \in Names
  BY ChainAssumption
<1>2. \A i \in 1..Len(stack) : i = 1
  OBVIOUS
<1>3. Descends(config, stack)
  BY <1>1, <1>2 DEF Descends
<1>4. Covered(config, stack, done)
  BY <1>2 DEF Covered
<1>5. Behind(config, stack, done)
  BY <1>2 DEF Behind
<1> QED
  BY <1>3, <1>4, <1>5 DEF PathOK

\* The next entry of the innermost list is done already, and is passed over.
LEMMA PathAdvance ==
    ASSUME NEW config \in Projects, NEW R, NEW stack \in Seq(R), NEW done,
           stack # <<>>, PathOK(config, stack, done),
           NEW stack2 \in Seq(R), Len(stack2) = Len(stack),
           \A i \in 1..Len(stack) : stack2[i].task = stack[i].task,
           \A i \in 1..Len(stack) : i < Len(stack) => stack2[i].todo = stack[i].todo,
           NEW todo \in Seq(Names), todo = stack[Len(stack)].todo, todo # <<>>,
           stack2[Len(stack)].todo = Tail(todo),
           Head(todo) \in done
    PROVE  PathOK(config, stack2, done)
<1>1. Len(stack) \in Nat \ {0} /\ Len(stack) \in 1..Len(stack) /\ stack2 # <<>>
  BY EmptySeq
<1>2. Descends(config, stack2)
  BY <1>1 DEF PathOK, Descends
<1>3. ASSUME NEW i \in 1..Len(stack)
      PROVE  /\ ToSet(stack2[i].todo) \subseteq Lists(config, stack2[i].task)
             /\ \A n \in Lists(config, stack2[i].task) :
                   n \in done \/ n \in ToSet(stack2[i].todo)
                      \/ (i < Len(stack2) /\ n = stack2[i + 1].task)
  <2> DEFINE list == Lists(config, stack[i].task)
  <2>1. /\ ToSet(stack[i].todo) \subseteq list
        /\ \A n \in list : n \in done \/ n \in ToSet(stack[i].todo)
                              \/ (i < Len(stack) /\ n = stack[i + 1].task)
    BY DEF PathOK, Covered
  <2>2. stack2[i].task = stack[i].task
    OBVIOUS
  <2> HIDE DEF list
  <2>3. CASE i = Len(stack)
    <3>1. /\ ToSet(Tail(todo)) \subseteq ToSet(todo)
          /\ \A n \in ToSet(todo) : n = Head(todo) \/ n \in ToSet(Tail(todo))
      BY HeadOrTail
    <3>2. stack[i].todo = todo /\ stack2[i].todo = Tail(todo) /\ ~(i < Len(stack))
      BY <1>1, <2>3
    <3>3. /\ ToSet(stack2[i].todo) \subseteq list
          /\ \A n \in list : n \in done \/ n \in ToSet(stack2[i].todo)
      BY <2>1, <3>1, <3>2
    <3> QED
      BY <2>2, <3>3 DEF list
  <2>4. CASE i # Len(stack)
    <3>1. i < Len(stack) /\ i + 1 \in 1..Len(stack)
      BY <1>1, <2>4
    <3>2. stack2[i].todo = stack[i].todo /\ stack2[i + 1].task = stack[i + 1].task
      BY <3>1
    <3> QED
      BY <2>1, <2>2, <3>1, <3>2 DEF list
  <2> QED
    BY <2>3, <2>4
<1>4. Covered(config, stack2, done)
  BY <1>3 DEF Covered
<1>5. Behind(config, stack2, done)
  BY DEF PathOK, Behind
<1> QED
  BY <1>2, <1>4, <1>5 DEF PathOK


\* The next entry of the innermost list is stepped into.
LEMMA PathDescend ==
    ASSUME NEW config \in Projects, NEW R, NEW stack \in Seq(R), NEW done,
           stack # <<>>, PathOK(config, stack, done),
           NEW stack2 \in Seq(R), Len(stack2) = Len(stack) + 1,
           \A i \in 1..Len(stack) : stack2[i].task = stack[i].task,
           \A i \in 1..Len(stack) : i < Len(stack) => stack2[i].todo = stack[i].todo,
           NEW todo \in Seq(Names), todo = stack[Len(stack)].todo, todo # <<>>,
           stack2[Len(stack)].todo = Tail(todo),
           stack2[Len(stack) + 1].task = Head(todo),
           ToSet(stack2[Len(stack) + 1].todo) = Lists(config, Head(todo)),
           Head(todo) \notin done,
           \A i \in 1..Len(stack) : stack[i].task # Head(todo)
    PROVE  PathOK(config, stack2, done)
<1> DEFINE len == Len(stack)
           t == Head(todo)
<1>1. len \in Nat \ {0} /\ len \in 1..len /\ len + 1 \in 1..Len(stack2) /\ stack2 # <<>>
  BY EmptySeq
<1>2. /\ t \in Names
      /\ ToSet(Tail(todo)) \subseteq ToSet(todo)
      /\ \A n \in ToSet(todo) : n = t \/ n \in ToSet(Tail(todo))
      /\ t \in ToSet(todo)
  BY HeadOrTail, HeadTailProperties
<1>3. t \in Lists(config, stack[len].task)
  BY <1>1, <1>2 DEF PathOK, Covered
<1>4. \A i \in 1..Len(stack2) : i \in 1..len \/ i = len + 1
  BY <1>1
<1>5. Descends(config, stack2)
  <2>1. Descends(config, stack)
    BY DEF PathOK
  <2>2. \A i \in 1..Len(stack2) : stack2[i].task \in Names
    BY <1>2, <1>4, <2>1 DEF Descends
  <2>3. stack2[1].task = Requested
    BY <1>1, <2>1 DEF Descends
  <2>4. ASSUME NEW i \in 1..Len(stack2), NEW j \in 1..Len(stack2), i < j
        PROVE  /\ stack2[j].task # stack2[i].task
               /\ stack2[j].task \in NeedsIn(config)[stack2[i].task]
    <3>1. i \in 1..len
      BY <1>1, <2>4
    <3>2. CASE j \in 1..len
      BY <2>1, <2>4, <3>1, <3>2 DEF Descends
    <3>3. CASE j = len + 1
      <4>1. stack2[j].task = t /\ stack2[i].task = stack[i].task
        BY <3>1, <3>3
      <4>2. t \in NeedsIn(config)[stack[i].task]
        BY <1>3, <2>1, <3>1, NeededFromAbove
      <4> QED
        BY <3>1, <4>1, <4>2
    <3> QED
      BY <1>4, <3>2, <3>3
  <2> QED
    BY <2>2, <2>3, <2>4 DEF Descends
<1>6. ASSUME NEW i \in 1..Len(stack2)
      PROVE  /\ ToSet(stack2[i].todo) \subseteq Lists(config, stack2[i].task)
             /\ \A n \in Lists(config, stack2[i].task) :
                   n \in done \/ n \in ToSet(stack2[i].todo)
                      \/ (i < Len(stack2) /\ n = stack2[i + 1].task)
  <2>1. CASE i = len + 1
    BY <2>1
  <2>2. CASE i \in 1..len
    <3> DEFINE list == Lists(config, stack[i].task)
    <3>1. /\ ToSet(stack[i].todo) \subseteq list
          /\ \A n \in list : n \in done \/ n \in ToSet(stack[i].todo)
                                \/ (i < Len(stack) /\ n = stack[i + 1].task)
      BY <2>2 DEF PathOK, Covered
    <3>2. stack2[i].task = stack[i].task /\ i < Len(stack2)
      BY <1>1, <2>2
    <3> HIDE DEF list
    <3>3. CASE i = len
      <4>1. /\ stack[i].todo = todo /\ stack2[i].todo = Tail(todo)
            /\ ~(i < Len(stack)) /\ stack2[i + 1].task = t
        BY <1>1, <3>3
      <4>2. /\ ToSet(stack2[i].todo) \subseteq list
            /\ \A n \in list : n \in done \/ n \in ToSet(stack2[i].todo)
                                  \/ n = stack2[i + 1].task
        BY <1>2, <3>1, <4>1
      <4> QED
        BY <3>2, <4>2 DEF list
    <3>4. CASE i # len
      <4>1. i < Len(stack) /\ i + 1 \in 1..Len(stack)
        BY <1>1, <2>2, <3>4
      <4>2. stack2[i].todo = stack[i].todo /\ stack2[i + 1].task = stack[i + 1].task
        BY <2>2, <4>1
      <4> QED
        BY <3>1, <3>2, <4>1, <4>2 DEF list
    <3> QED
      BY <3>3, <3>4
  <2> QED
    BY <1>4, <2>1, <2>2
<1>7. Covered(config, stack2, done)
  BY <1>6 DEF Covered
<1>8. Behind(config, stack2, done)
  BY <1>4 DEF PathOK, Behind
<1> QED
  BY <1>5, <1>7, <1>8 DEF PathOK

\* The innermost list is at its end: all its task needs is done, and so is it.
LEMMA PathReturn ==
    ASSUME NEW config \in Projects, NEW R, NEW stack \in Seq(R), NEW done,
           stack # <<>>, PathOK(config, stack, done),
           stack[Len(stack)].todo = <<>>,
           NEW stack2 \in Seq(R), Len(stack2) = Len(stack) - 1,
           \A i \in 1..Len(stack2) : stack2[i] = stack[i]
    PROVE  /\ NeedsIn(config)[stack[Len(stack)].task] \subseteq done
           /\ PathOK(config, stack2, done \cup {stack[Len(stack)].task})
<1> DEFINE len == Len(stack)
           t == stack[len].task
           after == done \cup {t}
<1>1. len \in Nat \ {0} /\ len \in 1..len
  BY EmptySeq
<1>2. ToSet(stack[len].todo) = {}
  BY DEF ToSet
<1>3. Lists(config, t) \subseteq done
  BY <1>1, <1>2 DEF PathOK, Covered
<1>4. t \in Names /\ done \in SUBSET Names /\ ListsClosed(config, done)
  BY <1>1 DEF PathOK, Descends, Behind
<1>5. NeedsIn(config)[t] \subseteq done
  BY <1>3, <1>4, NeedsWithin
<1>6. \A i \in 1..Len(stack2) : i \in 1..len /\ i < len
  BY <1>1
<1>7. Descends(config, stack2)
  <2>1. stack2 # <<>> => 1 \in 1..Len(stack2)
    BY EmptySeq
  <2> QED
    BY <1>1, <1>6, <2>1 DEF PathOK, Descends
<1>8. ASSUME NEW i \in 1..Len(stack2)
      PROVE  /\ ToSet(stack2[i].todo) \subseteq Lists(config, stack2[i].task)
             /\ \A n \in Lists(config, stack2[i].task) :
                   n \in after \/ n \in ToSet(stack2[i].todo)
                      \/ (i < Len(stack2) /\ n = stack2[i + 1].task)
  <2> DEFINE list == Lists(config, stack[i].task)
  <2>1. /\ ToSet(stack[i].todo) \subseteq list
        /\ \A n \in list : n \in done \/ n \in ToSet(stack[i].todo)
                              \/ (i < Len(stack) /\ n = stack[i + 1].task)
    BY <1>6 DEF PathOK, Covered
  <2>2. stack2[i] = stack[i]
    OBVIOUS
  <2>3. i + 1 = len \/ (i < Len(stack2) /\ stack2[i + 1] = stack[i + 1])
    BY <1>1
  <2> QED
    BY <2>1, <2>2, <2>3
<1>9. Covered(config, stack2, after)
  BY <1>8 DEF Covered
<1>10. Behind(config, stack2, after)
  <2>1. \A i \in 1..Len(stack2) : stack2[i].task \notin done /\ stack2[i].task # t
    BY <1>1, <1>6 DEF PathOK, Behind, Descends
  <2>2. ListsClosed(config, after)
    BY <1>3, <1>4 DEF ListsClosed
  <2> QED
    BY <1>4, <2>1, <2>2 DEF Behind
<1> QED
  BY <1>5, <1>7, <1>9, <1>10 DEF PathOK


----------------------------------------------------------------------------
(* The inductive invariants.                                               *)

\* All that the named task needs is declared, and none of it needs itself.
Sound(config) ==
    \A t \in {Requested} \cup NeedsIn(config)[Requested] :
       t \in DOMAIN config.lists /\ t \notin NeedsIn(config)[t]

\* The lists on the path have been looked up and checked against the path, and
\* what has been walked is declared and free of cycles.
WalkInv ==
    /\ PathOK(project, walk, checked)
    /\ walk # <<>> => verdict = "none" /\ ~project.skip
    /\ walk = <<>> /\ verdict = "none" => checked = {}
    /\ \A i \in 1..Len(walk) :
          /\ walk[i].task \in Declared
          /\ \A n \in Lists(project, walk[i].task) :
                n \in Declared /\ \A j \in 1..i : n # walk[j].task
    /\ \A n \in checked : n \in Declared /\ n \notin Needs[n]

\* Only a sound project is run, and only an unsound one refused, untouched.
VerdictInv ==
    /\ verdict \in {"running", "ok", "failed", "signal", "untagged"} => Sound(project)
    /\ verdict \in {"missing", "cycle"} => ~Sound(project)
    /\ verdict \in {"none", "unknown", "missing", "cycle"} =>
          /\ frames = <<>> /\ executed = {} /\ begun = <<>>
          /\ ~heard /\ late = 0

\* Only the innermost task is in a call or its own run; the run is the contract's.
FrameInv ==
    /\ PathOK(project, frames, executed)
    /\ executed \subseteq Involved
    /\ frames # <<>> => verdict = "running"
    /\ \A i \in 1..Len(frames) :
          /\ i < Len(frames) => frames[i].at = "checking"
          /\ frames[i].at = "calling" => frames[i].todo # <<>>
          /\ frames[i].at = "running" => frames[i].todo = <<>> /\ frames[i].task \in project.runs
    /\ stage # "idle" <=> frames # <<>> /\ Top.at = "running"
    /\ stage \in {"cleanup", "over"} => outcome # "none"

\* A task's own run has started when it is executed and has one, or when it is
\* the innermost and is in it.
BegunInv ==
    /\ PrerequisitesFirst
    /\ verdict \in {"none", "running", "ok", "untagged"} =>
          \A t \in Names : t \in ToSet(begun) <=>
             \/ t \in executed /\ t \in project.runs
             \/ stage # "idle" /\ t = Top.task

\* A signal heard during a run is above every baseline, and nothing that would
\* run is being called.
HeardInv ==
    /\ \A i \in 1..Len(frames) :
          /\ frames[i].baseline <= signals
          /\ heard => frames[i].baseline < signals
          /\ heard /\ frames[i].at = "calling" => Head(frames[i].todo) \in executed
    /\ heard /\ verdict = "running" /\ frames = <<>> => Requested \in executed

\* A run that started with a signal recorded is the last, and ends as signalled.
LateInv ==
    /\ late <= 1
    /\ late = 1 =>
          \/ verdict = "signal"
          \/ /\ verdict = "running" /\ frames # <<>> /\ Top.at = "running"
             /\ stage = "live" \/ outcome = "signal"


----------------------------------------------------------------------------
(* Types.                                                                  *)

WalkEntry == [task : Names, todo : Seq(Names)]
FrameEntry == [task : Names, todo : Seq(Names), baseline : Nat,
               at : {"checking", "calling", "running"}]

\* The innermost element of a stack, and the stack without it.
LEMMA StackTop ==
    ASSUME NEW R, NEW stack \in Seq(R), stack # <<>>
    PROVE  /\ Len(stack) \in Nat \ {0} /\ Len(stack) \in 1..Len(stack)
           /\ Last(stack) \in R /\ Last(stack) = stack[Len(stack)]
           /\ Front(stack) \in Seq(R) /\ Len(Front(stack)) = Len(stack) - 1
           /\ \A i \in 1..Len(Front(stack)) : Front(stack)[i] = stack[i]
<1>1. Len(stack) \in Nat \ {0} /\ Len(stack) \in 1..Len(stack)
  BY EmptySeq
<1>2. stack[Len(stack)] \in R
  BY <1>1, ElementOfSeq
<1>3. \A i \in 1..(Len(stack) - 1) : stack[i] \in R
  BY <1>1, ElementOfSeq
<1> DEFINE n == Len(stack) - 1
<1>4. n \in Int /\ 1 \in Int /\ n \in Nat
  BY <1>1
<1>5. \A i \in 1..n : stack[i] \in R
  BY <1>3
<1> HIDE DEF n
<1>6. /\ SubSeq(stack, 1, n) \in Seq(R)
      /\ Len(SubSeq(stack, 1, n)) = IF 1 <= n THEN n - 1 + 1 ELSE 0
      /\ \A i \in 1..(n - 1 + 1) : SubSeq(stack, 1, n)[i] = stack[1 + i - 1]
  BY <1>4, <1>5, SubSeqProperties
<1>7. Len(SubSeq(stack, 1, n)) = n
  BY <1>4, <1>6
<1>8. \A i \in 1..n : SubSeq(stack, 1, n)[i] = stack[i]
  <2> TAKE i \in 1..n
  <2>1. i \in 1..(n - 1 + 1) /\ 1 + i - 1 = i
    BY <1>4
  <2> QED
    BY <1>6, <2>1
<1>9. Front(stack) = SubSeq(stack, 1, n)
  BY DEF Front, n
<1> QED
  BY <1>1, <1>2, <1>6, <1>7, <1>8, <1>9 DEF Last, n

\* A stack whose innermost element is replaced.
LEMMA StackReplace ==
    ASSUME NEW R, NEW stack \in Seq(R), stack # <<>>, NEW e \in R,
           NEW stack2, stack2 = [stack EXCEPT ![Len(stack)] = e]
    PROVE  /\ stack2 \in Seq(R) /\ Len(stack2) = Len(stack)
           /\ stack2[Len(stack)] = e
           /\ \A i \in 1..Len(stack) : i < Len(stack) => stack2[i] = stack[i]
<1> DEFINE len == Len(stack)
<1>1. len \in Nat \ {0} /\ len \in 1..len /\ stack \in [1..len -> R]
  BY EmptySeq, LenProperties
<1> HIDE DEF len
<1>2. [stack EXCEPT ![len] = e] \in [1..len -> R]
  BY <1>1
<1>3. [stack EXCEPT ![len] = e] \in Seq(R)
  BY <1>1, <1>2, SeqDef
<1>4. DOMAIN [stack EXCEPT ![len] = e] = 1..len
  BY <1>2
<1>5. Len([stack EXCEPT ![len] = e]) = len
  BY <1>1, <1>3, <1>4, LenProperties
<1>6. [stack EXCEPT ![len] = e][len] = e
  BY <1>1
<1>7. \A i \in 1..len : i < len => [stack EXCEPT ![len] = e][i] = stack[i]
  BY <1>1
<1> QED
  BY <1>3, <1>5, <1>6, <1>7 DEF len

\* The path with the innermost list moved on.
LEMMA WalkAdvanced ==
    ASSUME walk \in Seq(WalkEntry), walk # <<>>, Last(walk).todo # <<>>,
           NEW path, path = [walk EXCEPT ![Len(walk)].todo = Tail(@)]
    PROVE  /\ path \in Seq(WalkEntry) /\ Len(path) = Len(walk)
           /\ Last(walk).todo \in Seq(Names) /\ Head(Last(walk).todo) \in Names
           /\ \A i \in 1..Len(walk) : path[i].task = walk[i].task
           /\ \A i \in 1..Len(walk) : i < Len(walk) => path[i].todo = walk[i].todo
           /\ path[Len(walk)].todo = Tail(walk[Len(walk)].todo)
<1> DEFINE top == walk[Len(walk)]
<1>1. Len(walk) \in Nat \ {0} /\ Len(walk) \in 1..Len(walk) /\ top \in WalkEntry
      /\ Last(walk) = top
  BY StackTop
<1>2. top.todo \in Seq(Names) /\ top.todo # <<>> /\ top.task \in Names
  BY <1>1 DEF WalkEntry
<1>3. Head(top.todo) \in Names /\ Tail(top.todo) \in Seq(Names)
  BY <1>2, HeadTailProperties
<1>4. PICK moved \in WalkEntry :
         /\ moved.task = top.task /\ moved.todo = Tail(top.todo)
         /\ path = [walk EXCEPT ![Len(walk)] = moved]
  <2> DEFINE m == [top EXCEPT !.todo = Tail(@)]
  <2>1. m \in WalkEntry /\ m.task = top.task /\ m.todo = Tail(top.todo)
    BY <1>1, <1>3 DEF WalkEntry
  <2>2. path = [walk EXCEPT ![Len(walk)] = m]
    OBVIOUS
  <2> QED
    BY <2>1, <2>2
<1>5. /\ path \in Seq(WalkEntry) /\ Len(path) = Len(walk)
      /\ path[Len(walk)] = moved
      /\ \A j \in 1..Len(walk) : j < Len(walk) => path[j] = walk[j]
  <2>1. path = [walk EXCEPT ![Len(walk)] = moved]
    BY <1>4
  <2>2. moved \in WalkEntry /\ walk \in Seq(WalkEntry) /\ walk # <<>>
    BY <1>4
  <2> QED
    BY ONLY <2>1, <2>2, StackReplace
<1>6. \A i \in 1..Len(walk) : i < Len(walk) \/ i = Len(walk)
  BY <1>1
<1> QED
  BY <1>1, <1>2, <1>3, <1>4, <1>5, <1>6


\* The tasks in progress, with the innermost at another place.
LEMMA FramesAt ==
    ASSUME frames \in Seq(FrameEntry), frames # <<>>,
           NEW there \in {"checking", "calling", "running"},
           NEW moved, moved = [frames EXCEPT ![Len(frames)].at = there]
    PROVE  /\ moved \in Seq(FrameEntry) /\ Len(moved) = Len(frames)
           /\ \A i \in 1..Len(frames) : i < Len(frames) => moved[i] = frames[i]
           /\ moved[Len(frames)].task = Top.task
           /\ moved[Len(frames)].todo = Top.todo
           /\ moved[Len(frames)].baseline = Top.baseline
           /\ moved[Len(frames)].at = there
<1> DEFINE top == frames[Len(frames)]
<1>1. Len(frames) \in Nat \ {0} /\ Len(frames) \in 1..Len(frames) /\ top \in FrameEntry
      /\ Top = top
  BY StackTop DEF Top
<1>2. PICK e \in FrameEntry :
         /\ e.task = top.task /\ e.todo = top.todo /\ e.baseline = top.baseline
         /\ e.at = there
         /\ moved = [frames EXCEPT ![Len(frames)] = e]
  <2> DEFINE m == [top EXCEPT !.at = there]
  <2>1. /\ m \in FrameEntry /\ m.task = top.task /\ m.todo = top.todo
        /\ m.baseline = top.baseline /\ m.at = there
    BY <1>1 DEF FrameEntry
  <2>2. moved = [frames EXCEPT ![Len(frames)] = m]
    OBVIOUS
  <2> QED
    BY <2>1, <2>2
<1>3. /\ moved \in Seq(FrameEntry) /\ Len(moved) = Len(frames)
      /\ moved[Len(frames)] = e
      /\ \A j \in 1..Len(frames) : j < Len(frames) => moved[j] = frames[j]
  <2>1. moved = [frames EXCEPT ![Len(frames)] = e]
    BY <1>2
  <2>2. e \in FrameEntry /\ frames \in Seq(FrameEntry) /\ frames # <<>>
    BY <1>2
  <2> QED
    BY ONLY <2>1, <2>2, StackReplace
<1> QED
  BY <1>1, <1>2, <1>3

\* The tasks in progress, with the innermost list moved on.
LEMMA FramesCalled ==
    ASSUME frames \in Seq(FrameEntry), frames # <<>>, Top.todo # <<>>,
           NEW moved,
           moved = [frames EXCEPT ![Len(frames)].todo = Tail(@),
                                  ![Len(frames)].at = "checking"]
    PROVE  /\ moved \in Seq(FrameEntry) /\ Len(moved) = Len(frames)
           /\ Top.todo \in Seq(Names) /\ Head(Top.todo) \in Names
           /\ \A i \in 1..Len(frames) : i < Len(frames) => moved[i] = frames[i]
           /\ moved[Len(frames)].task = Top.task
           /\ moved[Len(frames)].todo = Tail(Top.todo)
           /\ moved[Len(frames)].baseline = Top.baseline
           /\ moved[Len(frames)].at = "checking"
<1> DEFINE top == frames[Len(frames)]
<1>1. Len(frames) \in Nat \ {0} /\ Len(frames) \in 1..Len(frames) /\ top \in FrameEntry
      /\ Top = top
  BY StackTop DEF Top
<1>2. top.todo \in Seq(Names) /\ top.todo # <<>>
  BY <1>1 DEF FrameEntry
<1>3. Head(top.todo) \in Names /\ Tail(top.todo) \in Seq(Names)
  BY <1>2, HeadTailProperties
<1>4. PICK e \in FrameEntry :
         /\ e.task = top.task /\ e.todo = Tail(top.todo) /\ e.baseline = top.baseline
         /\ e.at = "checking"
         /\ moved = [frames EXCEPT ![Len(frames)] = e]
  <2> DEFINE m == [top EXCEPT !.todo = Tail(@), !.at = "checking"]
  <2>1. /\ m \in FrameEntry /\ m.task = top.task /\ m.todo = Tail(top.todo)
        /\ m.baseline = top.baseline /\ m.at = "checking"
    BY <1>1, <1>3 DEF FrameEntry
  <2>2. moved = [frames EXCEPT ![Len(frames)] = m]
    <3>1. frames \in [1..Len(frames) -> FrameEntry]
      BY LenProperties
    <3> QED
      BY <1>1, <3>1
  <2> QED
    BY <2>1, <2>2
<1>5. /\ moved \in Seq(FrameEntry) /\ Len(moved) = Len(frames)
      /\ moved[Len(frames)] = e
      /\ \A j \in 1..Len(frames) : j < Len(frames) => moved[j] = frames[j]
  <2>1. moved = [frames EXCEPT ![Len(frames)] = e]
    BY <1>4
  <2>2. e \in FrameEntry /\ frames \in Seq(FrameEntry) /\ frames # <<>>
    BY <1>4
  <2> QED
    BY ONLY <2>1, <2>2, StackReplace
<1> QED
  BY <1>1, <1>2, <1>3, <1>4, <1>5


\* The entry about to be walked has a name and is declared, and is no task on
\* the path.
LEMMA NextEntry ==
    ASSUME ChainTypeOK, WalkInv, walk # <<>>, Last(walk).todo # <<>>
    PROVE  /\ Head(Last(walk).todo) \in Declared
           /\ Head(Last(walk).todo) \in Lists(project, Last(walk).task)
           /\ \A j \in 1..Len(walk) : walk[j].task # Head(Last(walk).todo)
<1>1. walk \in Seq(WalkEntry)
  BY DEF ChainTypeOK, WalkEntry
<1>2. /\ Len(walk) \in Nat \ {0} /\ Len(walk) \in 1..Len(walk)
      /\ Last(walk) \in WalkEntry /\ Last(walk) = walk[Len(walk)]
  BY <1>1, StackTop
<1>3. Last(walk).todo \in Seq(Names)
  BY <1>2 DEF WalkEntry
<1>4. Head(Last(walk).todo) \in ToSet(Last(walk).todo)
  BY <1>3, HeadOrTail
<1>5. ToSet(Last(walk).todo) \subseteq Lists(project, Last(walk).task)
  BY <1>2 DEF WalkInv, PathOK, Covered
<1>6. \A n \in Lists(project, Last(walk).task) :
         n \in Declared /\ \A j \in 1..Len(walk) : n # walk[j].task
  BY <1>2 DEF WalkInv
<1> QED
  BY <1>4, <1>5, <1>6

\* A declared task has a name and a list of names.
LEMMA DeclaredLists ==
    ASSUME ChainTypeOK, NEW t \in Declared
    PROVE  t \in Names /\ Expanded(project, t) \in Seq(Names)
BY ChainAssumption DEF ChainTypeOK, Declared

Verdicts == {"none", "unknown", "missing", "cycle", "running", "ok",
             "failed", "signal", "untagged"}

\* Visit refuses, or steps into t.
LEMMA VisitOutcome ==
    ASSUME ChainTypeOK, NEW t \in Declared, NEW path \in Seq(WalkEntry),
           Visit(t, path)
    PROVE  \/ /\ walk' = <<>>
              /\ \E n \in ToSet(Expanded(project, t)) :
                    \/ verdict' = "missing" /\ n \notin Declared
                    \/ /\ verdict' = "cycle"
                       /\ n = t \/ \E i \in 1..Len(path) : n = path[i].task
           \/ /\ verdict' = verdict
              /\ walk' \in Seq(WalkEntry) /\ Len(walk') = Len(path) + 1
              /\ \A i \in 1..Len(path) : walk'[i] = path[i]
              /\ walk'[Len(path) + 1].task = t
              /\ walk'[Len(path) + 1].todo = Expanded(project, t)
              /\ \A n \in ToSet(Expanded(project, t)) :
                    /\ n \in Declared /\ n # t
                    /\ \A i \in 1..Len(path) : n # path[i].task
<1> DEFINE list == Expanded(project, t)
           above == {path[i].task : i \in DOMAIN path} \cup {t}
           bad == {i \in DOMAIN list : list[i] \notin Declared \/ list[i] \in above}
<1>1. t \in Names /\ list \in Seq(Names)
  BY DeclaredLists
<1>2. DOMAIN path = 1..Len(path)
  BY LenProperties
<1>3. \A n : n \in above <=> n = t \/ \E i \in 1..Len(path) : n = path[i].task
  BY <1>2
<1>4. \A n : n \in ToSet(list) <=> \E i \in DOMAIN list : n = list[i]
  BY DEF ToSet
<1> HIDE DEF list, above
<1>5. CASE bad = {} /\ walk' = Append(path, [task |-> t, todo |-> list]) /\ verdict' = verdict
  <2>1. [task |-> t, todo |-> list] \in WalkEntry
    BY <1>1 DEF WalkEntry
  <2>2. /\ walk' \in Seq(WalkEntry) /\ Len(walk') = Len(path) + 1
        /\ \A i \in 1..Len(path) : walk'[i] = path[i]
        /\ walk'[Len(path) + 1] = [task |-> t, todo |-> list]
    BY <1>5, <2>1, AppendProperties
  <2>3. \A n \in ToSet(list) : n \in Declared /\ n \notin above
    BY <1>4, <1>5
  <2> QED
    BY <1>3, <1>5, <2>2, <2>3 DEF list
<1>6. CASE /\ \E i \in bad : verdict' = IF list[i] \notin Declared THEN "missing" ELSE "cycle"
           /\ walk' = <<>>
  <2>1. PICK i \in bad : verdict' = IF list[i] \notin Declared THEN "missing" ELSE "cycle"
    BY <1>6
  <2>2. list[i] \in ToSet(list)
    BY <1>4
  <2>3. CASE list[i] \notin Declared
    BY <1>6, <2>1, <2>2, <2>3 DEF list
  <2>4. CASE list[i] \in Declared
    <3>1. list[i] \in above /\ verdict' = "cycle"
      BY <2>1, <2>4
    <3> QED
      BY <1>3, <1>6, <2>2, <3>1 DEF list
  <2> QED
    BY <2>3, <2>4
<1> QED
  BY <1>5, <1>6 DEF Visit, list, above


\* Call passes over t, refuses it, or enters it.
LEMMA CallOutcome ==
    ASSUME ChainTypeOK, NEW t \in Names, NEW stack \in Seq(FrameEntry),
           Call(t, stack)
    PROVE  \/ t \in executed /\ frames' = stack /\ verdict' = verdict
           \/ /\ frames' = <<>> /\ verdict' \in {"missing", "cycle"}
              /\ t \notin Declared \/ InProgress(t)
           \/ /\ t \notin executed /\ t \in Declared /\ ~InProgress(t)
              /\ verdict' = verdict
              /\ frames' \in Seq(FrameEntry) /\ Len(frames') = Len(stack) + 1
              /\ \A i \in 1..Len(stack) : frames'[i] = stack[i]
              /\ frames'[Len(stack) + 1].task = t
              /\ frames'[Len(stack) + 1].baseline = signals
              /\ frames'[Len(stack) + 1].at = "checking"
              /\ frames'[Len(stack) + 1].todo =
                    IF stack = <<>> /\ project.skip THEN <<>> ELSE Expanded(project, t)
<1>1. CASE t \in executed
  BY <1>1 DEF Call
<1>2. CASE t \notin executed /\ (InProgress(t) \/ t \notin Declared)
  BY <1>2 DEF Call, Enter
<1>3. CASE t \notin executed /\ ~InProgress(t) /\ t \in Declared
  <2> DEFINE list == IF stack = <<>> /\ project.skip THEN <<>> ELSE Expanded(project, t)
  <2>1. list \in Seq(Names)
    BY <1>3, DeclaredLists
  <2>2. frames' = Append(stack, Frame(t, list)) /\ verdict' = verdict
    BY <1>3 DEF Call, Enter
  <2> HIDE DEF list
  <2>3. signals \in Nat
    BY DEF ChainTypeOK
  <2>4. /\ Frame(t, list) \in FrameEntry
        /\ Frame(t, list).task = t /\ Frame(t, list).baseline = signals
        /\ Frame(t, list).at = "checking" /\ Frame(t, list).todo = list
    BY <2>1, <2>3 DEF Frame, FrameEntry
  <2>5. /\ frames' \in Seq(FrameEntry) /\ Len(frames') = Len(stack) + 1
        /\ \A i \in 1..Len(stack) : frames'[i] = stack[i]
        /\ frames'[Len(stack) + 1] = Frame(t, list)
    BY <2>2, <2>4, AppendProperties
  <2> QED
    BY <1>3, <2>2, <2>4, <2>5 DEF list
<1> QED
  BY <1>1, <1>2, <1>3

\* The innermost task and what its place says of it.
LEMMA TopFrame ==
    ASSUME ChainTypeOK, FrameInv, frames # <<>>
    PROVE  /\ frames \in Seq(FrameEntry)
           /\ Len(frames) \in Nat \ {0} /\ Len(frames) \in 1..Len(frames)
           /\ Top \in FrameEntry /\ Top = frames[Len(frames)]
           /\ Top.at = "calling" => Top.todo # <<>>
           /\ Top.at = "running" => Top.todo = <<>> /\ Top.task \in project.runs
<1>1. frames \in Seq(FrameEntry)
  BY DEF ChainTypeOK, FrameEntry
<1>2. /\ Len(frames) \in Nat \ {0} /\ Len(frames) \in 1..Len(frames)
      /\ Top \in FrameEntry /\ Top = frames[Len(frames)]
  BY <1>1, StackTop DEF Top
<1> QED
  BY <1>1, <1>2 DEF FrameInv

\* What a call of the next prerequisite does, given the tasks in progress.
LEMMA CallPrerequisiteOutcome ==
    ASSUME ChainTypeOK, FrameInv, CallPrerequisite
    PROVE  /\ frames # <<>> /\ verdict = "running" /\ Top.todo # <<>> /\ Top.at = "calling"
           /\ Top.todo \in Seq(Names)
           /\ \E stack \in Seq(FrameEntry) :
                /\ Len(stack) = Len(frames)
                /\ \A i \in 1..Len(frames) : i < Len(frames) => stack[i] = frames[i]
                /\ stack[Len(frames)].task = Top.task
                /\ stack[Len(frames)].todo = Tail(Top.todo)
                /\ stack[Len(frames)].baseline = Top.baseline
                /\ stack[Len(frames)].at = "checking"
                /\ Head(Top.todo) \in Names /\ Call(Head(Top.todo), stack)
<1>1. frames # <<>> /\ verdict = "running" /\ Top.at = "calling"
  BY DEF CallPrerequisite, Active
<1>2. frames \in Seq(FrameEntry) /\ Top.todo # <<>>
  BY <1>1, TopFrame
<1>3. PICK stack : /\ stack = [frames EXCEPT ![Len(frames)].todo = Tail(@),
                                             ![Len(frames)].at = "checking"]
                   /\ Call(Head(Top.todo), stack)
  BY DEF CallPrerequisite
<1>4. stack = [frames EXCEPT ![Len(frames)].todo = Tail(@),
                             ![Len(frames)].at = "checking"]
  BY <1>3
<1>5. /\ stack \in Seq(FrameEntry) /\ Len(stack) = Len(frames)
      /\ Top.todo \in Seq(Names) /\ Head(Top.todo) \in Names
      /\ \A i \in 1..Len(frames) : i < Len(frames) => stack[i] = frames[i]
      /\ stack[Len(frames)].task = Top.task
      /\ stack[Len(frames)].todo = Tail(Top.todo)
      /\ stack[Len(frames)].baseline = Top.baseline
      /\ stack[Len(frames)].at = "checking"
  BY ONLY <1>1, <1>2, <1>4, FramesCalled
<1> QED
  BY <1>1, <1>2, <1>3, <1>5


\* The innermost task goes to another place.
LEMMA GoToOutcome ==
    ASSUME ChainTypeOK, FrameInv, frames # <<>>,
           NEW there \in {"checking", "calling", "running"}, GoTo(there)
    PROVE  /\ frames' \in Seq(FrameEntry) /\ Len(frames') = Len(frames)
           /\ \A i \in 1..Len(frames) : i < Len(frames) => frames'[i] = frames[i]
           /\ frames'[Len(frames)].task = Top.task
           /\ frames'[Len(frames)].todo = Top.todo
           /\ frames'[Len(frames)].baseline = Top.baseline
           /\ frames'[Len(frames)].at = there
<1>1. frames \in Seq(FrameEntry)
  BY TopFrame
<1>2. frames' = [frames EXCEPT ![Len(frames)].at = there]
  BY DEF GoTo
<1> QED
  BY ONLY <1>1, <1>2, frames # <<>>, there \in {"checking", "calling", "running"}, FramesAt

\* The innermost task returns.
LEMMA ReturnOutcome ==
    ASSUME ChainTypeOK, FrameInv, frames # <<>>, Return
    PROVE  /\ frames' \in Seq(FrameEntry) /\ Len(frames') = Len(frames) - 1
           /\ \A i \in 1..Len(frames') : frames'[i] = frames[i]
           /\ executed' = executed \cup {Top.task}
<1>1. frames \in Seq(FrameEntry)
  BY TopFrame
<1>2. frames' = Front(frames) /\ executed' = executed \cup {Top.task}
  BY DEF Return
<1> QED
  BY <1>1, <1>2, StackTop

\* Each step is of the check, of the chain, or a signal.
CheckStep == Start \/ VisitNext \/ VisitDone
TaskStep ==
    \/ CallRequested \/ CheckSignal \/ CallPrerequisite \/ PrerequisitesOnly
    \/ EvaluateFails \/ BeginRun \/ Run \/ RunReturns \/ Finished

LEMMA StepKinds ==
    ASSUME [ChainNext]_vars
    PROVE  \/ CheckStep /\ UNCHANGED <<runVars, project, runFrame>>
           \/ TaskStep /\ verdict = "running" /\ UNCHANGED walkFrame
           \/ Signal
           \/ UNCHANGED vars
<1>1. CheckStep => UNCHANGED <<runVars, project, runFrame>>
  BY DEF CheckStep, Start, VisitNext, VisitDone
<1>2. TaskStep => verdict = "running" /\ UNCHANGED walkFrame
  BY DEF TaskStep, CallRequested, CheckSignal, CallPrerequisite, PrerequisitesOnly,
     EvaluateFails, BeginRun, Run, RunReturns, Finished, Active, chainVars, walkFrame
<1> QED
  BY <1>1, <1>2 DEF ChainNext, ChainStep, ChainOver, CheckStep, TaskStep

LEMMA ProjectStays ==
    ASSUME [ChainNext]_vars PROVE project' = project
BY StepKinds DEF walkFrame, vars, chainVars, Signal

\* The walk's stack and set keep to their types.
LEMMA WalkTypeStep ==
    ASSUME ChainTypeOK, WalkInv, [ChainNext]_vars
    PROVE  walk' \in Seq(WalkEntry) /\ checked' \subseteq Names
<1>0. walk \in Seq(WalkEntry) /\ checked \subseteq Names /\ <<>> \in Seq(WalkEntry)
  BY EmptySeq DEF ChainTypeOK, WalkEntry
<1>1. CASE Start
  <2>1. checked' = checked
    BY <1>1 DEF Start
  <2>2. CASE walk' = walk
    BY <1>0, <2>1, <2>2
  <2>3. CASE Requested \in Declared /\ Visit(Requested, <<>>)
    BY <1>0, <2>1, <2>3, VisitOutcome
  <2> QED
    BY <1>1, <2>2, <2>3 DEF Start
<1>2. CASE VisitNext
  <2>1. walk # <<>> /\ Last(walk).todo # <<>> /\ checked' = checked
    BY <1>2 DEF VisitNext
  <2>2. PICK path : /\ path = [walk EXCEPT ![Len(walk)].todo = Tail(@)]
                    /\ walk' = path \/ Visit(Head(Last(walk).todo), path)
    BY <1>2 DEF VisitNext
  <2>3. path = [walk EXCEPT ![Len(walk)].todo = Tail(@)]
    BY <2>2
  <2>4. path \in Seq(WalkEntry)
    BY ONLY <1>0, <2>1, <2>3, WalkAdvanced
  <2>5. Head(Last(walk).todo) \in Declared
    BY <2>1, NextEntry
  <2>6. CASE Visit(Head(Last(walk).todo), path)
    BY <1>0, <2>1, <2>4, <2>5, <2>6, VisitOutcome
  <2> QED
    BY <1>0, <2>1, <2>2, <2>4, <2>6
<1>3. CASE VisitDone
  <2>1. walk # <<>> /\ walk' = Front(walk) /\ checked' = checked \cup {Last(walk).task}
    BY <1>3 DEF VisitDone
  <2>2. Front(walk) \in Seq(WalkEntry) /\ Last(walk) \in WalkEntry
    BY <1>0, <2>1, StackTop
  <2> QED
    BY <1>0, <2>1, <2>2 DEF WalkEntry
<1>4. CASE UNCHANGED <<walk, checked>>
  BY <1>0, <1>4
<1> QED
  BY <1>1, <1>2, <1>3, <1>4, StepKinds DEF CheckStep, walkFrame, vars, chainVars, Signal

\* The tasks in progress and what has run keep to their types.
LEMMA FrameTypeStep ==
    ASSUME ChainTypeOK, FrameInv, [ChainNext]_vars
    PROVE  frames' \in Seq(FrameEntry) /\ executed' \subseteq Names
<1>0. frames \in Seq(FrameEntry) /\ executed \subseteq Names /\ <<>> \in Seq(FrameEntry)
  BY EmptySeq DEF ChainTypeOK, FrameEntry
<1>1. CASE UNCHANGED <<frames, executed>>
  BY <1>0, <1>1
<1>2. CASE frames' = <<>> /\ executed' = executed
  BY <1>0, <1>2
<1>3. CASE CallRequested
  <2>1. Call(Requested, <<>>) /\ executed' = executed
    BY <1>3 DEF CallRequested
  <2>2. Requested \in Names
    BY ChainAssumption
  <2> QED
    BY <1>0, <2>1, <2>2, CallOutcome
<1>4. CASE CallPrerequisite
  <2>1. PICK stack \in Seq(FrameEntry) :
           Head(Top.todo) \in Names /\ Call(Head(Top.todo), stack)
    BY <1>4, CallPrerequisiteOutcome
  <2>2. executed' = executed
    BY <1>4 DEF CallPrerequisite
  <2> QED
    BY <1>0, <2>1, <2>2, CallOutcome
<1>5. ASSUME NEW there \in {"checking", "calling", "running"}, frames # <<>>, GoTo(there),
             executed' = executed
      PROVE  frames' \in Seq(FrameEntry) /\ executed' \subseteq Names
  BY <1>0, <1>5, GoToOutcome
<1>6. CASE frames # <<>> /\ Return
  <2>1. Top.task \in Names
    BY <1>6, TopFrame DEF FrameEntry
  <2> QED
    BY <1>0, <1>6, <2>1, ReturnOutcome
<1>7. CASE CheckSignal
  BY <1>2, <1>5, <1>7 DEF CheckSignal, Fail, Active
<1>8. CASE PrerequisitesOnly
  BY <1>6, <1>8 DEF PrerequisitesOnly, Active
<1>9. CASE EvaluateFails
  BY <1>2, <1>9 DEF EvaluateFails, Fail
<1>10. CASE BeginRun
  BY <1>2, <1>5, <1>10 DEF BeginRun, Fail, Active
<1>11. CASE RunReturns
  BY <1>2, <1>6, <1>11 DEF RunReturns, Fail, Active
<1>12. CASE Run \/ Finished \/ Signal \/ UNCHANGED vars \/ UNCHANGED runFrame
  BY <1>1, <1>12 DEF Run, Finished, Signal, vars, chainVars, runFrame
<1> QED
  BY <1>3, <1>4, <1>7, <1>8, <1>9, <1>10, <1>11, <1>12, StepKinds DEF TaskStep


\* The other variables keep to theirs.
LEMMA PlainTypeStep ==
    ASSUME ChainTypeOK, WalkInv, FrameInv, [ChainNext]_vars
    PROVE  /\ stage' \in {"idle", "live", "cleanup", "over"}
           /\ outcome' \in {"none", "ok", "failed", "signal"}
           /\ signals' \in Nat
           /\ verdict' \in Verdicts
           /\ begun' \in Seq(Names)
           /\ heard' \in BOOLEAN
           /\ late' \in Nat
<1>0. /\ stage \in {"idle", "live", "cleanup", "over"}
      /\ outcome \in {"none", "ok", "failed", "signal"}
      /\ signals \in Nat /\ verdict \in Verdicts /\ begun \in Seq(Names)
      /\ heard \in BOOLEAN /\ late \in Nat
  BY DEF ChainTypeOK, Verdicts
<1>1. ASSUME CheckStep, UNCHANGED <<runVars, runFrame>> PROVE verdict' \in Verdicts
  <2>1. CASE Start
    <3>1. CASE Requested \in Declared /\ Visit(Requested, <<>>)
      <4>1. <<>> \in Seq(WalkEntry)
        BY EmptySeq
      <4> QED
        BY <1>0, <3>1, <4>1, VisitOutcome DEF Verdicts
    <3> QED
      BY <2>1, <3>1 DEF Start, Verdicts
  <2>2. CASE VisitNext
    <3>1. walk # <<>> /\ Last(walk).todo # <<>> /\ walk \in Seq(WalkEntry)
      BY <2>2 DEF VisitNext, ChainTypeOK, WalkEntry
    <3>2. PICK path : /\ path = [walk EXCEPT ![Len(walk)].todo = Tail(@)]
                      /\ verdict' = verdict \/ Visit(Head(Last(walk).todo), path)
      BY <2>2 DEF VisitNext
    <3>3. path = [walk EXCEPT ![Len(walk)].todo = Tail(@)]
      BY <3>2
    <3>4. path \in Seq(WalkEntry)
      BY ONLY <3>1, <3>3, WalkAdvanced
    <3>5. Head(Last(walk).todo) \in Declared
      BY <3>1, NextEntry
    <3>6. CASE Visit(Head(Last(walk).todo), path)
      BY <1>0, <3>4, <3>5, <3>6, VisitOutcome DEF Verdicts
    <3> QED
      BY <1>0, <3>2, <3>6
  <2>3. CASE VisitDone
    BY <1>0, <2>3 DEF VisitDone, Verdicts
  <2> QED
    BY <1>1, <2>1, <2>2, <2>3 DEF CheckStep
<1>2. ASSUME NEW t \in Names, NEW stack \in Seq(FrameEntry), Call(t, stack)
      PROVE  verdict' \in Verdicts
  BY <1>0, <1>2, CallOutcome DEF Verdicts
<1>3. CASE CheckStep /\ UNCHANGED <<runVars, runFrame>>
  BY <1>0, <1>1, <1>3 DEF runVars, runFrame
<1>4. CASE CallRequested
  <2>1. Requested \in Names /\ <<>> \in Seq(FrameEntry)
    BY ChainAssumption, EmptySeq
  <2>2. verdict' \in Verdicts
    BY <1>2, <1>4, <2>1 DEF CallRequested
  <2> QED
    BY <1>0, <1>4, <2>2 DEF CallRequested, runVars
<1>5. CASE CallPrerequisite
  <2>1. PICK stack \in Seq(FrameEntry) :
           Head(Top.todo) \in Names /\ Call(Head(Top.todo), stack)
    BY <1>5, CallPrerequisiteOutcome
  <2>2. verdict' \in Verdicts
    BY <1>2, <2>1
  <2> QED
    BY <1>0, <1>5, <2>2 DEF CallPrerequisite, runVars
<1>6. CASE CheckSignal \/ PrerequisitesOnly \/ EvaluateFails \/ Finished
  BY <1>0, <1>6 DEF CheckSignal, PrerequisitesOnly, EvaluateFails, Finished, Fail,
     runVars, Verdicts
<1>7. CASE BeginRun
  <2>1. Append(begun, Top.task) \in Seq(Names)
    <3>1. Top.task \in Names
      BY <1>7, TopFrame DEF BeginRun, Active, FrameEntry
    <3> QED
      BY <1>0, <3>1, AppendProperties
  <2> QED
    BY <1>0, <1>7, <2>1 DEF BeginRun, Fail, Verdicts
<1>8. CASE Run
  BY <1>0, <1>8 DEF Run, Ends, Interrupts, CleansUp, chainVars
<1>9. CASE RunReturns
  BY <1>0, <1>9 DEF RunReturns, Fail, Verdicts
<1>10. CASE Signal
  <2>1. heard' \in BOOLEAN
    BY <1>10 DEF Signal
  <2> QED
    BY <1>0, <1>10, <2>1 DEF Signal, Signalled
<1>11. CASE UNCHANGED vars
  BY <1>0, <1>11 DEF vars, runVars, chainVars
<1> QED
  BY <1>3, <1>4, <1>5, <1>6, <1>7, <1>8, <1>9, <1>10, <1>11, StepKinds DEF TaskStep

LEMMA ChainTypeStep ==
    ASSUME ChainTypeOK, WalkInv, FrameInv, [ChainNext]_vars
    PROVE  ChainTypeOK'
<1>1. project' \in Projects
  BY ProjectStays DEF ChainTypeOK
<1> QED
  BY <1>1, WalkTypeStep, FrameTypeStep, PlainTypeStep
     DEF ChainTypeOK, WalkEntry, FrameEntry, Verdicts

----------------------------------------------------------------------------
(* The check.                                                              *)

\* A walk that has just stepped into t keeps its invariant.
LEMMA VisitKeepsWalk ==
    ASSUME ChainTypeOK, verdict = "none", ~project.skip,
           \A n \in checked : n \in Declared /\ n \notin Needs[n],
           NEW t \in Declared, NEW path \in Seq(WalkEntry),
           walk' \in Seq(WalkEntry), Len(walk') = Len(path) + 1,
           \A i \in 1..Len(path) : walk'[i] = path[i],
           walk'[Len(path) + 1].task = t,
           \A n \in Lists(project, t) :
              n \in Declared /\ n # t /\ \A i \in 1..Len(path) : n # path[i].task,
           \A i \in 1..Len(path) :
              /\ path[i].task \in Declared
              /\ \A n \in Lists(project, path[i].task) :
                    n \in Declared /\ \A j \in 1..i : n # path[j].task,
           PathOK(project, walk', checked),
           UNCHANGED <<verdict, project, checked>>
    PROVE  WalkInv'
<1>1. Len(path) \in Nat
  BY LenProperties
<1>2. \A i \in 1..(Len(path) + 1) : i \in 1..Len(path) \/ i = Len(path) + 1
  BY <1>1
<1>3. ASSUME NEW i \in 1..Len(walk')
      PROVE  /\ walk'[i].task \in Declared
             /\ \A n \in Lists(project, walk'[i].task) :
                   n \in Declared /\ \A j \in 1..i : n # walk'[j].task
  <2>1. CASE i \in 1..Len(path)
    <3>1. \A j \in 1..i : j \in 1..Len(path)
      BY <1>1, <2>1
    <3> QED
      BY <2>1, <3>1
  <2>2. CASE i = Len(path) + 1
    <3>1. \A j \in 1..i : j \in 1..Len(path) \/ j = Len(path) + 1
      BY <1>1, <2>2
    <3> QED
      BY <2>2, <3>1
  <2> QED
    BY <1>2, <2>1, <2>2
<1>4. walk' # <<>>
  BY <1>1
<1> QED
  BY <1>3, <1>4 DEF WalkInv, Declared, Needs

\* With its prerequisites not skipped, a declared task lists all its entries.
LEMMA ListsAll ==
    ASSUME NEW t \in Declared, ~project.skip \/ t # Requested
    PROVE  Lists(project, t) = ToSet(Expanded(project, t))
BY DEF Lists, Declared


\* A refusal leaves no path; what has been walked stays as it was.
LEMMA RefusalKeepsWalk ==
    ASSUME WalkInv, walk' = <<>>, verdict' # "none", UNCHANGED <<project, checked>>
    PROVE  WalkInv'
<1>1. PathOK(project, <<>>, checked)
  BY PathEmpty DEF WalkInv, PathOK, Behind
<1> QED
  BY <1>1 DEF WalkInv, Declared, Needs

\* The walk's invariant holds after its own steps.
LEMMA StartKeepsWalk ==
    ASSUME ChainTypeOK, WalkInv, Start PROVE WalkInv'
<1>1. verdict = "none" /\ walk = <<>> /\ UNCHANGED <<project, checked>>
  BY DEF Start
<1>2. CASE walk' = walk /\ verdict' # "none"
  BY <1>1, <1>2, RefusalKeepsWalk
<1>3. CASE Requested \in Declared /\ ~project.skip /\ Visit(Requested, <<>>)
  <2>1. <<>> \in Seq(WalkEntry) /\ Len(<<>>) = 0
    BY EmptySeq
  <2>2. CASE walk' = <<>> /\ verdict' # "none"
    BY <1>1, <2>2, RefusalKeepsWalk
  <2>3. CASE /\ verdict' = verdict
             /\ walk' \in Seq(WalkEntry) /\ Len(walk') = Len(<<>>) + 1
             /\ walk'[Len(<<>>) + 1].task = Requested
             /\ walk'[Len(<<>>) + 1].todo = Expanded(project, Requested)
             /\ \A n \in ToSet(Expanded(project, Requested)) :
                   n \in Declared /\ n # Requested
    <3>1. Lists(project, Requested) = ToSet(Expanded(project, Requested))
      BY <1>3, ListsAll
    <3>2. checked = {} /\ ListsClosed(project, checked)
      BY <1>1 DEF WalkInv, ListsClosed
    <3>3. project \in Projects
      BY DEF ChainTypeOK
    <3>4. /\ walk' \in Seq(WalkEntry) /\ Len(walk') = 1 /\ walk'[1].task = Requested
          /\ ToSet(walk'[1].todo) = Lists(project, Requested)
      BY <2>1, <2>3, <3>1
    <3>5. PathOK(project, walk', checked)
      BY <3>2, <3>3, <3>4, PathStart
    <3>6. \A n \in Lists(project, Requested) : n \in Declared /\ n # Requested
      BY <2>3, <3>1
    <3>7. \A i \in 1..Len(walk') : i = 1 /\ \A j \in 1..i : j = 1
      BY <3>4
    <3>8. walk' # <<>>
      BY <3>4, EmptySeq
    <3> QED
      BY <1>1, <1>3, <2>3, <3>2, <3>4, <3>5, <3>6, <3>7, <3>8 DEF WalkInv, Declared, Needs
  <2> QED
    BY <1>1, <1>3, <2>1, <2>2, <2>3, VisitOutcome
<1> QED
  BY <1>1, <1>2, <1>3 DEF Start

LEMMA VisitNextKeepsWalk ==
    ASSUME ChainTypeOK, WalkInv, VisitNext PROVE WalkInv'
<1> DEFINE t == Head(Last(walk).todo)
           todo == walk[Len(walk)].todo
<1>1. /\ walk # <<>> /\ Last(walk).todo # <<>> /\ UNCHANGED <<project, checked>>
      /\ walk \in Seq(WalkEntry) /\ project \in Projects
  BY DEF VisitNext, ChainTypeOK, WalkEntry
<1>2. verdict = "none" /\ ~project.skip /\ PathOK(project, walk, checked)
  BY <1>1 DEF WalkInv
<1>3. PICK path : /\ path = [walk EXCEPT ![Len(walk)].todo = Tail(@)]
                  /\ IF t \in checked THEN walk' = path /\ verdict' = verdict
                                      ELSE Visit(t, path)
  BY DEF VisitNext
<1>4. path = [walk EXCEPT ![Len(walk)].todo = Tail(@)]
  BY <1>3
<1>5. /\ path \in Seq(WalkEntry) /\ Len(path) = Len(walk)
      /\ Last(walk).todo \in Seq(Names) /\ Head(Last(walk).todo) \in Names
      /\ \A i \in 1..Len(walk) : path[i].task = walk[i].task
      /\ \A i \in 1..Len(walk) : i < Len(walk) => path[i].todo = walk[i].todo
      /\ path[Len(walk)].todo = Tail(walk[Len(walk)].todo)
  BY ONLY <1>1, <1>4, WalkAdvanced
<1>6. /\ Len(walk) \in Nat \ {0} /\ Last(walk) = walk[Len(walk)]
  BY <1>1, StackTop
<1>7. /\ t \in Declared /\ t \in Lists(project, Last(walk).task)
      /\ \A j \in 1..Len(walk) : walk[j].task # t
  BY <1>1, NextEntry
<1>8. todo \in Seq(Names) /\ todo # <<>> /\ t = Head(todo)
  BY <1>1, <1>5, <1>6
<1>9. \A i \in 1..Len(walk) :
         /\ path[i].task \in Declared
         /\ \A n \in Lists(project, path[i].task) :
               n \in Declared /\ \A j \in 1..i : n # path[j].task
  <2>1. \A i \in 1..Len(walk) : \A j \in 1..i : j \in 1..Len(walk)
    BY <1>6
  <2> QED
    BY <1>5, <2>1 DEF WalkInv
<1> HIDE DEF t, todo
<1>10. CASE t \in checked /\ walk' = path /\ verdict' = verdict
  <2>1. /\ Len(walk') = Len(walk) /\ walk' \in Seq(WalkEntry)
        /\ \A i \in 1..Len(walk) : walk'[i].task = walk[i].task
        /\ \A i \in 1..Len(walk) : i < Len(walk) => walk'[i].todo = walk[i].todo
        /\ walk'[Len(walk)].todo = Tail(todo)
    BY <1>5, <1>10 DEF todo
  <2>2. todo = walk[Len(walk)].todo /\ Head(todo) \in checked
    BY <1>8, <1>10 DEF todo
  <2>3. PathOK(project, walk', checked)
    BY <1>1, <1>2, <1>8, <2>1, <2>2, PathAdvance
  <2>4. walk' # <<>>
    BY <1>6, <2>1, EmptySeq
  <2> QED
    BY <1>1, <1>2, <1>5, <1>9, <1>10, <2>3, <2>4 DEF WalkInv, Declared, Needs
<1>11. CASE t \notin checked /\ Visit(t, path)
  <2>1. CASE walk' = <<>> /\ verdict' # "none"
    BY <1>1, <2>1, RefusalKeepsWalk
  <2>2. CASE /\ verdict' = verdict
             /\ walk' \in Seq(WalkEntry) /\ Len(walk') = Len(path) + 1
             /\ \A i \in 1..Len(path) : walk'[i] = path[i]
             /\ walk'[Len(path) + 1].task = t
             /\ walk'[Len(path) + 1].todo = Expanded(project, t)
             /\ \A n \in ToSet(Expanded(project, t)) :
                   /\ n \in Declared /\ n # t
                   /\ \A i \in 1..Len(path) : n # path[i].task
    <3>1. Lists(project, t) = ToSet(Expanded(project, t))
      BY <1>2, <1>7, ListsAll
    <3>2. /\ Len(walk') = Len(walk) + 1
          /\ \A i \in 1..Len(walk) : walk'[i].task = walk[i].task
          /\ \A i \in 1..Len(walk) : i < Len(walk) => walk'[i].todo = walk[i].todo
          /\ walk'[Len(walk)].todo = Tail(todo)
          /\ walk'[Len(walk) + 1].task = Head(todo)
          /\ ToSet(walk'[Len(walk) + 1].todo) = Lists(project, Head(todo))
      <4>1. Len(walk) \in 1..Len(walk)
        BY <1>6
      <4> QED
        BY <1>5, <1>8, <2>2, <3>1, <4>1 DEF todo
    <3>3. /\ todo = walk[Len(walk)].todo /\ Head(todo) \notin checked
          /\ \A i \in 1..Len(walk) : walk[i].task # Head(todo)
      BY <1>7, <1>8, <1>11 DEF todo
    <3>4. PathOK(project, walk', checked)
      BY <1>1, <1>2, <1>8, <2>2, <3>2, <3>3, PathDescend
    <3>5. \A n \in checked : n \in Declared /\ n \notin Needs[n]
      BY DEF WalkInv
    <3>6. \A n \in Lists(project, t) :
             n \in Declared /\ n # t /\ \A i \in 1..Len(path) : n # path[i].task
      BY <2>2, <3>1
    <3> QED
      BY <1>1, <1>2, <1>5, <1>7, <1>9, <2>2, <3>4, <3>5, <3>6, VisitKeepsWalk
  <2> QED
    BY <1>2, <1>5, <1>7, <1>11, <2>1, <2>2, VisitOutcome
<1> QED
  BY <1>3, <1>10, <1>11


\* A list that has been walked: what its task needs has been walked, and is sound.
LEMMA VisitDoneWalked ==
    ASSUME ChainTypeOK, WalkInv, VisitDone
    PROVE  /\ PathOK(project, walk', checked')
           /\ Needs[Last(walk).task] \subseteq checked
           /\ Last(walk).task \in Declared /\ Last(walk).task \notin checked
           /\ Len(walk) \in Nat \ {0} /\ Last(walk) = walk[Len(walk)]
           /\ walk' \in Seq(WalkEntry) /\ Len(walk') = Len(walk) - 1
           /\ \A i \in 1..Len(walk') : walk'[i] = walk[i]
<1>1. /\ walk # <<>> /\ walk \in Seq(WalkEntry) /\ project \in Projects
      /\ Last(walk).todo = <<>> /\ walk' = Front(walk)
      /\ checked' = checked \cup {Last(walk).task}
  BY DEF VisitDone, ChainTypeOK, WalkEntry
<1>2. /\ Len(walk) \in Nat \ {0} /\ Len(walk) \in 1..Len(walk) /\ Last(walk) = walk[Len(walk)]
      /\ walk' \in Seq(WalkEntry) /\ Len(walk') = Len(walk) - 1
      /\ \A i \in 1..Len(walk') : walk'[i] = walk[i]
  BY <1>1, StackTop
<1>3. PathOK(project, walk, checked)
  BY DEF WalkInv
<1>4. /\ NeedsIn(project)[walk[Len(walk)].task] \subseteq checked
      /\ PathOK(project, walk', checked \cup {walk[Len(walk)].task})
  <2>1. walk[Len(walk)].todo = <<>>
    BY <1>1, <1>2
  <2> QED
    BY <1>1, <1>2, <1>3, <2>1, PathReturn
<1>5. Last(walk).task \in Declared /\ Last(walk).task \notin checked
  BY <1>2, <1>3 DEF WalkInv, PathOK, Behind
<1> QED
  BY <1>1, <1>2, <1>4, <1>5 DEF Needs

LEMMA VisitDoneKeepsWalk ==
    ASSUME ChainTypeOK, WalkInv, VisitDone PROVE WalkInv'
<1> DEFINE t == Last(walk).task
<1>1. /\ PathOK(project, walk', checked')
      /\ Needs[t] \subseteq checked /\ t \in Declared /\ t \notin checked
      /\ Len(walk) \in Nat \ {0}
      /\ walk' \in Seq(WalkEntry) /\ Len(walk') = Len(walk) - 1
      /\ \A i \in 1..Len(walk') : walk'[i] = walk[i]
  BY VisitDoneWalked
<1>2. /\ walk # <<>> /\ checked' = checked \cup {t} /\ project' = project
      /\ verdict' = IF Len(walk) = 1 THEN "running" ELSE verdict
  BY DEF VisitDone
<1>3. verdict = "none" /\ ~project.skip
  BY <1>2 DEF WalkInv
<1> HIDE DEF t
<1>4. \A n \in checked' : n \in Declared /\ n \notin Needs[n]
  <2>1. t \notin Needs[t]
    BY <1>1
  <2> QED
    BY <1>1, <1>2, <2>1 DEF WalkInv
<1>5. \A i \in 1..Len(walk') : i \in 1..Len(walk) /\ \A j \in 1..i : j \in 1..Len(walk')
  BY <1>1
<1>6. \A i \in 1..Len(walk') :
         /\ walk'[i].task \in Declared
         /\ \A n \in Lists(project, walk'[i].task) :
               n \in Declared /\ \A j \in 1..i : n # walk'[j].task
  <2> TAKE i \in 1..Len(walk')
  <2>1. /\ walk[i].task \in Declared
        /\ \A n \in Lists(project, walk[i].task) :
              n \in Declared /\ \A j \in 1..i : n # walk[j].task
    BY <1>5 DEF WalkInv
  <2>2. walk'[i] = walk[i] /\ \A j \in 1..i : walk'[j] = walk[j]
    BY <1>1, <1>5
  <2> QED
    BY <2>1, <2>2
<1>7. walk' # <<>> => Len(walk) # 1
  <2>1. walk' # <<>> => Len(walk') \in Nat \ {0}
    BY <1>1, EmptySeq
  <2> QED
    BY <1>1, <2>1
<1>8. walk' = <<>> => Len(walk) = 1
  BY <1>1
<1> QED
  BY <1>1, <1>2, <1>3, <1>4, <1>6, <1>7, <1>8 DEF WalkInv, Declared, Needs

\* No step of the chain goes back to before the check.
LEMMA TaskStepVerdict ==
    ASSUME ChainTypeOK, FrameInv, TaskStep, verdict = "running"
    PROVE  verdict' # "none"
<1>1. ASSUME NEW t \in Names, NEW stack \in Seq(FrameEntry), Call(t, stack)
      PROVE  verdict' # "none"
  BY <1>1, CallOutcome
<1>2. CASE CallRequested
  <2>1. Requested \in Names /\ <<>> \in Seq(FrameEntry)
    BY ChainAssumption, EmptySeq
  <2> QED
    BY <1>1, <1>2, <2>1 DEF CallRequested
<1>3. CASE CallPrerequisite
  <2>1. PICK stack \in Seq(FrameEntry) :
           Head(Top.todo) \in Names /\ Call(Head(Top.todo), stack)
    BY <1>3, CallPrerequisiteOutcome
  <2> QED
    BY <1>1, <2>1
<1>4. CASE RunReturns
  <2>1. outcome # "none"
    BY <1>4 DEF RunReturns, FrameInv
  <2> QED
    BY <1>4, <2>1 DEF RunReturns, Fail
<1>5. CASE CheckSignal \/ PrerequisitesOnly \/ EvaluateFails \/ BeginRun \/ Run \/ Finished
  BY <1>5 DEF CheckSignal, PrerequisitesOnly, EvaluateFails, BeginRun, Run, Finished,
     Fail, chainVars
<1> QED
  BY <1>2, <1>3, <1>4, <1>5 DEF TaskStep

LEMMA WalkStep ==
    ASSUME ChainTypeOK, WalkInv, FrameInv, [ChainNext]_vars PROVE WalkInv'
<1>1. CASE CheckStep
  BY <1>1, StartKeepsWalk, VisitNextKeepsWalk, VisitDoneKeepsWalk DEF CheckStep
<1>2. CASE UNCHANGED <<walk, checked, project>> /\ verdict' = verdict
  BY <1>2 DEF WalkInv, Declared, Needs
<1>3. CASE TaskStep /\ verdict = "running" /\ UNCHANGED <<walk, checked, project>>
  <2>1. verdict' # "none" /\ walk' = <<>>
    BY <1>3, TaskStepVerdict DEF WalkInv
  <2> QED
    BY <1>3, <2>1, RefusalKeepsWalk
<1> QED
  BY <1>1, <1>2, <1>3, StepKinds DEF walkFrame, Signal, vars, chainVars


\* A task that is needed lists something undeclared, or something that needs it.
LEMMA Unsound ==
    ASSUME NEW config \in Projects,
           NEW t \in {Requested} \cup NeedsIn(config)[Requested],
           NEW n \in Lists(config, t)
    PROVE  /\ n \notin DOMAIN config.lists => ~Sound(config)
           /\ n = t \/ t \in NeedsIn(config)[n] => ~Sound(config)
<1>1. Requested \in Names /\ t \in Names /\ n \in Names
  BY ChainAssumption, NeedsLeast, ListsAreNames
<1>2. n \in NeedsIn(config)[t]
  BY <1>1, NeedsLeast
<1>3. n \in NeedsIn(config)[Requested]
  BY <1>1, <1>2, NeedsTransitive
<1>4. t \in NeedsIn(config)[n] => n \in NeedsIn(config)[n]
  BY <1>1, <1>2, NeedsTransitive
<1> QED
  BY <1>2, <1>3, <1>4 DEF Sound

\* A refusal is of an unsound project.
LEMMA RefusalIsRight ==
    ASSUME ChainTypeOK, ~project.skip, NEW t \in Declared,
           t \in Involved, NEW path \in Seq(WalkEntry),
           \A i \in 1..Len(path) : t \in Needs[path[i].task],
           NEW n \in ToSet(Expanded(project, t)),
           n \notin Declared \/ n = t \/ \E i \in 1..Len(path) : n = path[i].task
    PROVE  ~Sound(project)
<1>1. n \in Lists(project, t)
  BY ListsAll
<1>2. project \in Projects
  BY DEF ChainTypeOK
<1> QED
  BY <1>1, <1>2, Unsound DEF Involved, Needs, Declared

\* While the check goes on, no task has been touched.
LEMMA CheckStepVerdict ==
    ASSUME ChainTypeOK, WalkInv, VerdictInv, CheckStep,
           UNCHANGED <<runVars, project, runFrame>>
    PROVE  VerdictInv'
<1>0. verdict = "none" /\ project \in Projects
  BY DEF CheckStep, Start, VisitNext, VisitDone, WalkInv, ChainTypeOK
<1>1. /\ frames' = <<>> /\ executed' = {} /\ begun' = <<>> /\ heard' = heard
      /\ ~heard /\ late' = 0
  BY <1>0 DEF VerdictInv, runFrame
<1>2. SUFFICES /\ verdict' \in {"none", "unknown", "missing", "cycle", "running"}
               /\ verdict' = "running" => Sound(project)
               /\ verdict' \in {"missing", "cycle"} => ~Sound(project)
  BY <1>1 DEF VerdictInv
<1>3. CASE Start
  <2>1. CASE verdict' = "unknown"
    BY <2>1
  <2>2. CASE Requested \in Declared /\ project.skip /\ verdict' = "running"
    <3>1. Lists(project, Requested) = {}
      BY <2>2 DEF Lists
    <3>2. Requested \in Names /\ {} \in SUBSET Names /\ ListsClosed(project, {})
      BY ChainAssumption DEF ListsClosed
    <3>3. NeedsIn(project)[Requested] \subseteq {}
      BY <1>0, <3>1, <3>2, NeedsWithin
    <3> QED
      BY <2>2, <3>3 DEF Sound, Declared
  <2>3. CASE Requested \in Declared /\ ~project.skip /\ Visit(Requested, <<>>)
    <3>1. <<>> \in Seq(WalkEntry) /\ \A i \in 1..Len(<<>>) : FALSE
      BY EmptySeq
    <3>2. CASE verdict' = verdict
      BY <1>0, <3>2
    <3>3. CASE \E n \in ToSet(Expanded(project, Requested)) :
                  \/ verdict' = "missing" /\ n \notin Declared
                  \/ verdict' = "cycle" /\ n = Requested
      <4>1. Requested \in Involved
        BY DEF Involved
      <4> QED
        BY <2>3, <3>1, <3>3, <4>1, RefusalIsRight
    <3> QED
      BY <2>3, <3>1, <3>2, <3>3, VisitOutcome
  <2> QED
    BY <1>3, <2>1, <2>2, <2>3 DEF Start
<1>4. CASE VisitNext
  <2> DEFINE t == Head(Last(walk).todo)
  <2>1. walk # <<>> /\ Last(walk).todo # <<>> /\ walk \in Seq(WalkEntry)
    BY <1>4 DEF VisitNext, ChainTypeOK, WalkEntry
  <2>2. PICK path : /\ path = [walk EXCEPT ![Len(walk)].todo = Tail(@)]
                    /\ verdict' = verdict \/ Visit(t, path)
    BY <1>4 DEF VisitNext
  <2>3. path = [walk EXCEPT ![Len(walk)].todo = Tail(@)]
    BY <2>2
  <2>4. /\ path \in Seq(WalkEntry) /\ Len(path) = Len(walk)
        /\ \A i \in 1..Len(walk) : path[i].task = walk[i].task
    BY ONLY <2>1, <2>3, WalkAdvanced
  <2>5. t \in Declared /\ t \in Lists(project, Last(walk).task)
    BY <2>1, NextEntry
  <2>6. /\ Last(walk) = walk[Len(walk)] /\ Descends(project, walk) /\ ~project.skip
        /\ Len(walk) \in Nat \ {0}
    BY <2>1, StackTop DEF WalkInv, PathOK
  <2> HIDE DEF t
  <2>7. \A i \in 1..Len(walk) : t \in Needs[walk[i].task]
    BY <1>0, <2>1, <2>5, <2>6, NeededFromAbove DEF Needs
  <2>8. t \in Involved
    <3>1. 1 \in 1..Len(walk) /\ walk[1].task = Requested
      BY <2>1, <2>6 DEF Descends
    <3> QED
      BY <2>7, <3>1 DEF Involved
  <2>9. CASE verdict' = verdict
    BY <1>0, <2>9
  <2>10. CASE \E n \in ToSet(Expanded(project, t)) :
                 \/ verdict' = "missing" /\ n \notin Declared
                 \/ /\ verdict' = "cycle"
                    /\ n = t \/ \E i \in 1..Len(path) : n = path[i].task
    <3>1. PICK n \in ToSet(Expanded(project, t)) :
                 \/ verdict' = "missing" /\ n \notin Declared
                 \/ /\ verdict' = "cycle"
                    /\ n = t \/ \E i \in 1..Len(path) : n = path[i].task
      BY <2>10
    <3>2. \A i \in 1..Len(path) : t \in Needs[path[i].task]
      BY <2>4, <2>7
    <3>3. ~Sound(project)
      BY <2>4, <2>5, <2>6, <2>8, <3>1, <3>2, RefusalIsRight
    <3> QED
      BY <3>1, <3>3
  <2> QED
    BY <2>2, <2>4, <2>5, <2>9, <2>10, VisitOutcome
<1>5. CASE VisitDone
  <2>1. verdict' = IF Len(walk) = 1 THEN "running" ELSE verdict
    BY <1>5 DEF VisitDone
  <2>2. CASE Len(walk) = 1
    <3>1. /\ Needs[Last(walk).task] \subseteq checked
          /\ Last(walk).task \in Declared /\ Last(walk).task \notin checked
          /\ Last(walk) = walk[1]
      BY <1>5, <2>2, VisitDoneWalked
    <3>2. walk[1].task = Requested
      BY <1>5, <2>2 DEF VisitDone, WalkInv, PathOK, Descends
    <3>3. Sound(project)
      BY <3>1, <3>2 DEF Sound, WalkInv, Needs, Declared
    <3> QED
      BY <2>1, <2>2, <3>3
  <2> QED
    BY <1>0, <2>1, <2>2
<1> QED
  BY <1>3, <1>4, <1>5 DEF CheckStep


----------------------------------------------------------------------------
(* The chain.                                                              *)

\* A path is told by its tasks and what is left of their lists.
LEMMA PathSame ==
    ASSUME NEW config, NEW R, NEW stack \in Seq(R), NEW done,
           PathOK(config, stack, done),
           NEW stack2 \in Seq(R), Len(stack2) = Len(stack),
           \A i \in 1..Len(stack) :
              stack2[i].task = stack[i].task /\ stack2[i].todo = stack[i].todo
    PROVE  PathOK(config, stack2, done)
<1>1. Len(stack) \in Nat /\ (stack2 = <<>> => stack = <<>>)
       /\ (stack # <<>> => 1 \in 1..Len(stack)) /\ (stack = <<>> => stack2 = <<>>)
  BY EmptySeq, LenProperties
<1>2. Descends(config, stack2)
  BY <1>1 DEF PathOK, Descends
<1>3. Behind(config, stack2, done)
  BY DEF PathOK, Behind
<1>4. \A i \in 1..Len(stack) : i < Len(stack) => i + 1 \in 1..Len(stack)
  BY <1>1
<1>5. Covered(config, stack2, done)
  BY <1>4 DEF PathOK, Covered
<1> QED
  BY <1>2, <1>3, <1>5 DEF PathOK

\* The prerequisite about to be called is needed by every task in progress.
LEMMA NextCall ==
    ASSUME ChainTypeOK, FrameInv, frames # <<>>, Top.todo # <<>>
    PROVE  /\ Head(Top.todo) \in Lists(project, Top.task)
           /\ \A i \in 1..Len(frames) : Head(Top.todo) \in Needs[frames[i].task]
           /\ Head(Top.todo) \in Involved
<1>1. /\ frames \in Seq(FrameEntry) /\ Top \in FrameEntry /\ Top = frames[Len(frames)]
      /\ Len(frames) \in Nat \ {0} /\ Len(frames) \in 1..Len(frames)
      /\ project \in Projects
  BY TopFrame DEF ChainTypeOK
<1>2. Top.todo \in Seq(Names)
  BY <1>1 DEF FrameEntry
<1>3. Head(Top.todo) \in ToSet(Top.todo)
  BY <1>2, HeadOrTail
<1>4. Descends(project, frames) /\ ToSet(Top.todo) \subseteq Lists(project, Top.task)
  BY <1>1 DEF FrameInv, PathOK, Covered
<1>5. \A i \in 1..Len(frames) : Head(Top.todo) \in Needs[frames[i].task]
  BY <1>1, <1>3, <1>4, NeededFromAbove DEF Needs
<1>6. 1 \in 1..Len(frames) /\ frames[1].task = Requested
  BY <1>1, <1>4 DEF Descends
<1> QED
  BY <1>3, <1>4, <1>5, <1>6 DEF Involved

\* Every task in progress is one the named task takes in.
LEMMA FramesInvolved ==
    ASSUME ChainTypeOK, FrameInv, NEW i \in 1..Len(frames)
    PROVE  frames[i].task \in Involved
<1>1. frames \in Seq(FrameEntry) /\ project \in Projects
  BY DEF ChainTypeOK, FrameEntry
<1>2. Descends(project, frames)
  BY DEF FrameInv, PathOK
<1> QED
  BY <1>1, <1>2, PathInvolved DEF Involved, Needs

\* In a sound project no call is refused: the backstop is never reached.
LEMMA CallNotRefused ==
    ASSUME ChainTypeOK, FrameInv, VerdictInv, frames # <<>>, Top.todo # <<>>
    PROVE  Head(Top.todo) \in Declared /\ ~InProgress(Head(Top.todo))
<1>1. Sound(project)
  BY DEF FrameInv, VerdictInv
<1>2. Head(Top.todo) \in Declared
  BY <1>1, NextCall DEF Sound, Involved, Needs, Declared
<1>3. ASSUME NEW i \in DOMAIN frames, frames[i].task = Head(Top.todo) PROVE FALSE
  <2>1. i \in 1..Len(frames)
    BY TopFrame, LenProperties
  <2>2. frames[i].task \in Involved /\ frames[i].task \in Needs[frames[i].task]
    BY <1>3, <2>1, NextCall, FramesInvolved
  <2> QED
    BY <1>1, <2>2 DEF Sound, Involved, Needs
<1> QED
  BY <1>2, <1>3 DEF InProgress

\* Every task in progress is left.
LEMMA FramesLeft ==
    ASSUME FrameInv, frames' = <<>>, UNCHANGED <<executed, project>>,
           stage' = "idle"
    PROVE  FrameInv'
<1>1. PathOK(project, <<>>, executed)
  BY PathEmpty DEF FrameInv, PathOK, Behind
<1> QED
  BY <1>1 DEF FrameInv, Involved, Needs

\* The innermost task goes to another place.
LEMMA FramesGo ==
    ASSUME ChainTypeOK, FrameInv, frames # <<>>,
           NEW there \in {"checking", "calling", "running"}, GoTo(there),
           there = "calling" => Top.todo # <<>>,
           there = "running" => Top.todo = <<>> /\ Top.task \in project.runs,
           UNCHANGED <<executed, project, verdict>>,
           stage' # "idle" <=> there = "running",
           stage' \in {"cleanup", "over"} => outcome' # "none"
    PROVE  FrameInv'
<1>1. /\ frames' \in Seq(FrameEntry) /\ Len(frames') = Len(frames)
      /\ \A i \in 1..Len(frames) : i < Len(frames) => frames'[i] = frames[i]
      /\ frames'[Len(frames)].task = Top.task
      /\ frames'[Len(frames)].todo = Top.todo
      /\ frames'[Len(frames)].at = there
  BY GoToOutcome
<1>2. /\ frames \in Seq(FrameEntry) /\ Top = frames[Len(frames)]
      /\ Len(frames) \in Nat \ {0}
  BY TopFrame
<1>3. \A i \in 1..Len(frames) : i < Len(frames) \/ i = Len(frames)
  BY <1>2
<1>4. \A i \in 1..Len(frames) :
         frames'[i].task = frames[i].task /\ frames'[i].todo = frames[i].todo
  BY <1>1, <1>2, <1>3
<1>5. PathOK(project, frames', executed)
  BY <1>1, <1>2, <1>4, PathSame DEF FrameInv
<1>6. frames' # <<>> /\ Top'.at = there
  BY <1>1, <1>2 DEF Top, Last
<1>7. \A i \in 1..Len(frames') :
         /\ i < Len(frames') => frames'[i].at = "checking"
         /\ frames'[i].at = "calling" => frames'[i].todo # <<>>
         /\ frames'[i].at = "running" =>
               frames'[i].todo = <<>> /\ frames'[i].task \in project.runs
  BY <1>1, <1>3 DEF FrameInv
<1> QED
  BY <1>5, <1>6, <1>7 DEF FrameInv, Involved, Needs


\* The innermost task returns: all it needs has run.
LEMMA FramesReturn ==
    ASSUME ChainTypeOK, FrameInv, frames # <<>>, Top.todo = <<>>, Return,
           UNCHANGED <<project, verdict>>, stage' = "idle"
    PROVE  FrameInv' /\ Needs[Top.task] \subseteq executed
<1>1. /\ frames \in Seq(FrameEntry) /\ Top = frames[Len(frames)]
      /\ Len(frames) \in Nat \ {0} /\ Len(frames) \in 1..Len(frames)
      /\ project \in Projects
  BY TopFrame DEF ChainTypeOK
<1>2. /\ frames' \in Seq(FrameEntry) /\ Len(frames') = Len(frames) - 1
      /\ \A i \in 1..Len(frames') : frames'[i] = frames[i]
      /\ executed' = executed \cup {Top.task}
  BY ReturnOutcome
<1>3. /\ NeedsIn(project)[Top.task] \subseteq executed
      /\ PathOK(project, frames', executed')
  <2>1. PathOK(project, frames, executed) /\ frames[Len(frames)].todo = <<>>
    BY <1>1 DEF FrameInv
  <2>2. /\ NeedsIn(project)[frames[Len(frames)].task] \subseteq executed
        /\ PathOK(project, frames', executed \cup {frames[Len(frames)].task})
    BY <1>1, <1>2, <2>1, PathReturn
  <2> QED
    BY <1>1, <1>2, <2>2
<1>4. executed' \subseteq Involved
  BY <1>1, <1>2, FramesInvolved DEF FrameInv
<1>5. \A i \in 1..Len(frames') : i \in 1..Len(frames) /\ i < Len(frames)
  BY <1>1, <1>2
<1>6. \A i \in 1..Len(frames') : frames'[i].at = "checking"
  BY <1>2, <1>5 DEF FrameInv
<1>7. ~(frames' # <<>> /\ Top'.at = "running")
  <2>1. frames' # <<>> => Len(frames') \in 1..Len(frames')
    BY <1>2, EmptySeq
  <2> QED
    BY <1>6, <2>1 DEF Top, Last
<1> QED
  BY <1>3, <1>4, <1>6, <1>7 DEF FrameInv, Involved, Needs

\* The next prerequisite is called: passed over, or entered.
LEMMA FramesCall ==
    ASSUME ChainTypeOK, FrameInv, VerdictInv, CallPrerequisite PROVE FrameInv'
<1> DEFINE t == Head(Top.todo)
<1>1. /\ frames # <<>> /\ verdict = "running" /\ Top.todo # <<>> /\ Top.at = "calling"
      /\ Top.todo \in Seq(Names)
  BY CallPrerequisiteOutcome
<1>2. PICK stack \in Seq(FrameEntry) :
         /\ Len(stack) = Len(frames)
         /\ \A i \in 1..Len(frames) : i < Len(frames) => stack[i] = frames[i]
         /\ stack[Len(frames)].task = Top.task
         /\ stack[Len(frames)].todo = Tail(Top.todo)
         /\ stack[Len(frames)].at = "checking"
         /\ t \in Names /\ Call(t, stack)
  BY CallPrerequisiteOutcome
<1>3. /\ frames \in Seq(FrameEntry) /\ Top = frames[Len(frames)]
      /\ Len(frames) \in Nat \ {0} /\ Len(frames) \in 1..Len(frames)
      /\ project \in Projects
  BY <1>1, TopFrame DEF ChainTypeOK
<1>4. UNCHANGED <<stage, outcome, project, executed>> /\ stage = "idle"
  BY <1>1 DEF CallPrerequisite, runVars, walkFrame, FrameInv
<1>5. t \in Declared /\ ~InProgress(t)
  BY <1>1, CallNotRefused
<1>6. PathOK(project, frames, executed)
  BY DEF FrameInv
<1>7. \A i \in 1..Len(frames) : i < Len(frames) \/ i = Len(frames)
  BY <1>3
<1>8. \A i \in 1..Len(frames) : stack[i].task = frames[i].task /\ stack[i].at = "checking"
  BY <1>2, <1>3, <1>7 DEF FrameInv
<1> HIDE DEF t
<1>9. CASE t \in executed /\ frames' = stack /\ verdict' = verdict
  <2>1. PathOK(project, frames', executed)
    <3>1. /\ frames' \in Seq(FrameEntry) /\ Len(frames') = Len(frames)
          /\ \A i \in 1..Len(frames) : frames'[i].task = frames[i].task
          /\ \A i \in 1..Len(frames) : i < Len(frames) => frames'[i].todo = frames[i].todo
          /\ frames'[Len(frames)].todo = Tail(Top.todo)
      BY <1>2, <1>8, <1>9
    <3>2. Top.todo = frames[Len(frames)].todo /\ Head(Top.todo) \in executed
      BY <1>3, <1>9 DEF t
    <3> QED
      BY <1>1, <1>3, <1>6, <3>1, <3>2, PathAdvance
  <2>2. \A i \in 1..Len(frames') : frames'[i].at = "checking"
    BY <1>2, <1>8, <1>9
  <2>3. ~(frames' # <<>> /\ Top'.at = "running")
    BY <1>2, <1>3, <1>9, <2>2 DEF Top, Last
  <2> QED
    BY <1>1, <1>4, <1>9, <2>1, <2>2, <2>3 DEF FrameInv, Involved, Needs
<1>10. CASE /\ t \notin executed /\ t \in Declared /\ ~InProgress(t)
            /\ verdict' = verdict
            /\ frames' \in Seq(FrameEntry) /\ Len(frames') = Len(stack) + 1
            /\ \A i \in 1..Len(stack) : frames'[i] = stack[i]
            /\ frames'[Len(stack) + 1].task = t
            /\ frames'[Len(stack) + 1].at = "checking"
            /\ frames'[Len(stack) + 1].todo =
                  IF stack = <<>> /\ project.skip THEN <<>> ELSE Expanded(project, t)
  <2>1. \A i \in 1..Len(frames) : frames[i].task # t
    BY <1>3, <1>5, LenProperties DEF InProgress
  <2>2. t # Requested
    <3>1. 1 \in 1..Len(frames) /\ frames[1].task = Requested
      BY <1>1, <1>3, <1>6 DEF PathOK, Descends
    <3> QED
      BY <2>1, <3>1
  <2>3. stack # <<>>
    BY <1>2, <1>3, EmptySeq
  <2>4. ToSet(frames'[Len(frames) + 1].todo) = Lists(project, t)
    BY <1>2, <1>10, <2>2, <2>3, ListsAll
  <2>5. PathOK(project, frames', executed)
    <3>1. /\ frames' \in Seq(FrameEntry) /\ Len(frames') = Len(frames) + 1
          /\ \A i \in 1..Len(frames) : frames'[i].task = frames[i].task
          /\ \A i \in 1..Len(frames) : i < Len(frames) => frames'[i].todo = frames[i].todo
          /\ frames'[Len(frames)].todo = Tail(Top.todo)
          /\ frames'[Len(frames) + 1].task = Head(Top.todo)
          /\ ToSet(frames'[Len(frames) + 1].todo) = Lists(project, Head(Top.todo))
      BY <1>2, <1>3, <1>8, <1>10, <2>4 DEF t
    <3>2. /\ Top.todo = frames[Len(frames)].todo /\ Head(Top.todo) \notin executed
          /\ \A i \in 1..Len(frames) : frames[i].task # Head(Top.todo)
      BY <1>3, <1>10, <2>1 DEF t
    <3> QED
      BY <1>1, <1>3, <1>6, <3>1, <3>2, PathDescend
  <2>6. \A i \in 1..Len(frames') : frames'[i].at = "checking"
    <3>1. \A i \in 1..Len(frames') : i \in 1..Len(frames) \/ i = Len(frames) + 1
      BY <1>2, <1>3, <1>10
    <3> QED
      BY <1>2, <1>8, <1>10, <3>1
  <2>7. ~(frames' # <<>> /\ Top'.at = "running")
    <3>1. Len(frames') \in 1..Len(frames')
      BY <1>2, <1>3, <1>10
    <3> QED
      BY <2>6, <3>1 DEF Top, Last
  <2> QED
    BY <1>1, <1>4, <1>10, <2>5, <2>6, <2>7 DEF FrameInv, Involved, Needs
<1> QED
  BY <1>2, <1>5, <1>9, <1>10, CallOutcome

\* The named task is entered.
LEMMA FramesFirst ==
    ASSUME ChainTypeOK, FrameInv, VerdictInv, CallRequested
    PROVE  /\ FrameInv' /\ verdict' = verdict
           /\ Len(frames') = 1 /\ frames'[1].baseline = signals
           /\ frames'[1].at = "checking"
<1>1. /\ verdict = "running" /\ frames = <<>> /\ Requested \notin executed
      /\ Call(Requested, <<>>) /\ UNCHANGED <<stage, outcome, project, executed>>
      /\ project \in Projects
  BY DEF CallRequested, runVars, walkFrame, ChainTypeOK
<1>2. <<>> \in Seq(FrameEntry) /\ Len(<<>>) = 0 /\ Requested \in Names /\ DOMAIN frames = {}
  BY <1>1, EmptySeq, ChainAssumption
<1>3. Requested \in Declared /\ ~InProgress(Requested)
  BY <1>1, <1>2 DEF VerdictInv, Sound, Declared, InProgress
<1>4. /\ verdict' = verdict
      /\ frames' \in Seq(FrameEntry) /\ Len(frames') = 1
      /\ frames'[1].task = Requested
      /\ frames'[1].baseline = signals /\ frames'[1].at = "checking"
      /\ frames'[1].todo = IF project.skip THEN <<>> ELSE Expanded(project, Requested)
  <2>1. PICK stack \in Seq(FrameEntry) :
           stack = <<>> /\ Len(stack) = 0 /\ Call(Requested, stack)
    BY <1>1, <1>2
  <2>2. /\ verdict' = verdict
        /\ frames' \in Seq(FrameEntry) /\ Len(frames') = Len(stack) + 1
        /\ frames'[Len(stack) + 1].task = Requested
        /\ frames'[Len(stack) + 1].baseline = signals
        /\ frames'[Len(stack) + 1].at = "checking"
        /\ frames'[Len(stack) + 1].todo =
              IF stack = <<>> /\ project.skip THEN <<>> ELSE Expanded(project, Requested)
    <3>1. Call(Requested, stack)
      BY <2>1
    <3> QED
      BY ONLY <1>1, <1>2, <1>3, <3>1, ChainTypeOK, stack \in Seq(FrameEntry), CallOutcome
  <2>3. Len(stack) + 1 = 1
    BY <2>1
  <2> QED
    BY <2>1, <2>2, <2>3
<1>5. ToSet(frames'[1].todo) = Lists(project, Requested)
  <2>1. CASE project.skip
    BY <1>4, <2>1 DEF Lists, ToSet
  <2>2. CASE ~project.skip
    BY <1>3, <1>4, <2>2, ListsAll
  <2> QED
    BY <2>1, <2>2
<1>6. executed \subseteq Names /\ ListsClosed(project, executed)
  BY DEF FrameInv, PathOK, Behind
<1>7. PathOK(project, frames', executed)
  BY <1>1, <1>4, <1>5, <1>6, PathStart
<1>8. \A i \in 1..Len(frames') : i = 1
  BY <1>4
<1>9. Top'.at = "checking" /\ stage = "idle"
  BY <1>1, <1>4 DEF Top, Last, FrameInv
<1>10. \A i \in 1..Len(frames') : frames'[i].at = "checking"
  BY <1>4, <1>8
<1> QED
  BY <1>1, <1>4, <1>7, <1>9, <1>10 DEF FrameInv, Involved, Needs


LEMMA FrameStep ==
    ASSUME ChainTypeOK, WalkInv, VerdictInv, FrameInv, [ChainNext]_vars
    PROVE  FrameInv'
<1>0. project' = project
  BY ProjectStays
<1>1. CASE CheckStep /\ UNCHANGED <<runVars, runFrame>>
  <2>1. verdict = "none"
    BY <1>1 DEF CheckStep, Start, VisitNext, VisitDone, WalkInv
  <2>2. frames = <<>> /\ frames' = <<>> /\ executed' = executed /\ stage' = stage
    BY <1>1, <2>1 DEF VerdictInv, runFrame, runVars
  <2>3. stage = "idle"
    BY <2>2 DEF FrameInv
  <2> QED
    BY <1>0, <2>2, <2>3, FramesLeft
<1>2. CASE CallRequested
  BY <1>2, FramesFirst
<1>3. CASE CallPrerequisite
  BY <1>3, FramesCall
<1>4. ASSUME frames # <<>>, Top.at = "checking" PROVE stage = "idle"
  BY <1>4 DEF FrameInv
<1>5. CASE CheckSignal
  <2>1. /\ frames # <<>> /\ Top.at = "checking" /\ Top.todo # <<>>
        /\ UNCHANGED <<executed, stage, outcome>>
    BY <1>5 DEF CheckSignal, Active, runVars
  <2>2. stage' = "idle"
    BY <1>4, <2>1
  <2>3. CASE frames' = <<>>
    BY <1>0, <2>1, <2>2, <2>3, FramesLeft
  <2>4. CASE GoTo("calling") /\ verdict' = verdict
    BY <1>0, <2>1, <2>2, <2>4, FramesGo
  <2> QED
    BY <1>5, <2>3, <2>4 DEF CheckSignal, Fail
<1>6. CASE PrerequisitesOnly
  <2>1. /\ frames # <<>> /\ Top.at = "checking" /\ Top.todo = <<>> /\ Return
        /\ UNCHANGED <<stage, verdict>>
    BY <1>6 DEF PrerequisitesOnly, Active, runVars
  <2> QED
    BY <1>0, <1>4, <2>1, FramesReturn
<1>7. CASE EvaluateFails
  <2>1. /\ frames # <<>> /\ Top.at = "checking" /\ frames' = <<>>
        /\ UNCHANGED <<executed, stage>>
    BY <1>7 DEF EvaluateFails, Active, Fail, runVars
  <2> QED
    BY <1>0, <1>4, <2>1, FramesLeft
<1>8. CASE BeginRun
  <2>1. /\ frames # <<>> /\ Top.at = "checking" /\ Top.todo = <<>>
        /\ Top.task \in project.runs /\ executed' = executed
    BY <1>8 DEF BeginRun, Active
  <2>2. CASE frames' = <<>> /\ stage' = stage
    BY <1>0, <1>4, <2>1, <2>2, FramesLeft
  <2>3. CASE GoTo("running") /\ stage' = "live" /\ verdict' = verdict
    BY <1>0, <2>1, <2>3, FramesGo
  <2> QED
    BY <1>8, <2>2, <2>3 DEF BeginRun, Fail
<1>9. CASE Run
  <2>1. /\ stage # "idle" /\ stage' \in {"cleanup", "over"} /\ UNCHANGED <<frames, executed, verdict>>
    BY <1>9 DEF Run, Ends, Interrupts, CleansUp, chainVars
  <2>2. outcome' # "none"
    BY <1>9 DEF Run, Ends, Interrupts, CleansUp, FrameInv
  <2> QED
    BY <1>0, <2>1, <2>2 DEF FrameInv, Top, Involved, Needs
<1>10. CASE RunReturns
  <2>1. frames # <<>> /\ Top.at = "running" /\ stage' = "idle"
    BY <1>10 DEF RunReturns, Active
  <2>2. Top.todo = <<>>
    BY <2>1, TopFrame
  <2>3. CASE Return /\ verdict' = verdict
    BY <1>0, <2>1, <2>2, <2>3, FramesReturn
  <2>4. CASE frames' = <<>> /\ executed' = executed
    BY <1>0, <2>1, <2>4, FramesLeft
  <2> QED
    BY <1>10, <2>3, <2>4 DEF RunReturns, Fail
<1>11. CASE Finished
  <2>1. frames' = <<>> /\ frames = <<>> /\ UNCHANGED <<executed, stage>>
    BY <1>11 DEF Finished, runVars
  <2>2. stage = "idle"
    BY <2>1 DEF FrameInv
  <2> QED
    BY <1>0, <2>1, <2>2, FramesLeft
<1>12. CASE UNCHANGED <<stage, outcome, frames, executed, verdict>>
  BY <1>0, <1>12 DEF FrameInv, Top, Involved, Needs
<1> QED
  BY <1>1, <1>2, <1>3, <1>5, <1>6, <1>7, <1>8, <1>9, <1>10, <1>11, <1>12, StepKinds
     DEF TaskStep, Signal, Signalled, vars, runVars, chainVars

\* Once the check has passed, the invocation goes on or ends with a task's answer.
LEMMA TaskStepGoesOn ==
    ASSUME ChainTypeOK, FrameInv, VerdictInv, TaskStep, verdict = "running"
    PROVE  verdict' \in {"running", "ok", "failed", "signal", "untagged"}
<1>1. CASE CallRequested
  BY <1>1, FramesFirst
<1>2. CASE CallPrerequisite
  <2>1. frames # <<>> /\ Top.todo # <<>>
    BY <1>2, CallPrerequisiteOutcome
  <2>2. PICK stack \in Seq(FrameEntry) :
           Head(Top.todo) \in Names /\ Call(Head(Top.todo), stack)
    BY <1>2, CallPrerequisiteOutcome
  <2>3. verdict' = verdict
    BY <2>1, <2>2, CallNotRefused, CallOutcome
  <2> QED
    BY <2>3
<1>3. CASE RunReturns
  <2>1. outcome # "none" /\ outcome \in {"none", "ok", "failed", "signal"}
    BY <1>3 DEF RunReturns, FrameInv, ChainTypeOK
  <2> QED
    BY <1>3, <2>1 DEF RunReturns, Fail
<1>4. CASE CheckSignal \/ PrerequisitesOnly \/ EvaluateFails \/ BeginRun \/ Run \/ Finished
  BY <1>4 DEF CheckSignal, PrerequisitesOnly, EvaluateFails, BeginRun, Run, Finished,
     Fail, chainVars
<1> QED
  BY <1>1, <1>2, <1>3, <1>4 DEF TaskStep

LEMMA VerdictStep ==
    ASSUME ChainTypeOK, WalkInv, FrameInv, VerdictInv, [ChainNext]_vars
    PROVE  VerdictInv'
<1>0. project' = project
  BY ProjectStays
<1>1. CASE CheckStep /\ UNCHANGED <<runVars, project, runFrame>>
  BY <1>1, CheckStepVerdict
<1>2. CASE TaskStep /\ verdict = "running"
  <2>1. verdict' \in {"running", "ok", "failed", "signal", "untagged"} /\ Sound(project)
    BY <1>2, TaskStepGoesOn DEF VerdictInv
  <2> QED
    BY <1>0, <2>1 DEF VerdictInv
<1>3. CASE Signal
  <2>1. /\ UNCHANGED <<frames, executed, verdict, begun, late>>
        /\ heard' = (heard \/ stage \in {"live", "cleanup"})
    BY <1>3 DEF Signal
  <2>2. frames = <<>> => stage = "idle"
    BY DEF FrameInv
  <2>3. verdict \in {"none", "unknown", "missing", "cycle"} => ~heard'
    BY <2>1, <2>2 DEF VerdictInv
  <2> QED
    BY <1>0, <2>1, <2>3 DEF VerdictInv
<1>4. CASE UNCHANGED vars
  BY <1>4 DEF VerdictInv, vars, chainVars
<1> QED
  BY <1>1, <1>2, <1>3, <1>4, StepKinds


----------------------------------------------------------------------------
(* What has run.                                                           *)

\* When its list is at its end, all that the innermost task needs has run.
LEMMA TopNeeds ==
    ASSUME ChainTypeOK, FrameInv, frames # <<>>, Top.todo = <<>>
    PROVE  /\ Needs[Top.task] \subseteq executed
           /\ Top.task \in Names /\ Top.task \notin executed
<1>1. /\ frames \in Seq(FrameEntry) /\ Top = frames[Len(frames)] /\ Top \in FrameEntry
      /\ Len(frames) \in 1..Len(frames) /\ project \in Projects
  BY TopFrame DEF ChainTypeOK
<1>2. PathOK(project, frames, executed) /\ frames[Len(frames)].todo = <<>>
  BY <1>1 DEF FrameInv
<1>3. PICK below \in Seq(FrameEntry) :
         /\ Len(below) = Len(frames) - 1
         /\ \A i \in 1..Len(below) : below[i] = frames[i]
  BY <1>1, StackTop
<1>4. NeedsIn(project)[frames[Len(frames)].task] \subseteq executed
  BY <1>1, <1>2, <1>3, PathReturn
<1> QED
  BY <1>1, <1>2, <1>4 DEF Needs, FrameEntry, PathOK, Behind

\* The named task's return means that everything it takes in has run.
LEMMA AllHasRun ==
    ASSUME ChainTypeOK, FrameInv, Requested \in executed
    PROVE  executed = Involved
<1>1. /\ executed \in SUBSET Names /\ ListsClosed(project, executed)
      /\ project \in Projects /\ Requested \in Names
  BY ChainAssumption DEF FrameInv, PathOK, Behind, ChainTypeOK
<1>2. Lists(project, Requested) \subseteq executed
  BY <1>1 DEF ListsClosed
<1>3. NeedsIn(project)[Requested] \subseteq executed
  BY <1>1, <1>2, NeedsWithin
<1> QED
  BY <1>3 DEF Involved, Needs, FrameInv

\* The parts of PrerequisitesFirst.
LEMMA PrerequisitesParts ==
    PrerequisitesFirst <=>
       /\ \A i, j \in DOMAIN begun : begun[i] = begun[j] => i = j
       /\ \A t \in ToSet(begun) : Needs[t] \subseteq executed
       /\ verdict = "ok" => /\ executed = Involved
                            /\ ToSet(begun) = executed \cap project.runs
BY DEF PrerequisitesFirst

\* Nothing starts, and what had run has run.
LEMMA BegunKept ==
    ASSUME BegunInv, begun' = begun, executed \subseteq executed', project' = project,
           verdict' # "ok",
           verdict' \in {"none", "running", "untagged"} =>
              /\ verdict \in {"none", "running", "ok", "untagged"}
              /\ \A t \in Names :
                    \/ t \in executed /\ t \in project.runs
                    \/ stage # "idle" /\ t = Top.task
                    <=>
                    \/ t \in executed' /\ t \in project.runs
                    \/ stage' # "idle" /\ t = Top'.task
    PROVE  BegunInv'
<1>1. /\ \A i, j \in DOMAIN begun : begun[i] = begun[j] => i = j
      /\ \A t \in ToSet(begun) : Needs[t] \subseteq executed
  BY PrerequisitesParts DEF BegunInv
<1>2. /\ \A i, j \in DOMAIN begun' : begun'[i] = begun'[j] => i = j
      /\ \A t \in ToSet(begun') : Needs[t]' \subseteq executed'
      /\ verdict' # "ok"
  BY <1>1 DEF Needs
<1>3. PrerequisitesFirst'
  BY <1>2 DEF PrerequisitesFirst
<1>4. verdict' \in {"none", "running", "ok", "untagged"} =>
         \A t \in Names : t \in ToSet(begun') <=>
             \/ t \in executed' /\ t \in project'.runs
             \/ stage' # "idle" /\ t = Top'.task
  BY DEF BegunInv
<1> QED
  BY <1>3, <1>4 DEF BegunInv

\* A task's own run starts.
LEMMA BegunGrows ==
    ASSUME ChainTypeOK, FrameInv, BegunInv, BeginRun, begun' = Append(begun, Top.task),
           stage' = "live", GoTo("running"), verdict' = verdict
    PROVE  BegunInv'
<1> DEFINE t == Top.task
<1>1. /\ frames # <<>> /\ Top.at = "checking" /\ Top.todo = <<>> /\ verdict = "running"
      /\ UNCHANGED <<executed, project>>
  BY DEF BeginRun, Active, walkFrame
<1>2. Needs[t] \subseteq executed /\ t \in Names /\ t \notin executed
  BY <1>1, TopNeeds
<1>3. stage = "idle"
  BY <1>1 DEF FrameInv
<1>4. begun \in Seq(Names)
  BY DEF ChainTypeOK
<1>5. t \notin ToSet(begun)
  BY <1>1, <1>2, <1>3 DEF BegunInv
<1>6. Top'.task = t
  <2>1. /\ Len(frames') = Len(frames) /\ frames'[Len(frames)].task = t
    BY <1>1, GoToOutcome
  <2> QED
    BY <2>1 DEF Top, Last
<1> HIDE DEF t
<1>7. /\ begun' \in Seq(Names) /\ Len(begun') = Len(begun) + 1
      /\ \A i \in 1..Len(begun) : begun'[i] = begun[i]
      /\ begun'[Len(begun) + 1] = t
  BY <1>2, <1>4, AppendProperties DEF t
<1>8. /\ DOMAIN begun = 1..Len(begun) /\ Len(begun) \in Nat
      /\ DOMAIN begun' = 1..(Len(begun) + 1)
  BY <1>4, <1>7, LenProperties
<1>9. \A i \in DOMAIN begun' : i \in DOMAIN begun \/ i = Len(begun) + 1
  BY <1>8
<1>10. \A i \in DOMAIN begun : begun[i] \in ToSet(begun)
  BY DEF ToSet
<1>11. \A i, j \in DOMAIN begun' : begun'[i] = begun'[j] => i = j
  <2>1. \A i, j \in DOMAIN begun : begun[i] = begun[j] => i = j
    BY PrerequisitesParts DEF BegunInv
  <2> QED
    BY <1>5, <1>7, <1>8, <1>9, <1>10, <2>1
<1>12. \A n : n \in ToSet(begun') <=> n \in ToSet(begun) \/ n = t
  <2>1. \A n : n \in ToSet(begun') <=> \E i \in DOMAIN begun' : n = begun'[i]
    BY DEF ToSet
  <2>2. \A n : n \in ToSet(begun) <=> \E i \in DOMAIN begun : n = begun[i]
    BY DEF ToSet
  <2>3. Len(begun) + 1 \in DOMAIN begun' /\ \A i \in DOMAIN begun : i \in DOMAIN begun'
    BY <1>8
  <2> QED
    BY <1>7, <1>8, <1>9, <2>1, <2>2, <2>3
<1>13. \A n \in ToSet(begun') : Needs[n] \subseteq executed
  BY <1>2, <1>12, PrerequisitesParts DEF BegunInv
<1>14. PrerequisitesFirst'
  <2>1. \A n \in ToSet(begun') : Needs'[n] \subseteq executed'
    BY <1>1, <1>13 DEF Needs
  <2> QED
    BY <1>1, <1>11, <2>1 DEF PrerequisitesFirst
<1>15. \A n \in Names : n \in ToSet(begun') <=>
             \/ n \in executed' /\ n \in project'.runs
             \/ stage' # "idle" /\ n = Top'.task
  BY <1>1, <1>3, <1>6, <1>12 DEF BegunInv
<1> QED
  BY <1>14, <1>15 DEF BegunInv


LEMMA BegunStep ==
    ASSUME ChainTypeOK, WalkInv, VerdictInv, FrameInv, FrameInv', BegunInv,
           [ChainNext]_vars
    PROVE  BegunInv'
<1>0. project' = project
  BY ProjectStays
<1>1. ASSUME begun' = begun, executed' = executed, stage = "idle", stage' = "idle",
             verdict \in {"none", "running"}, verdict' # "ok"
      PROVE  BegunInv'
  BY <1>0, <1>1, BegunKept
<1>2. ASSUME begun' = begun, executed' = executed, verdict = "running",
             verdict' \in {"failed", "signal"}
      PROVE  BegunInv'
  BY <1>0, <1>2, BegunKept
<1>3. CASE CheckStep /\ UNCHANGED <<runVars, project, runFrame>>
  <2>1. verdict = "none" /\ UNCHANGED <<begun, executed, stage>>
    BY <1>3 DEF CheckStep, Start, VisitNext, VisitDone, WalkInv, runVars, runFrame
  <2>2. stage = "idle"
    BY <2>1 DEF VerdictInv, FrameInv
  <2>3. verdict' # "ok"
    <3>1. begun' = <<>> /\ VerdictInv'
      BY <1>3, <2>1, CheckStepVerdict DEF VerdictInv
    <3>2. CASE VisitDone
      BY <2>1, <3>2 DEF VisitDone
    <3>3. CASE Start
      BY <2>1, <3>3 DEF Start, Visit
    <3>4. CASE VisitNext
      BY <2>1, <3>4 DEF VisitNext, Visit
    <3> QED
      BY <1>3, <3>2, <3>3, <3>4 DEF CheckStep
  <2> QED
    BY <1>1, <2>1, <2>2, <2>3
<1>4. CASE CallRequested \/ CallPrerequisite \/ CheckSignal \/ EvaluateFails
  <2>1. UNCHANGED <<begun, executed, stage>> /\ verdict = "running"
    BY <1>4 DEF CallRequested, CallPrerequisite, CheckSignal, EvaluateFails, Active, runVars
  <2>2. verdict' # "ok"
    <3>1. CASE CallRequested
      BY <2>1, <3>1, FramesFirst
    <3>2. CASE CallPrerequisite
      <4>1. PICK stack \in Seq(FrameEntry) :
               Head(Top.todo) \in Names /\ Call(Head(Top.todo), stack)
        BY <3>2, CallPrerequisiteOutcome
      <4> QED
        BY <2>1, <4>1, CallOutcome
    <3>3. CASE CheckSignal \/ EvaluateFails
      BY <2>1, <3>3 DEF CheckSignal, EvaluateFails, Fail
    <3> QED
      BY <1>4, <3>1, <3>2, <3>3
  <2>3. stage = "idle"
    BY <1>4 DEF FrameInv, CallRequested, CallPrerequisite, CheckSignal, EvaluateFails, Active
  <2> QED
    BY <1>1, <2>1, <2>2, <2>3
<1>5. CASE PrerequisitesOnly
  <2>1. /\ frames # <<>> /\ Top.at = "checking" /\ Top.task \notin project.runs
        /\ verdict = "running" /\ verdict' = verdict /\ begun' = begun /\ stage' = stage
        /\ executed' = executed \cup {Top.task}
    BY <1>5 DEF PrerequisitesOnly, Active, Return, runVars
  <2>2. stage = "idle"
    BY <2>1 DEF FrameInv
  <2> QED
    BY <1>0, <2>1, <2>2, BegunKept
<1>6. CASE BeginRun
  <2>1. CASE frames' = <<>> /\ verdict' = "signal" /\ begun' = begun
    BY <1>2, <1>6, <2>1 DEF BeginRun, Active
  <2>2. CASE /\ GoTo("running") /\ stage' = "live" /\ verdict' = verdict
             /\ begun' = Append(begun, Top.task)
    BY <1>6, <2>2, BegunGrows
  <2> QED
    BY <1>6, <2>1, <2>2 DEF BeginRun, Fail
<1>7. CASE Run
  <2>1. /\ verdict = "running" /\ UNCHANGED <<begun, executed, verdict, frames>>
        /\ stage # "idle" /\ stage' # "idle"
    BY <1>7 DEF Run, Active, Ends, Interrupts, CleansUp, chainVars
  <2>2. Top' = Top
    BY <2>1 DEF Top
  <2> QED
    BY <1>0, <2>1, <2>2, BegunKept
<1>8. CASE RunReturns
  <2>1. /\ verdict = "running" /\ begun' = begun /\ frames # <<>> /\ Top.at = "running"
        /\ stage # "idle" /\ stage' = "idle"
    BY <1>8 DEF RunReturns, Active
  <2>2. CASE outcome = "ok" /\ executed' = executed \cup {Top.task} /\ verdict' = verdict
    <3>1. Top.task \in project.runs
      BY <2>1, TopFrame
    <3> QED
      BY <1>0, <2>1, <2>2, <3>1, BegunKept
  <2>3. CASE outcome # "ok" /\ verdict' = outcome /\ executed' = executed
    <3>1. outcome \in {"failed", "signal"}
      BY <1>8, <2>3 DEF RunReturns, FrameInv, ChainTypeOK
    <3> QED
      BY <1>2, <2>1, <2>3, <3>1
  <2> QED
    BY <1>8, <2>2, <2>3 DEF RunReturns, Return, Fail
<1>9. CASE Finished
  <2>1. /\ verdict = "running" /\ frames = <<>> /\ Requested \in executed
        /\ UNCHANGED <<begun, executed, stage, frames>> /\ verdict' \in {"ok", "untagged"}
    BY <1>9 DEF Finished, runVars
  <2>2. stage = "idle" /\ executed = Involved
    BY <2>1, AllHasRun DEF FrameInv
  <2>3. CASE verdict' = "untagged"
    BY <1>1, <2>1, <2>2, <2>3
  <2>4. CASE verdict' = "ok"
    <3>1. \A t \in Names : t \in ToSet(begun) <=> t \in executed /\ t \in project.runs
      BY <2>1, <2>2 DEF BegunInv
    <3>2. ToSet(begun) \subseteq Names /\ executed \subseteq Names
      BY DEF ChainTypeOK, ToSet
    <3>3. ToSet(begun) = executed \cap project.runs
      BY <3>1, <3>2
    <3>4. /\ \A i, j \in DOMAIN begun : begun[i] = begun[j] => i = j
          /\ \A t \in ToSet(begun) : Needs[t] \subseteq executed
      BY PrerequisitesParts DEF BegunInv
    <3>5. PrerequisitesFirst'
      BY <1>0, <2>1, <2>2, <3>3, <3>4 DEF PrerequisitesFirst, Involved, Needs
    <3> QED
      BY <1>0, <2>1, <2>2, <3>1, <3>5 DEF BegunInv
  <2> QED
    BY <2>1, <2>3, <2>4
<1>10. CASE UNCHANGED <<begun, executed, stage, frames, verdict>>
  BY <1>0, <1>10 DEF BegunInv, PrerequisitesFirst, Top, Involved, Needs
<1> QED
  BY <1>3, <1>4, <1>5, <1>6, <1>7, <1>8, <1>9, <1>10, StepKinds
     DEF TaskStep, Signal, Signalled, vars, runVars, chainVars


----------------------------------------------------------------------------
(* Signals.                                                                *)

\* The innermost task goes to another place, with nothing that would run called
\* after a signal was heard.
LEMMA HeardGo ==
    ASSUME ChainTypeOK, FrameInv, HeardInv, frames # <<>>,
           NEW there \in {"calling", "running"}, GoTo(there),
           heard /\ there = "calling" => Head(Top.todo) \in executed,
           UNCHANGED <<heard, signals, executed>>
    PROVE  HeardInv'
<1>1. /\ frames' \in Seq(FrameEntry) /\ Len(frames') = Len(frames)
      /\ \A i \in 1..Len(frames) : i < Len(frames) => frames'[i] = frames[i]
      /\ frames'[Len(frames)].todo = Top.todo
      /\ frames'[Len(frames)].baseline = Top.baseline
      /\ frames'[Len(frames)].at = there
  BY GoToOutcome
<1>2. /\ Top = frames[Len(frames)] /\ Len(frames) \in Nat \ {0}
      /\ Len(frames) \in 1..Len(frames)
  BY TopFrame
<1>3. \A i \in 1..Len(frames) : i < Len(frames) \/ i = Len(frames)
  BY <1>2
<1>4. frames' # <<>>
  BY <1>1, <1>2, EmptySeq
<1>5. \A i \in 1..Len(frames) :
         /\ frames'[i].baseline <= signals
         /\ heard => frames'[i].baseline < signals
         /\ heard /\ frames'[i].at = "calling" => Head(frames'[i].todo) \in executed
  BY <1>1, <1>2, <1>3 DEF HeardInv
<1> QED
  BY <1>1, <1>4, <1>5 DEF HeardInv

\* The innermost task returns.
LEMMA HeardReturn ==
    ASSUME ChainTypeOK, FrameInv, HeardInv, frames # <<>>, Return,
           UNCHANGED <<heard, signals>>
    PROVE  HeardInv'
<1>1. /\ frames' \in Seq(FrameEntry) /\ Len(frames') = Len(frames) - 1
      /\ \A i \in 1..Len(frames') : frames'[i] = frames[i]
      /\ executed' = executed \cup {Top.task}
  BY ReturnOutcome
<1>2. Top = frames[Len(frames)] /\ Len(frames) \in Nat \ {0}
  BY TopFrame
<1>3. \A i \in 1..Len(frames') : i \in 1..Len(frames)
  BY <1>1, <1>2
<1>4. frames' = <<>> => Requested \in executed'
  <2>1. frames' = <<>> => Len(frames) = 1
    BY <1>1, <1>2
  <2>2. frames[1].task = Requested
    BY DEF FrameInv, PathOK, Descends
  <2> QED
    BY <1>1, <1>2, <2>1, <2>2
<1>5. \A i \in 1..Len(frames') :
         /\ frames'[i].baseline <= signals
         /\ heard => frames'[i].baseline < signals
         /\ heard /\ frames'[i].at = "calling" => Head(frames'[i].todo) \in executed'
  BY <1>1, <1>3 DEF HeardInv
<1> QED
  BY <1>4, <1>5 DEF HeardInv

\* The next prerequisite is called; after a signal was heard it has run.
LEMMA HeardCall ==
    ASSUME ChainTypeOK, FrameInv, VerdictInv, HeardInv, CallPrerequisite
    PROVE  HeardInv'
<1> DEFINE t == Head(Top.todo)
<1>1. frames # <<>> /\ Top.todo # <<>> /\ Top.at = "calling"
  BY CallPrerequisiteOutcome
<1>2. PICK stack \in Seq(FrameEntry) :
         /\ Len(stack) = Len(frames)
         /\ \A i \in 1..Len(frames) : i < Len(frames) => stack[i] = frames[i]
         /\ stack[Len(frames)].baseline = Top.baseline
         /\ stack[Len(frames)].at = "checking"
         /\ t \in Names /\ Call(t, stack)
  BY CallPrerequisiteOutcome
<1>3. /\ Top = frames[Len(frames)] /\ Len(frames) \in Nat \ {0}
      /\ Len(frames) \in 1..Len(frames) /\ signals \in Nat
  BY <1>1, TopFrame DEF ChainTypeOK
<1>4. UNCHANGED <<signals, heard, executed>>
  BY DEF CallPrerequisite, runVars
<1>5. heard => t \in executed
  BY <1>1, <1>3 DEF HeardInv
<1>6. t \in Declared /\ ~InProgress(t)
  BY <1>1, CallNotRefused
<1> HIDE DEF t
<1>7. \A i \in 1..Len(frames) :
         /\ stack[i].baseline <= signals
         /\ heard => stack[i].baseline < signals
         /\ heard /\ stack[i].at = "calling" => Head(stack[i].todo) \in executed
  <2>1. \A i \in 1..Len(frames) : i < Len(frames) \/ i = Len(frames)
    BY <1>3
  <2> QED
    BY <1>2, <1>3, <2>1 DEF HeardInv
<1>8. CASE frames' = stack
  <2>1. frames' # <<>>
    BY <1>2, <1>3, <1>8, EmptySeq
  <2> QED
    BY <1>2, <1>4, <1>7, <1>8, <2>1 DEF HeardInv
<1>9. CASE /\ t \notin executed
           /\ Len(frames') = Len(stack) + 1
           /\ \A i \in 1..Len(stack) : frames'[i] = stack[i]
           /\ frames'[Len(stack) + 1].baseline = signals
           /\ frames'[Len(stack) + 1].at = "checking"
  <2>1. \A i \in 1..Len(frames') : i \in 1..Len(frames) \/ i = Len(stack) + 1
    BY <1>2, <1>3, <1>9
  <2>2. ~heard
    BY <1>5, <1>9
  <2>3. signals <= signals
    BY <1>3
  <2> QED
    BY <1>2, <1>4, <1>7, <1>9, <2>1, <2>2, <2>3 DEF HeardInv
<1> QED
  BY <1>2, <1>6, <1>8, <1>9, CallOutcome

LEMMA HeardStep ==
    ASSUME ChainTypeOK, WalkInv, VerdictInv, FrameInv, HeardInv, [ChainNext]_vars
    PROVE  HeardInv'
<1>1. ASSUME frames' = <<>>, verdict' # "running" PROVE HeardInv'
  BY <1>1 DEF HeardInv
<1>2. CASE CheckStep /\ UNCHANGED <<runVars, project, runFrame>>
  <2>1. verdict = "none" /\ UNCHANGED <<frames, heard>>
    BY <1>2 DEF CheckStep, Start, VisitNext, VisitDone, WalkInv, runFrame
  <2>2. frames' = <<>> /\ ~heard'
    BY <2>1 DEF VerdictInv
  <2> QED
    BY <2>2 DEF HeardInv
<1>3. CASE CallRequested
  <2>1. ~heard /\ UNCHANGED <<heard, signals, executed>>
    BY <1>3 DEF CallRequested, HeardInv, runVars
  <2>2. Len(frames') = 1 /\ frames'[1].baseline = signals
    BY <1>3, FramesFirst
  <2>3. signals <= signals
    BY DEF ChainTypeOK
  <2>4. \A i \in 1..Len(frames') : i = 1
    BY <2>2
  <2> QED
    BY <2>1, <2>2, <2>3, <2>4 DEF HeardInv
<1>4. CASE CheckSignal
  <2>1. /\ frames # <<>> /\ Top.todo # <<>> /\ UNCHANGED <<heard, signals, executed>>
    BY <1>4 DEF CheckSignal, Active, runVars
  <2>2. CASE Fail("signal")
    BY <1>1, <2>2 DEF Fail
  <2>3. CASE GoTo("calling") /\ ~(Head(Top.todo) \notin executed /\ StopIfSignalled(Top))
    <3>1. heard => Top.baseline < signals
      BY <2>1, TopFrame DEF HeardInv
    <3>2. heard => signals > Top.baseline
      <4>1. Top.baseline \in Nat /\ signals \in Nat
        BY <2>1, TopFrame DEF FrameEntry, ChainTypeOK
      <4> QED
        BY <3>1, <4>1
    <3>3. heard => Head(Top.todo) \in executed
      BY <2>3, <3>2 DEF StopIfSignalled
    <3> QED
      BY <2>1, <2>3, <3>3, HeardGo
  <2> QED
    BY <1>4, <2>2, <2>3 DEF CheckSignal
<1>5. CASE CallPrerequisite
  BY <1>5, HeardCall
<1>6. CASE PrerequisitesOnly
  BY <1>6, HeardReturn DEF PrerequisitesOnly, Active, runVars
<1>7. CASE EvaluateFails
  BY <1>1, <1>7 DEF EvaluateFails, Fail
<1>8. CASE BeginRun
  <2>1. CASE Fail("signal")
    BY <1>1, <2>1 DEF Fail
  <2>2. CASE GoTo("running")
    BY <1>8, <2>2, HeardGo DEF BeginRun, Active
  <2> QED
    BY <1>8, <2>1, <2>2 DEF BeginRun
<1>9. CASE RunReturns
  <2>1. CASE Return
    BY <1>9, <2>1, HeardReturn DEF RunReturns, Active
  <2>2. CASE Fail(outcome)
    <3>1. outcome # "running"
      BY DEF ChainTypeOK
    <3> QED
      BY <1>1, <2>2, <3>1 DEF Fail
  <2> QED
    BY <1>9, <2>1, <2>2 DEF RunReturns
<1>10. CASE Finished
  BY <1>1, <1>10 DEF Finished
<1>11. CASE Signal
  <2>1. /\ signals' = signals + 1 /\ UNCHANGED <<frames, executed, verdict>>
        /\ signals \in Nat
    BY <1>11 DEF Signal, Signalled, ChainTypeOK
  <2>2. heard' = (heard \/ stage \in {"live", "cleanup"})
    BY <1>11 DEF Signal
  <2>3. frames \in Seq(FrameEntry)
    BY DEF ChainTypeOK, FrameEntry
  <2>4. \A i \in 1..Len(frames) : frames[i].baseline \in Nat
    <3> TAKE i \in 1..Len(frames)
    <3>1. frames[i] \in FrameEntry
      BY <2>3, ElementOfSeq
    <3> QED
      BY <3>1 DEF FrameEntry
  <2>5. \A i \in 1..Len(frames) :
           frames[i].baseline <= signals' /\ frames[i].baseline < signals'
    BY <2>1, <2>4 DEF HeardInv
  <2>6. CASE heard' = heard
    BY <2>1, <2>5, <2>6 DEF HeardInv
  <2>7. CASE stage # "idle"
    <3>1. frames # <<>> /\ Top.at = "running"
      BY <2>7 DEF FrameInv
    <3>2. \A i \in 1..Len(frames) : frames[i].at # "calling"
      <4>1. /\ Top = frames[Len(frames)] /\ Len(frames) \in Nat
        BY <3>1, TopFrame
      <4>2. \A i \in 1..Len(frames) : i < Len(frames) \/ i = Len(frames)
        BY <4>1
      <4> QED
        BY <3>1, <4>1, <4>2 DEF FrameInv
    <3> QED
      BY <2>1, <2>5, <3>1, <3>2 DEF HeardInv
  <2>8. stage = "idle" => heard' = heard
    BY <2>2 DEF ChainTypeOK
  <2> QED
    BY <2>6, <2>7, <2>8
<1>12. CASE UNCHANGED <<frames, heard, signals, executed, verdict>>
  BY <1>12 DEF HeardInv
<1>13. Run => UNCHANGED <<frames, heard, signals, executed, verdict>>
  BY DEF Run, Ends, Interrupts, CleansUp, chainVars
<1> QED
  BY <1>2, <1>3, <1>4, <1>5, <1>6, <1>7, <1>8, <1>9, <1>10, <1>11, <1>12, <1>13, StepKinds
     DEF TaskStep, vars, runVars, chainVars


LEMMA LateStep ==
    ASSUME ChainTypeOK, WalkInv, VerdictInv, FrameInv, LateInv, [ChainNext]_vars
    PROVE  LateInv'
<1>0. late \in Nat
  BY DEF ChainTypeOK
<1>1. CASE CheckStep /\ UNCHANGED <<runVars, project, runFrame>>
  <2>1. verdict = "none" /\ late' = late
    BY <1>1 DEF CheckStep, Start, VisitNext, VisitDone, WalkInv, runFrame
  <2>2. late' = 0
    BY <2>1 DEF VerdictInv
  <2> QED
    BY <2>2 DEF LateInv
<1>2. ASSUME verdict = "running", frames = <<>> \/ Top.at # "running", late' = late
      PROVE  LateInv'
  <2>1. late' # 1 /\ late' <= 1
    BY <1>2 DEF LateInv
  <2> QED
    BY <2>1 DEF LateInv
<1>3. CASE \/ CallRequested \/ CheckSignal \/ CallPrerequisite \/ PrerequisitesOnly
           \/ EvaluateFails \/ Finished
  BY <1>2, <1>3 DEF CallRequested, CheckSignal, CallPrerequisite, PrerequisitesOnly,
     EvaluateFails, Finished, Active
<1>4. CASE BeginRun
  <2>1. verdict = "running" /\ frames # <<>> /\ Top.at = "checking"
    BY <1>4 DEF BeginRun, Active
  <2>2. CASE late' = late
    BY <1>2, <2>1, <2>2
  <2>3. CASE late' # late
    <3>1. GoTo("running") /\ stage' = "live" /\ late' = late + 1 /\ verdict' = verdict
      BY <1>4, <2>3 DEF BeginRun
    <3>2. late = 0
      BY <1>0, <2>1 DEF LateInv
    <3>3. frames' # <<>> /\ Top'.at = "running"
      <4>1. /\ frames' \in Seq(FrameEntry) /\ Len(frames') = Len(frames)
            /\ frames'[Len(frames)].at = "running"
        BY <2>1, <3>1, GoToOutcome
      <4>2. Len(frames) \in Nat \ {0}
        BY <2>1, TopFrame
      <4> QED
        BY <4>1, <4>2, EmptySeq DEF Top, Last
    <3> QED
      BY <2>1, <3>1, <3>2, <3>3 DEF LateInv
  <2> QED
    BY <2>2, <2>3
<1>5. CASE Run
  <2>1. UNCHANGED <<late, verdict, frames>> /\ Top' = Top
    BY <1>5 DEF Run, chainVars, Top
  <2>2. late = 1 => outcome' = "signal"
    <3>1. CASE Interrupts
      BY <3>1 DEF Interrupts
    <3>2. CASE Ends /\ late = 0
      BY <3>2
    <3>3. CASE CleansUp
      BY <1>5, <3>3 DEF CleansUp, LateInv, Run, Active
    <3> QED
      BY <1>5, <3>1, <3>2, <3>3 DEF Run
  <2>3. late = 1 => verdict = "running" /\ frames # <<>> /\ Top.at = "running"
    BY <1>5 DEF LateInv, Run, Active
  <2> QED
    BY <2>1, <2>2, <2>3 DEF LateInv
<1>6. CASE RunReturns
  <2>1. late = 1 => outcome = "signal"
    BY <1>6 DEF RunReturns, Active, LateInv
  <2>2. late' = late /\ (outcome = "signal" => verdict' = "signal")
    BY <1>6 DEF RunReturns, Fail
  <2> QED
    BY <2>1, <2>2 DEF LateInv
<1>7. CASE UNCHANGED <<late, verdict, frames, stage, outcome>>
  BY <1>7 DEF LateInv, Top
<1> QED
  BY <1>1, <1>3, <1>4, <1>5, <1>6, <1>7, StepKinds
     DEF TaskStep, Signal, Signalled, vars, runVars, chainVars

----------------------------------------------------------------------------
(* The theorems.                                                           *)

ChainInv == ChainTypeOK /\ WalkInv /\ VerdictInv /\ FrameInv /\ BegunInv
               /\ HeardInv /\ LateInv

LEMMA ChainInvInit == ChainInit => ChainInv
<1> SUFFICES ASSUME ChainInit PROVE ChainInv
  OBVIOUS
<1>1. /\ stage = "idle" /\ outcome = "none" /\ signals = 0 /\ project \in Projects
      /\ walk = <<>> /\ checked = {} /\ frames = <<>> /\ executed = {}
      /\ verdict = "none" /\ begun = <<>> /\ ~heard /\ heard \in BOOLEAN /\ late = 0
  BY DEF ChainInit
<1>2. PathOK(project, <<>>, {})
  BY PathEmpty DEF ListsClosed
<1>3. ChainTypeOK
  BY <1>1 DEF ChainTypeOK
<1>4. WalkInv
  BY <1>1, <1>2 DEF WalkInv
<1>5. VerdictInv
  BY <1>1 DEF VerdictInv
<1>6. FrameInv
  BY <1>1, <1>2 DEF FrameInv
<1>7. BegunInv
  <2>1. ToSet(begun) = {} /\ DOMAIN begun = {}
    BY <1>1 DEF ToSet
  <2>2. PrerequisitesFirst
    BY <1>1, <2>1, PrerequisitesParts
  <2> QED
    BY <1>1, <2>1, <2>2 DEF BegunInv
<1>8. HeardInv /\ LateInv
  BY <1>1 DEF HeardInv, LateInv
<1> QED
  BY <1>3, <1>4, <1>5, <1>6, <1>7, <1>8 DEF ChainInv

LEMMA ChainInvStep == ChainInv /\ [ChainNext]_vars => ChainInv'
<1> SUFFICES ASSUME ChainInv, [ChainNext]_vars PROVE ChainInv'
  OBVIOUS
<1>1. ChainTypeOK /\ WalkInv /\ VerdictInv /\ FrameInv /\ BegunInv /\ HeardInv /\ LateInv
  BY DEF ChainInv
<1>2. FrameInv'
  BY <1>1, FrameStep
<1> QED
  BY <1>1, <1>2, ChainTypeStep, WalkStep, VerdictStep, BegunStep, HeardStep, LateStep
     DEF ChainInv

LEMMA ChainInvHolds == ChainSpec => []ChainInv
BY ChainInvInit, ChainInvStep, PTL DEF ChainSpec

\* Every variable keeps to its type: the path and the tasks in progress are stacks
\* of named tasks with what is left of their lists, in every project.
THEOREM ChainTypeCorrect == ChainSpec => []ChainTypeOK
<1>1. ChainInv => ChainTypeOK
  BY DEF ChainInv
<1> QED
  BY <1>1, ChainInvHolds, PTL

\* check_prerequisites accepts exactly the sound projects, refuses before any task
\* has started, and leaves nothing for run_task_scoped's backstop.
THEOREM CheckIsExactHolds == ChainSpec => []CheckIsExact
<1>1. ChainInv => CheckIsExact
  BY DEF ChainInv, VerdictInv, Sound, CheckIsExact, Needs, Declared
<1> QED
  BY <1>1, ChainInvHolds, PTL

\* Each task's own run starts at most once, after all that it needs has run, and a
\* run that ends well has run everything the named task takes in.
THEOREM PrerequisitesFirstHolds == ChainSpec => []PrerequisitesFirst
<1>1. ChainInv => PrerequisitesFirst
  BY DEF ChainInv, BegunInv
<1> QED
  BY <1>1, ChainInvHolds, PTL

\* No task starts after a signal heard during an earlier one, and at most one run
\* starts with a signal recorded, which ends the invocation as signalled.
THEOREM SignalsStopTheChainHolds == ChainSpec => SignalsStopTheChain
<1>1. ASSUME ChainInv, ChainInv', [ChainNext]_vars
      PROVE  [/\ begun' # begun => ~heard
              /\ late' <= 1
              /\ late' = 1 => verdict' \in {"running", "signal"}]_vars
  <2>1. late' <= 1 /\ (late' = 1 => verdict' \in {"running", "signal"})
    BY <1>1 DEF ChainInv, LateInv
  <2>2. ASSUME begun' # begun PROVE ~heard
    <3>1. BeginRun /\ ~StopIfSignalled(Top)
      <4>1. CheckStep => begun' = begun
        BY DEF CheckStep, Start, VisitNext, VisitDone, runFrame
      <4>2. TaskStep => begun' = begun \/ (BeginRun /\ ~StopIfSignalled(Top))
        BY DEF TaskStep, CallRequested, CheckSignal, CallPrerequisite, PrerequisitesOnly,
           EvaluateFails, BeginRun, Run, RunReturns, Finished, chainVars
      <4> QED
        BY <1>1, <2>2, <4>1, <4>2, StepKinds DEF Signal, vars, chainVars
    <3>2. frames # <<>> /\ ChainTypeOK /\ FrameInv /\ HeardInv
      BY <1>1, <3>1 DEF BeginRun, Active, ChainInv
    <3>3. /\ Top = frames[Len(frames)] /\ Len(frames) \in 1..Len(frames)
          /\ Top.baseline \in Nat /\ signals \in Nat
      BY <3>2, TopFrame DEF FrameEntry, ChainTypeOK
    <3>4. heard => signals > Top.baseline
      BY <3>2, <3>3 DEF HeardInv
    <3> QED
      BY <3>1, <3>4 DEF StopIfSignalled
  <2> QED
    BY <2>1, <2>2
<1> QED
  BY <1>1, ChainInvHolds, PTL DEF ChainSpec, SignalsStopTheChain

==========================================================================
