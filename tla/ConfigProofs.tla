--------------------------- MODULE ConfigProofs ---------------------------
(***************************************************************************)
(* Theorems about how the files of a project are found and read, and about *)
(* what becomes of the containers and tasks they hold: any number of       *)
(* files, containers, tasks and generations of extends, and any graph of   *)
(* dependencies.                                                           *)
(***************************************************************************)
EXTENDS Project, FiniteSetTheorems, WellFoundedInduction, TLAPS

----------------------------------------------------------------------------
(* Sequences and what is in them.                                          *)

LEMMA AppendElements ==
    ASSUME NEW S, NEW s \in Seq(S), NEW x \in S
    PROVE  /\ Append(s, x) \in Seq(S)
           /\ ToSet(Append(s, x)) = ToSet(s) \cup {x}
<1>1. /\ Append(s, x) \in Seq(S)
      /\ DOMAIN Append(s, x) = 1 .. Len(s) + 1 /\ DOMAIN s = 1 .. Len(s)
      /\ Len(s) \in Nat
      /\ \A i \in 1 .. Len(s) : Append(s, x)[i] = s[i]
      /\ Append(s, x)[Len(s) + 1] = x
  OBVIOUS
<1>2. \A i \in 1 .. Len(s) + 1 : i \in 1 .. Len(s) \/ i = Len(s) + 1
  BY <1>1
<1>3. Len(s) + 1 \in 1 .. Len(s) + 1 /\ 1 .. Len(s) \subseteq 1 .. Len(s) + 1
  BY <1>1
<1> QED BY <1>1, <1>2, <1>3, Zenon DEF ToSet

LEMMA TailElements ==
    ASSUME NEW S, NEW s \in Seq(S), s # <<>>
    PROVE  /\ Head(s) \in S /\ Tail(s) \in Seq(S)
           /\ Head(s) \in ToSet(s)
           /\ ToSet(s) = {Head(s)} \cup ToSet(Tail(s))
<1>1. /\ Head(s) \in S /\ Tail(s) \in Seq(S) /\ Head(s) = s[1]
      /\ DOMAIN s = 1 .. Len(s) /\ Len(s) \in Nat /\ Len(s) >= 1
      /\ DOMAIN Tail(s) = 1 .. Len(s) - 1
      /\ \A i \in 1 .. Len(s) - 1 : Tail(s)[i] = s[i + 1]
  OBVIOUS
<1>2. \A i \in 1 .. Len(s) - 1 : i + 1 \in 1 .. Len(s)
  BY <1>1
<1>3. \A i \in 1 .. Len(s) : i = 1 \/ (i - 1 \in 1 .. Len(s) - 1 /\ Tail(s)[i - 1] = s[i])
  BY <1>1
<1>4. 1 \in 1 .. Len(s)
  BY <1>1
<1>5. ASSUME NEW i \in 1 .. Len(s) PROVE s[i] \in {Head(s)} \cup {Tail(s)[k] : k \in 1 .. Len(s) - 1}
  BY <1>1, <1>3
<1>6. ASSUME NEW k \in 1 .. Len(s) - 1 PROVE Tail(s)[k] \in {s[i] : i \in 1 .. Len(s)}
  BY <1>1, <1>2
<1>7. Head(s) \in {s[i] : i \in 1 .. Len(s)}
  BY <1>1, <1>4
<1>8. {s[i] : i \in 1 .. Len(s)} = {Head(s)} \cup {Tail(s)[k] : k \in 1 .. Len(s) - 1}
  BY <1>5, <1>6, <1>7, Zenon
<1> QED BY <1>1, <1>7, <1>8, Zenon DEF ToSet

LEMMA ConcatElements ==
    ASSUME NEW S, NEW s \in Seq(S), NEW t \in Seq(S)
    PROVE  /\ s \o t \in Seq(S)
           /\ ToSet(s \o t) = ToSet(s) \cup ToSet(t)
<1>1. /\ s \o t \in Seq(S)
      /\ DOMAIN (s \o t) = 1 .. Len(s) + Len(t)
      /\ DOMAIN s = 1 .. Len(s) /\ DOMAIN t = 1 .. Len(t)
      /\ Len(s) \in Nat /\ Len(t) \in Nat
      /\ \A i \in 1 .. Len(s) + Len(t) :
            (s \o t)[i] = IF i <= Len(s) THEN s[i] ELSE t[i - Len(s)]
  OBVIOUS
<1>2. \A i \in 1 .. Len(s) : i \in 1 .. Len(s) + Len(t) /\ (s \o t)[i] = s[i]
  BY <1>1
<1>3. \A i \in 1 .. Len(t) : i + Len(s) \in 1 .. Len(s) + Len(t) /\ (s \o t)[i + Len(s)] = t[i]
  BY <1>1
<1>4. \A i \in 1 .. Len(s) + Len(t) :
         \/ i \in 1 .. Len(s) /\ (s \o t)[i] = s[i]
         \/ i - Len(s) \in 1 .. Len(t) /\ (s \o t)[i] = t[i - Len(s)]
  BY <1>1
<1>5. ASSUME NEW i \in 1 .. Len(s) + Len(t)
      PROVE  (s \o t)[i] \in {s[k] : k \in 1 .. Len(s)} \cup {t[k] : k \in 1 .. Len(t)}
  BY <1>4
<1>6. ASSUME NEW k \in 1 .. Len(s)
      PROVE  s[k] \in {(s \o t)[i] : i \in 1 .. Len(s) + Len(t)}
  BY <1>2, Zenon
<1>7. ASSUME NEW k \in 1 .. Len(t)
      PROVE  t[k] \in {(s \o t)[i] : i \in 1 .. Len(s) + Len(t)}
  BY <1>3, Zenon
<1>8. {(s \o t)[i] : i \in 1 .. Len(s) + Len(t)}
        = {s[k] : k \in 1 .. Len(s)} \cup {t[k] : k \in 1 .. Len(t)}
  BY <1>5, <1>6, <1>7, Zenon
<1> QED BY <1>1, <1>8, Zenon DEF ToSet

LEMMA FrontElements ==
    ASSUME NEW S, NEW s \in Seq(S), s # <<>>
    PROVE  /\ Last(s) \in S /\ Front(s) \in Seq(S)
           /\ Last(s) \in ToSet(s)
           /\ ToSet(Front(s)) \subseteq ToSet(s)
<1>1. /\ Front(s) \in Seq(S)
      /\ DOMAIN s = 1 .. Len(s) /\ Len(s) \in Nat /\ Len(s) >= 1
      /\ DOMAIN Front(s) = 1 .. Len(s) - 1
      /\ \A i \in 1 .. Len(s) - 1 : Front(s)[i] = s[i] /\ i \in 1 .. Len(s)
      /\ Last(s) = s[Len(s)]
      /\ Len(s) \in 1 .. Len(s)
  BY DEF Front, Last
<1>2. Last(s) \in S
  BY <1>1
<1> QED BY <1>1, <1>2, Zenon DEF ToSet

LEMMA MinIn ==
    ASSUME NEW T, T \subseteq Nat, T # {}
    PROVE  Min(T) \in T
<1>1. IsWellFoundedOn({p \in Nat \X Nat : p[1] < p[2]}, Nat)
  BY NatLessThanWellFounded DEF OpToRel
<1>2. \E x \in T : \A y \in T : ~(<<y, x>> \in {p \in Nat \X Nat : p[1] < p[2]})
  BY <1>1, WFMin
<1>3. \E x \in T : \A y \in T : x <= y
  <2>1. PICK x \in T : \A y \in T : ~(<<y, x>> \in {p \in Nat \X Nat : p[1] < p[2]})
    BY <1>2
  <2>2. ASSUME NEW y \in T PROVE x <= y
    <3>1. <<y, x>> \in Nat \X Nat /\ <<y, x>>[1] = y /\ <<y, x>>[2] = x
      OBVIOUS
    <3>2. ~(<<y, x>>[1] < <<y, x>>[2])
      BY <2>1, <3>1, Zenon
    <3>3. x \in Nat /\ y \in Nat
      OBVIOUS
    <3>4. ~(y < x)
      BY <3>1, <3>2, Zenon
    <3> QED BY ONLY <3>3, <3>4
  <2> QED BY <2>2
<1> QED BY <1>3 DEF Min


----------------------------------------------------------------------------
(* What a layout's includes name.                                          *)

LEMMA IncludeFields ==
    ASSUME NEW l, NEW e \in IncludesOf(l)
    PROVE  /\ e.kind \in {"file", "git"}
           /\ e.kind = "file" => e.path \in DOMAIN l.files
           /\ e.kind = "git" => /\ e.repo \in DOMAIN l.bundle
                                /\ e.reviewed \in Nat \cup {None}
                                /\ e.path \in DOMAIN l.files \cup {None}
BY DEF IncludesOf

LEMMA TargetTyped ==
    ASSUME NEW l, LayoutOK(l), NEW e \in IncludesOf(l), e.kind = "git"
    PROVE  TargetIn(l, e) \in DOMAIN l.files \cup {None}
<1> DEFINE tries == Candidates(l, e)
           found == {i \in DOMAIN tries :
                        /\ l.files[tries[i]].exists
                        /\ e.path = None => l.format = "native" \/ ~l.files[tries[i]].toml}
<1>1. tries \in Seq(DOMAIN l.files)
  <2>1. CASE e.path # None
    <3>1. e.path \in DOMAIN l.files
      BY <2>1, IncludeFields
    <3>2. tries = <<e.path>>
      BY <2>1 DEF Candidates
    <3>3. ASSUME NEW S, NEW x \in S PROVE <<x>> \in Seq(S)
      OBVIOUS
    <3> HIDE DEF tries
    <3> QED BY <3>1, <3>2, <3>3
  <2>2. CASE e.path = None
    <3>1. l.bundle \in [DOMAIN l.bundle -> Seq(DOMAIN l.files)]
      BY DEF LayoutOK
    <3>2. e.repo \in DOMAIN l.bundle
      BY IncludeFields
    <3>3. tries = l.bundle[e.repo]
      BY <2>2 DEF Candidates
    <3> QED BY <3>1, <3>2, <3>3
  <2> QED BY <2>1, <2>2
<1>2. DOMAIN tries \subseteq Nat /\ \A i \in DOMAIN tries : tries[i] \in DOMAIN l.files
  <2> HIDE DEF tries
  <2> QED BY <1>1
<1>3. TargetIn(l, e) = IF found = {} THEN None ELSE tries[Min(found)]
  BY DEF TargetIn
<1>4. found \subseteq DOMAIN tries
  OBVIOUS
<1>5. found # {} => Min(found) \in found
  <2> HIDE DEF found, tries
  <2> QED BY <1>2, <1>4, MinIn
<1> HIDE DEF found, tries
<1> QED BY <1>2, <1>3, <1>4, <1>5

LEMMA GrantedTyped ==
    ASSUME NEW l, NEW b, NEW e \in IncludesOf(l), e.kind = "git"
    PROVE  Granted(b, e) \in GrantsOf(l)
<1>1. e.repo \in DOMAIN l.bundle
  BY IncludeFields
<1> QED BY <1>1 DEF Granted, GrantsOf

LEMMA LayoutGiven ==
    ASSUME LoadTypeOK
    PROVE  LayoutOK(layout)
BY LayoutsAssumption DEF LoadTypeOK

LEMMA EntriesTyped ==
    ASSUME LayoutOK(layout), NEW f \in DOMAIN layout.files, NEW b \in BoundariesOf(layout)
    PROVE  /\ Entries(f, b) \in Seq(EntriesOf(layout))
           /\ ToSet(Entries(f, b)) =
                 {[from |-> f, boundary |-> b, include |-> File(f).includes[n]] :
                     n \in DOMAIN File(f).includes}
<1>1. File(f).includes \in Seq(IncludesOf(layout))
  BY DEF LayoutOK, File
<1> DEFINE is == File(f).includes
<1> HIDE DEF is
<1>2. /\ DOMAIN is = 1 .. Len(is) /\ Len(is) \in Nat
      /\ \A n \in DOMAIN is : is[n] \in IncludesOf(layout)
  BY <1>1 DEF is
<1>3. Entries(f, b) = [n \in 1 .. Len(is) |-> [from |-> f, boundary |-> b, include |-> is[n]]]
  BY <1>2 DEF Entries, is
<1>4. \A n \in 1 .. Len(is) :
         [from |-> f, boundary |-> b, include |-> is[n]] \in EntriesOf(layout)
  BY <1>2 DEF EntriesOf
<1>5. Entries(f, b) \in Seq(EntriesOf(layout))
  <2> DEFINE E(n) == [from |-> f, boundary |-> b, include |-> is[n]]
  <2>1. \A n \in 1 .. Len(is) : E(n) \in EntriesOf(layout)
    BY <1>4
  <2>2. Entries(f, b) = [n \in 1 .. Len(is) |-> E(n)]
    BY <1>3
  <2> HIDE DEF E
  <2> QED BY <1>2, <2>1, <2>2
<1>6. DOMAIN Entries(f, b) = DOMAIN is
  BY <1>2, <1>3
<1>7. \A n \in DOMAIN is :
         Entries(f, b)[n] = [from |-> f, boundary |-> b, include |-> is[n]]
  BY <1>2, <1>3
<1> QED BY <1>5, <1>6, <1>7, Zenon DEF ToSet, is


----------------------------------------------------------------------------
(* Types.                                                                  *)

\* What holds before the first include is followed.
BeforeInv ==
    /\ phase \in {"written_for", "root"} =>
          loaded = <<>> /\ queue = <<>> /\ seen = {} /\ clones = {}
    /\ phase = "includes" => layout.root \in seen

LoadTypeInv == LoadTypeOK /\ BeforeInv


LEMMA HeadTyped ==
    ASSUME LoadTypeOK, queue # <<>>
    PROVE  /\ Head(queue) \in EntriesOf(layout)
           /\ Head(queue).from \in DOMAIN layout.files
           /\ Head(queue).boundary \in BoundariesOf(layout)
           /\ Head(queue).include \in IncludesOf(layout)
<1>1. Head(queue) \in EntriesOf(layout)
  BY TailElements DEF LoadTypeOK
<1> QED BY <1>1 DEF EntriesOf

LEMMA ArriveTyped ==
    ASSUME LoadTypeInv, phase = "includes", queue # <<>>,
           NEW f \in DOMAIN layout.files, NEW b \in BoundariesOf(layout), NEW byGit,
           Arrive(f, b, byGit), layout' = layout
    PROVE  /\ phase' \in {"includes", "refused"}
           /\ queue' \in Seq(EntriesOf(layout))
           /\ seen' \subseteq DOMAIN layout.files
           /\ effective' \in [seen' \ {layout.root} -> BoundariesOf(layout)]
           /\ loaded' \in Seq(PlacesOf(layout))
           /\ layout.root \in seen'
<1>1. /\ queue \in Seq(EntriesOf(layout)) /\ seen \subseteq DOMAIN layout.files
      /\ effective \in [seen \ {layout.root} -> BoundariesOf(layout)]
      /\ loaded \in Seq(PlacesOf(layout)) /\ layout.root \in seen
  BY DEF LoadTypeInv, LoadTypeOK, BeforeInv
<1>2. LayoutOK(layout)
  BY LayoutGiven DEF LoadTypeInv
<1>3. CASE f \in seen /\ GrantLost(f, b)
  <2>1. Refuse
    BY <1>3 DEF Arrive
  <2> QED BY <1>1, <2>1 DEF Refuse
<1>4. CASE f \in seen /\ ~GrantLost(f, b)
  <2>1. queue' = Tail(queue) /\ UNCHANGED <<phase, seen, effective, loaded>>
    BY <1>4 DEF Arrive
  <2>2. Tail(queue) \in Seq(EntriesOf(layout))
    BY <1>1, TailElements
  <2> QED BY <1>1, <2>1, <2>2
<1>5. CASE f \notin seen /\ (~Parses(f) \/ ~WellPlaced(f, byGit))
  <2>1. Refuse
    BY <1>5 DEF Arrive
  <2> QED BY <1>1, <2>1 DEF Refuse
<1>6. CASE f \notin seen /\ Parses(f) /\ WellPlaced(f, byGit)
  <2>1. /\ seen' = seen \cup {f}
        /\ effective' = [g \in DOMAIN effective \cup {f} |->
                            IF g = f THEN b ELSE effective[g]]
        /\ queue' = Tail(queue) \o Entries(f, b)
        /\ loaded' = Append(loaded, [file |-> f, boundary |-> b])
        /\ phase' = phase
    BY <1>6 DEF Arrive
  <2>2. queue' \in Seq(EntriesOf(layout))
    <3>1. Tail(queue) \in Seq(EntriesOf(layout))
      BY <1>1, TailElements
    <3>2. Entries(f, b) \in Seq(EntriesOf(layout))
      BY <1>2, EntriesTyped
    <3> QED BY <2>1, <3>1, <3>2, ConcatElements
  <2>3. loaded' \in Seq(PlacesOf(layout))
    <3>1. [file |-> f, boundary |-> b] \in PlacesOf(layout)
      BY DEF PlacesOf
    <3> QED BY <1>1, <2>1, <3>1, AppendElements
  <2>4. effective' \in [seen' \ {layout.root} -> BoundariesOf(layout)]
    <3>1. DOMAIN effective = seen \ {layout.root} /\ f # layout.root
      BY <1>1, <1>6
    <3>2. seen' \ {layout.root} = DOMAIN effective \cup {f}
      BY <2>1, <3>1
    <3>3. \A g \in DOMAIN effective : effective[g] \in BoundariesOf(layout)
      BY <1>1
    <3> QED BY <2>1, <3>2, <3>3
  <2> QED BY <1>1, <2>1, <2>2, <2>3, <2>4
<1> QED BY <1>3, <1>4, <1>5, <1>6


LEMMA WalkTargetTyped ==
    ASSUME LoadTypeOK, NEW from, NEW b \in BoundariesOf(layout), NEW e \in IncludesOf(layout),
           WalkTarget(from, b, e) # None
    PROVE  /\ WalkTarget(from, b, e) \in PlacesOf(layout)
           /\ BoundaryContains(WalkTarget(from, b, e).boundary, WalkTarget(from, b, e).file)
<1> DEFINE f == IF e.kind = "file" THEN e.path ELSE Target(e)
           inner == IF e.kind = "file" THEN b ELSE Granted(b, e)
<1>1. /\ WalkTarget(from, b, e) = [file |-> f, boundary |-> inner]
      /\ f # None /\ BoundaryContains(inner, f)
  BY DEF WalkTarget
<1>2. e.kind \in {"file", "git"}
  BY IncludeFields
<1>3. f \in DOMAIN layout.files
  <2>1. CASE e.kind = "file"
    BY <2>1, IncludeFields
  <2>2. CASE e.kind = "git"
    <3>1. f = TargetIn(layout, e)
      BY <2>2 DEF Target
    <3>2. TargetIn(layout, e) \in DOMAIN layout.files \cup {None}
      BY <2>2, LayoutGiven, TargetTyped
    <3> HIDE DEF f
    <3> QED BY <1>1, <3>1, <3>2
  <2> QED BY <1>2, <2>1, <2>2
<1>4. inner \in BoundariesOf(layout)
  <2>1. CASE e.kind = "file"
    BY <2>1
  <2>2. CASE e.kind = "git"
    <3>1. inner = Granted(b, e)
      BY <2>2
    <3>2. Granted(b, e) \in GrantsOf(layout)
      BY <2>2, GrantedTyped
    <3> QED BY <3>1, <3>2 DEF BoundariesOf
  <2> QED BY <1>2, <2>1, <2>2
<1> HIDE DEF f, inner
<1> QED BY <1>1, <1>3, <1>4 DEF PlacesOf

\* What one step of the walk does to its stack.
LEMMA WalkIntoTyped ==
    ASSUME LayoutOK(layout), NEW stack \in Seq(VisitsOf(layout)), NEW place,
           place = None \/ place \in PlacesOf(layout),
           visited \subseteq DOMAIN layout.files, WalkInto(stack, place)
    PROVE  /\ walk' \in Seq(VisitsOf(layout))
           /\ visited' \subseteq DOMAIN layout.files
           /\ ToSet(walk') \subseteq ToSet(stack) \cup
                 {[file |-> place.file, boundary |-> place.boundary,
                   left |-> File(place.file).includes]}
           /\ place = None => ToSet(walk') \subseteq ToSet(stack)
<1>1. CASE place = None \/ place.file \in visited
  BY <1>1 DEF WalkInto
<1>2. CASE ~(place = None \/ place.file \in visited)
  <2> DEFINE new == [file |-> place.file, boundary |-> place.boundary,
                     left |-> File(place.file).includes]
  <2>1. place.file \in DOMAIN layout.files /\ place.boundary \in BoundariesOf(layout)
    BY <1>2 DEF PlacesOf
  <2>2. File(place.file).includes \in Seq(IncludesOf(layout))
    BY <2>1 DEF LayoutOK, File
  <2>3. new \in VisitsOf(layout)
    BY <2>1, <2>2 DEF VisitsOf
  <2>4. walk' = stack \/ walk' = Append(stack, new)
    BY <1>2 DEF WalkInto
  <2>5. visited' = visited \cup {place.file}
    BY <1>2 DEF WalkInto
  <2> HIDE DEF new
  <2>6. /\ Append(stack, new) \in Seq(VisitsOf(layout))
        /\ ToSet(Append(stack, new)) = ToSet(stack) \cup {new}
    BY <2>3, AppendElements
  <2>7. ToSet(walk') \subseteq ToSet(stack) \cup {new}
    BY <2>4, <2>6
  <2>8. walk' \in Seq(VisitsOf(layout))
    BY <2>4, <2>6
  <2> QED BY <1>2, <2>1, <2>5, <2>7, <2>8 DEF new
<1> QED BY <1>1, <1>2

LEMMA WalkOnTyped ==
    ASSUME LoadTypeOK, walk # None, walk # <<>>
    PROVE  LET top == Last(walk)
               less == Append(Front(walk), [top EXCEPT !.left = Tail(@)])
               place == WalkTarget(top.file, top.boundary, Head(top.left))
           IN /\ top \in VisitsOf(layout) /\ top \in ToSet(walk)
              /\ Front(walk) \in Seq(VisitsOf(layout))
              /\ ToSet(Front(walk)) \subseteq ToSet(walk)
              /\ top.left # <<>> =>
                    /\ [top EXCEPT !.left = Tail(@)] \in VisitsOf(layout)
                    /\ less \in Seq(VisitsOf(layout))
                    /\ ToSet(less) = ToSet(Front(walk)) \cup {[top EXCEPT !.left = Tail(@)]}
                    /\ place # None =>
                          /\ place \in PlacesOf(layout)
                          /\ BoundaryContains(place.boundary, place.file)
<1> DEFINE top == Last(walk)
           less == Append(Front(walk), [top EXCEPT !.left = Tail(@)])
           place == WalkTarget(top.file, top.boundary, Head(top.left))
<1>1. walk \in Seq(VisitsOf(layout))
  BY DEF LoadTypeOK
<1>2. /\ top \in VisitsOf(layout) /\ top \in ToSet(walk)
      /\ Front(walk) \in Seq(VisitsOf(layout))
      /\ ToSet(Front(walk)) \subseteq ToSet(walk)
  BY <1>1, FrontElements
<1>3. ASSUME top.left # <<>>
      PROVE  /\ [top EXCEPT !.left = Tail(@)] \in VisitsOf(layout)
             /\ less \in Seq(VisitsOf(layout))
             /\ ToSet(less) = ToSet(Front(walk)) \cup {[top EXCEPT !.left = Tail(@)]}
             /\ place # None =>
                   /\ place \in PlacesOf(layout)
                   /\ BoundaryContains(place.boundary, place.file)
  <2>1. /\ top.left \in Seq(IncludesOf(layout)) /\ top.boundary \in BoundariesOf(layout)
        /\ top.file \in DOMAIN layout.files
    <3> HIDE DEF top
    <3> QED BY <1>2 DEF VisitsOf
  <2>2. Head(top.left) \in IncludesOf(layout) /\ Tail(top.left) \in Seq(IncludesOf(layout))
    BY <1>3, <2>1, TailElements
  <2>3. [top EXCEPT !.left = Tail(@)] \in VisitsOf(layout)
    <3> HIDE DEF top
    <3> QED BY <1>2, <2>2 DEF VisitsOf
  <2>4. /\ less \in Seq(VisitsOf(layout))
        /\ ToSet(less) = ToSet(Front(walk)) \cup {[top EXCEPT !.left = Tail(@)]}
    <3> DEFINE rest == [top EXCEPT !.left = Tail(@)]
    <3>1. rest \in VisitsOf(layout) /\ less = Append(Front(walk), rest)
      BY <2>3
    <3> HIDE DEF rest, less
    <3>2. /\ less \in Seq(VisitsOf(layout))
          /\ ToSet(less) = ToSet(Front(walk)) \cup {rest}
      BY <1>2, <3>1, AppendElements
    <3> QED BY <3>2 DEF rest
  <2>5. place # None =>
           /\ place \in PlacesOf(layout)
           /\ BoundaryContains(place.boundary, place.file)
    BY <2>1, <2>2, WalkTargetTyped
  <2> QED BY <2>3, <2>4, <2>5
<1> QED BY <1>2, <1>3


LEMMA InitTyped == ProjectInit => LoadTypeInv
<1> SUFFICES ASSUME Init PROVE LoadTypeInv
  BY DEF ProjectInit
<1>1. \A S : <<>> \in Seq(S)
  OBVIOUS
<1>2. effective \in [seen \ {layout.root} -> BoundariesOf(layout)]
  BY DEF Init
<1> QED BY <1>1, <1>2 DEF Init, LoadTypeInv, LoadTypeOK, BeforeInv

\* The parts of the type that following an include may change.
FollowTyped ==
    /\ phase \in {"includes", "refused"}
    /\ queue \in Seq(EntriesOf(layout))
    /\ seen \subseteq DOMAIN layout.files
    /\ effective \in [seen \ {layout.root} -> BoundariesOf(layout)]
    /\ loaded \in Seq(PlacesOf(layout))
    /\ layout.root \in seen

LEMMA RefuseTyped ==
    ASSUME LoadTypeInv, phase = "includes", Refuse, layout' = layout
    PROVE  FollowTyped'
BY DEF LoadTypeInv, LoadTypeOK, BeforeInv, Refuse, FollowTyped

LEMMA FollowFileTyped ==
    ASSUME LoadTypeInv, FollowFile
    PROVE  LoadTypeInv'
<1> DEFINE next == Head(queue)
           f == next.include.path
<1>1. /\ phase = "includes" /\ queue # <<>> /\ next.include.kind = "file"
      /\ UNCHANGED <<layout, clones, entries, walk, visited, offered>>
  BY DEF FollowFile, walkVars
<1>2. /\ next.from \in DOMAIN layout.files /\ next.boundary \in BoundariesOf(layout)
      /\ f \in DOMAIN layout.files
  BY <1>1, HeadTyped, IncludeFields DEF LoadTypeInv
<1>3. /\ FollowTyped'
      /\ locals' \subseteq (DOMAIN layout.files) \X (DOMAIN layout.files)
  <2>1. CASE ~File(f).exists \/ ~BoundaryContains(next.boundary, f)
    <3>1. Refuse /\ locals' = locals
      BY <2>1 DEF FollowFile
    <3>2. FollowTyped'
      BY <1>1, <3>1, RefuseTyped
    <3> QED BY <3>1, <3>2 DEF LoadTypeInv, LoadTypeOK
  <2>2. CASE ~(~File(f).exists \/ ~BoundaryContains(next.boundary, f))
    <3>1. /\ locals' = NoteLocal(next.from, f, next.boundary)
          /\ Arrive(f, next.boundary, FALSE)
      BY <2>2 DEF FollowFile
    <3>2. FollowTyped'
      BY <1>1, <1>2, <3>1, ArriveTyped DEF FollowTyped
    <3>3. locals' \subseteq locals \cup {<<next.from, f>>}
      BY <3>1 DEF NoteLocal
    <3>4. locals \subseteq (DOMAIN layout.files) \X (DOMAIN layout.files)
      BY DEF LoadTypeInv, LoadTypeOK
    <3> HIDE DEF next, f
    <3>5. <<next.from, f>> \in (DOMAIN layout.files) \X (DOMAIN layout.files)
      BY <1>2
    <3> QED BY <3>2, <3>3, <3>4, <3>5, Zenon
  <2> QED BY <2>1, <2>2
<1> QED BY <1>1, <1>3 DEF LoadTypeInv, LoadTypeOK, BeforeInv, FollowTyped

LEMMA FollowGitTyped ==
    ASSUME LoadTypeInv, FollowGit
    PROVE  LoadTypeInv'
<1> DEFINE next == Head(queue)
           e == next.include
           f == Target(e)
           b == Granted(next.boundary, e)
           bad == \/ ~DialectAllows(next.from, e) \/ ~MayDeclareGit(next.boundary)
                  \/ e.repo \in layout.unreachable
                  \/ f = None
                  \/ ~BoundaryContains(b, f)
                  \/ layout.checked /\ File(f).toml /\ ~BundleCovered(f, e.reviewed, FALSE)
<1>1. /\ phase = "includes" /\ queue # <<>> /\ e.kind = "git"
      /\ clones' = clones \cup ({CloneNow(next)} \ ({None} \cup layout.unreachable))
      /\ UNCHANGED <<layout, locals, walk, visited, offered>>
  BY DEF FollowGit, walkVars
<1>2. e \in IncludesOf(layout) /\ e.repo \in DOMAIN layout.bundle
      /\ e.reviewed \in Nat \cup {None}
  BY <1>1, HeadTyped, IncludeFields DEF LoadTypeInv
<1>3. f \in DOMAIN layout.files \cup {None}
  BY <1>1, <1>2, LayoutGiven, TargetTyped DEF LoadTypeInv, Target
<1>4. b \in BoundariesOf(layout)
  BY <1>1, <1>2, GrantedTyped DEF BoundariesOf
<1>5. clones' \subseteq DOMAIN layout.bundle
  <2>1. clones \subseteq DOMAIN layout.bundle
    BY DEF LoadTypeInv, LoadTypeOK
  <2>2. CloneNow(next) \in {e.repo, None}
    BY DEF CloneNow
  <2> HIDE DEF next, e
  <2> QED BY <1>1, <1>2, <2>1, <2>2
<1>6. /\ FollowTyped'
      /\ entries' \subseteq (DOMAIN layout.files) \X (Nat \cup {None})
  <2>0. entries \subseteq (DOMAIN layout.files) \X (Nat \cup {None})
    BY DEF LoadTypeInv, LoadTypeOK
  <2>1. CASE bad
    <3>1. Refuse /\ entries' = entries
      BY <2>1 DEF FollowGit
    <3>2. FollowTyped'
      BY <1>1, <3>1, RefuseTyped
    <3> QED BY <2>0, <3>1, <3>2
  <2>2. CASE ~bad
    <3>1. /\ entries' \subseteq entries \cup {<<f, e.reviewed>>}
          /\ Arrive(f, b, TRUE)
          /\ f # None
      BY <2>2 DEF FollowGit
    <3>2. f \in DOMAIN layout.files
      BY <1>3, <3>1
    <3> HIDE DEF next, e, f, b, bad
    <3>3. FollowTyped'
      BY <1>1, <1>4, <3>1, <3>2, ArriveTyped DEF FollowTyped
    <3>4. <<f, e.reviewed>> \in (DOMAIN layout.files) \X (Nat \cup {None})
      BY <1>2, <3>2
    <3> QED BY <2>0, <3>1, <3>3, <3>4, Zenon
  <2> QED BY <2>1, <2>2
<1> QED BY <1>1, <1>5, <1>6 DEF LoadTypeInv, LoadTypeOK, BeforeInv, FollowTyped


LEMMA NextTyped ==
    ASSUME LoadTypeInv, [Next]_vars
    PROVE  LoadTypeInv'
<1>1. CASE CheckRoot
  <2>1. /\ phase = "written_for" /\ phase' \in {"root", "refused"}
        /\ UNCHANGED <<layout, queue, seen, effective, clones, locals, entries, loaded,
                       walk, visited, offered>>
    BY <1>1 DEF CheckRoot, Refuse, walkVars
  <2> QED BY <2>1 DEF LoadTypeInv, LoadTypeOK, BeforeInv
<1>2. CASE LoadRoot
  <2>1. /\ phase = "root"
        /\ UNCHANGED <<layout, effective, clones, locals, entries, walk, visited, offered>>
    BY <1>2 DEF LoadRoot, Refuse, walkVars
  <2>2. CASE ~Parses(layout.root) \/ ~WellPlaced(layout.root, TRUE)
    <3>1. phase' = "refused" /\ UNCHANGED <<queue, seen, effective, loaded>>
      BY <1>2, <2>2 DEF LoadRoot, Refuse
    <3> QED BY <2>1, <3>1 DEF LoadTypeInv, LoadTypeOK, BeforeInv
  <2>3. CASE ~(~Parses(layout.root) \/ ~WellPlaced(layout.root, TRUE))
    <3>1. /\ phase' = "includes" /\ seen' = {layout.root}
          /\ queue' = Entries(layout.root, None)
          /\ loaded' = <<[file |-> layout.root, boundary |-> None]>>
      BY <1>2, <2>3 DEF LoadRoot
    <3>2. LayoutOK(layout) /\ layout.root \in DOMAIN layout.files
      BY LayoutGiven DEF LoadTypeInv, LayoutOK
    <3>3. None \in BoundariesOf(layout)
      BY DEF BoundariesOf
    <3>4. queue' \in Seq(EntriesOf(layout))
      BY <3>1, <3>2, <3>3, EntriesTyped
    <3>5. loaded' \in Seq(PlacesOf(layout))
      <4>1. [file |-> layout.root, boundary |-> None] \in PlacesOf(layout)
        BY <3>2, <3>3 DEF PlacesOf
      <4>2. ASSUME NEW S, NEW x \in S PROVE <<x>> \in Seq(S)
        OBVIOUS
      <4> QED BY <3>1, <4>1, <4>2
    <3>6. effective' \in [seen' \ {layout.root} -> BoundariesOf(layout)]
      <4>1. seen = {} /\ effective \in [seen \ {layout.root} -> BoundariesOf(layout)]
        BY <2>1 DEF LoadTypeInv, LoadTypeOK, BeforeInv
      <4>2. seen \ {layout.root} = seen' \ {layout.root}
        BY <3>1, <4>1
      <4> QED BY <2>1, <4>1, <4>2
    <3> QED BY <2>1, <3>1, <3>2, <3>4, <3>5, <3>6 DEF LoadTypeInv, LoadTypeOK, BeforeInv
  <2> QED BY <2>2, <2>3
<1>3. CASE FollowFile
  BY <1>3, FollowFileTyped
<1>4. CASE FollowGit
  BY <1>4, FollowGitTyped
<1>5. CASE FinishLoad
  <2>1. /\ phase = "includes" /\ phase' \in {"read", "refused"}
        /\ UNCHANGED <<layout, queue, seen, effective, clones, locals, entries, loaded,
                       walk, visited, offered>>
    BY <1>5 DEF FinishLoad, walkVars
  <2> QED BY <2>1 DEF LoadTypeInv, LoadTypeOK, BeforeInv
<1>6. ASSUME UNCHANGED <<layout, loadVars>>, walk' \in Seq(VisitsOf(layout)),
             visited' \subseteq DOMAIN layout.files
      PROVE  LoadTypeInv'
  BY <1>6 DEF LoadTypeInv, LoadTypeOK, BeforeInv, loadVars
<1>7. CASE BeginWalk
  <2> DEFINE place == [file |-> layout.root, boundary |-> None]
  <2>1. UNCHANGED <<layout, loadVars>> /\ WalkInto(<<>>, place)
    BY <1>7 DEF BeginWalk
  <2>2. LayoutOK(layout) /\ place \in PlacesOf(layout)
    BY LayoutGiven DEF LoadTypeInv, LayoutOK, PlacesOf, BoundariesOf
  <2>3. <<>> \in Seq(VisitsOf(layout)) /\ visited \subseteq DOMAIN layout.files
    BY DEF LoadTypeInv, LoadTypeOK
  <2> HIDE DEF place
  <2>4. walk' \in Seq(VisitsOf(layout)) /\ visited' \subseteq DOMAIN layout.files
    BY <2>1, <2>2, <2>3, WalkIntoTyped
  <2> QED BY <1>6, <2>1, <2>4
<1>8. CASE WalkOn
  <2> DEFINE top == Last(walk)
             less == Append(Front(walk), [top EXCEPT !.left = Tail(@)])
             place == WalkTarget(top.file, top.boundary, Head(top.left))
  <2>1. /\ UNCHANGED <<layout, loadVars>> /\ walk # None /\ walk # <<>>
        /\ top.left = <<>> => walk' = Front(walk) /\ visited' = visited
        /\ top.left # <<>> => WalkInto(less, place)
    BY <1>8 DEF WalkOn
  <2>2. /\ Front(walk) \in Seq(VisitsOf(layout))
        /\ top.left # <<>> => /\ less \in Seq(VisitsOf(layout))
                              /\ place # None => place \in PlacesOf(layout)
    BY <2>1, WalkOnTyped DEF LoadTypeInv
  <2>3. LayoutOK(layout) /\ visited \subseteq DOMAIN layout.files
    BY LayoutGiven DEF LoadTypeInv, LoadTypeOK
  <2> HIDE DEF top, less, place
  <2>4. walk' \in Seq(VisitsOf(layout)) /\ visited' \subseteq DOMAIN layout.files
    BY <2>1, <2>2, <2>3, WalkIntoTyped
  <2> QED BY <1>6, <2>1, <2>4
<1>9. CASE UNCHANGED configLoadVars
  <2>1. UNCHANGED <<layout, phase, queue, seen, effective, clones, locals, entries, loaded,
                    walk, visited, offered>>
    BY <1>9 DEF configLoadVars, loadVars, walkVars
  <2> QED BY <2>1 DEF LoadTypeInv, LoadTypeOK, BeforeInv
<1> QED
  BY <1>1, <1>2, <1>3, <1>4, <1>5, <1>7, <1>8, <1>9
     DEF Next, LoadStep, WalkStep, vars

\* The loader's state keeps its type: the worklist, what each file was read under
\* and completion's stack, whatever the files include of one another
\* (load_from_file_impl, collect_completion_task_names).
THEOREM LoadTypeCorrect == Spec => []LoadTypeOK
<1>1. LoadTypeInv => LoadTypeOK
  BY DEF LoadTypeInv
<1> QED BY InitTyped, NextTyped, <1>1, PTL DEF Spec


----------------------------------------------------------------------------
(* What has been read, and what each include that was followed has left.   *)

Read == ToSet(loaded)
Waiting == ToSet(queue)
IncludesIn(f) == ToSet(File(f).includes)
EntryOf(r, e) == [from |-> r.file, boundary |-> r.boundary, include |-> e]

SeenInv ==
    /\ \A f \in seen : \E r \in Read : r.file = f
    /\ \A r \in Read : r.file \in seen

\* EffectiveGrants has what each file was read under, and nothing of the root.
EffectiveInv ==
    \A r \in Read : IF r.file \in DOMAIN effective THEN effective[r.file] = r.boundary
                    ELSE r.boundary = None

\* A bundle's files are in its checkout, and the project's own in none.
PlaceInv ==
    \A r \in Read :
        IF r.boundary = None THEN File(r.file).at \notin DOMAIN layout.bundle
        ELSE File(r.file).at = r.boundary.repo /\ File(r.file).real = r.boundary.repo

\* What waits was written in a file that has been read, and waits under what that
\* file was read under.
QueueInv ==
    \A w \in Waiting : \E r \in Read : \E e \in IncludesIn(r.file) : w = EntryOf(r, e)

CloneInv ==
    Native => \A c \in clones : \E r \in Read : \E e \in IncludesIn(r.file) :
        e.kind = "git" /\ e.repo = c /\ (r.boundary = None \/ r.boundary.nested)

GrantInv ==
    \A r \in Read : r.boundary # None =>
        /\ r.boundary.host =>
              \E s \in Read : s.boundary = None /\ \E e \in IncludesIn(s.file) :
                  e.kind = "git" /\ e.repo = r.boundary.repo /\ e.host
        /\ r.boundary.nested =>
              \E s \in Read : s.boundary = None /\ \E e \in IncludesIn(s.file) :
                  e.kind = "git" /\ e.repo = r.boundary.repo /\ e.nested = "yes"

KeepsGrants(e) ==
    \A s \in Read : s.file = Target(e) /\ s.boundary # None =>
        /\ e.host => s.boundary.host
        /\ e.nested = "yes" => s.boundary.nested

Judged(e) ==
    IF File(Target(e)).toml
      THEN ~ChangesSince(CoveredBy(File(Target(e)).version, e.reviewed))
      ELSE <<Target(e), e.reviewed>> \in entries

FileDone(r, e) ==
    /\ e.kind = "file" /\ e.path \in seen
    /\ r.boundary # None => /\ <<r.file, e.path>> \in locals
                            /\ File(e.path).at \in DOMAIN layout.bundle

GitDone(r, e) ==
    /\ e.kind = "git" /\ Target(e) \in seen
    /\ File(Target(e)).at \in DOMAIN layout.bundle
    /\ layout.checked => Judged(e)
    /\ r.boundary = None => KeepsGrants(e)

\* Every include of what has been read waits or has been followed.
FollowedInv ==
    phase \in {"includes", "read"} =>
        \A r \in Read : \A e \in IncludesIn(r.file) :
            EntryOf(r, e) \in Waiting \/ FileDone(r, e) \/ GitDone(r, e)

FinishedInv ==
    phase = "read" =>
        /\ queue = <<>>
        /\ \A y \in entries : BundleCovered(y[1], y[2], ReachesToml(y[1]))

WalkInv ==
    walk # None => \A w \in ToSet(walk) :
        w.boundary # None => File(w.file).real = w.boundary.repo

TrustInv ==
    /\ SeenInv /\ EffectiveInv /\ PlaceInv /\ QueueInv /\ CloneInv
    /\ GrantInv /\ FollowedInv

LoadInv == LoadTypeInv /\ TrustInv /\ FinishedInv /\ WalkInv


\* The three ways an include that has a target can end.
Refused == phase' = "refused" /\ UNCHANGED <<queue, seen, effective, loaded>>

ReadAlready(f, b) ==
    /\ f \in seen /\ ~GrantLost(f, b)
    /\ UNCHANGED <<phase, seen, effective>>
    /\ Read' = Read

ReadNow(f, b) ==
    /\ f \notin seen
    /\ phase' = phase
    /\ seen' = seen \cup {f}
    /\ effective' = [g \in DOMAIN effective \cup {f} |-> IF g = f THEN b ELSE effective[g]]
    /\ Read' = Read \cup {[file |-> f, boundary |-> b]}

Leaves(new) ==
    /\ \A w \in Waiting' : w \in Waiting \/ w \in new
    /\ \A w \in Waiting : w = Head(queue) \/ w \in Waiting'
    /\ new \subseteq Waiting'

NewEntries(f, b) == {EntryOf([file |-> f, boundary |-> b], e) : e \in IncludesIn(f)}

LEMMA EntriesElements ==
    ASSUME LayoutOK(layout), NEW f \in DOMAIN layout.files, NEW b \in BoundariesOf(layout)
    PROVE  ToSet(Entries(f, b)) = NewEntries(f, b)
<1>1. ToSet(Entries(f, b)) =
         {[from |-> f, boundary |-> b, include |-> File(f).includes[n]] :
             n \in DOMAIN File(f).includes}
  BY EntriesTyped
<1>2. \A e : EntryOf([file |-> f, boundary |-> b], e)
                = [from |-> f, boundary |-> b, include |-> e]
  BY DEF EntryOf
<1>3. NewEntries(f, b) = {[from |-> f, boundary |-> b, include |-> e] : e \in IncludesIn(f)}
  BY <1>2 DEF NewEntries
<1>4. {[from |-> f, boundary |-> b, include |-> e] : e \in IncludesIn(f)}
        = {[from |-> f, boundary |-> b, include |-> File(f).includes[n]] :
             n \in DOMAIN File(f).includes}
  BY Zenon DEF IncludesIn, ToSet
<1> QED BY <1>1, <1>3, <1>4, Zenon

LEMMA ArriveEffects ==
    ASSUME LoadTypeInv, phase = "includes", queue # <<>>,
           NEW f \in DOMAIN layout.files, NEW b \in BoundariesOf(layout), NEW byGit,
           Arrive(f, b, byGit), layout' = layout
    PROVE  \/ Refused
           \/ ReadAlready(f, b) /\ Leaves({})
           \/ ReadNow(f, b) /\ Leaves(NewEntries(f, b))
<1>1. /\ queue \in Seq(EntriesOf(layout)) /\ loaded \in Seq(PlacesOf(layout))
      /\ LayoutOK(layout)
  BY LayoutGiven DEF LoadTypeInv, LoadTypeOK
<1>2. Tail(queue) \in Seq(EntriesOf(layout)) /\ Waiting = {Head(queue)} \cup ToSet(Tail(queue))
  BY <1>1, TailElements DEF Waiting
<1>3. CASE f \in seen
  <2>1. \/ Refuse
        \/ ~GrantLost(f, b) /\ queue' = Tail(queue)
              /\ UNCHANGED <<phase, seen, effective, loaded>>
    BY <1>3 DEF Arrive
  <2>2. CASE Refuse
    BY <2>2 DEF Refuse, Refused
  <2>3. CASE ~GrantLost(f, b) /\ queue' = Tail(queue)
              /\ UNCHANGED <<phase, seen, effective, loaded>>
    <3>1. Waiting' = ToSet(Tail(queue)) /\ Read' = Read
      BY <2>3 DEF Waiting, Read
    <3>2. Leaves({})
      BY <1>2, <3>1 DEF Leaves
    <3> QED BY <1>3, <2>3, <3>1, <3>2 DEF ReadAlready
  <2> QED BY <2>1, <2>2, <2>3
<1>4. CASE f \notin seen
  <2>1. \/ Refuse
        \/ /\ seen' = seen \cup {f}
           /\ effective' = [g \in DOMAIN effective \cup {f} |->
                               IF g = f THEN b ELSE effective[g]]
           /\ queue' = Tail(queue) \o Entries(f, b)
           /\ loaded' = Append(loaded, [file |-> f, boundary |-> b])
           /\ phase' = phase
    BY <1>4 DEF Arrive
  <2>2. CASE Refuse
    BY <2>2 DEF Refuse, Refused
  <2>3. ASSUME queue' = Tail(queue) \o Entries(f, b)
        PROVE  Leaves(NewEntries(f, b))
    <3>1. Entries(f, b) \in Seq(EntriesOf(layout)) /\ ToSet(Entries(f, b)) = NewEntries(f, b)
      BY <1>1, EntriesTyped, EntriesElements
    <3>2. Waiting' = ToSet(Tail(queue)) \cup NewEntries(f, b)
      <4>1. ToSet(Tail(queue) \o Entries(f, b)) = ToSet(Tail(queue)) \cup ToSet(Entries(f, b))
        <5> DEFINE S == EntriesOf(layout)
                   s == Tail(queue)
                   t == Entries(f, b)
        <5>1. s \in Seq(S) /\ t \in Seq(S)
          BY <1>2, <3>1
        <5> HIDE DEF S, s, t
        <5>2. ToSet(s \o t) = ToSet(s) \cup ToSet(t)
          BY ONLY <5>1, ConcatElements
        <5> QED BY <5>2 DEF s, t
      <4>2. Waiting' = ToSet(Tail(queue) \o Entries(f, b))
        BY <2>3 DEF Waiting
      <4> QED BY <3>1, <4>1, <4>2, Zenon
    <3> QED BY <1>2, <3>2 DEF Leaves
  <2>4. ASSUME loaded' = Append(loaded, [file |-> f, boundary |-> b])
        PROVE  Read' = Read \cup {[file |-> f, boundary |-> b]}
    <3>1. [file |-> f, boundary |-> b] \in PlacesOf(layout)
      BY DEF PlacesOf
    <3> QED BY <1>1, <2>4, <3>1, AppendElements DEF Read
  <2> QED BY <1>4, <2>1, <2>2, <2>3, <2>4, Zenon DEF ReadNow
<1> QED BY <1>3, <1>4


\* The include at the head of the worklist leads to f, to be read under b.
Follows(e, f, b) ==
    /\ phase = "includes" /\ queue # <<>> /\ e = Head(queue).include
    /\ layout' = layout
    /\ f \in DOMAIN layout.files /\ b \in BoundariesOf(layout)
    /\ BoundaryContains(b, f)
    /\ e.kind = "file" => f = e.path /\ b = Head(queue).boundary
    /\ e.kind = "git" => f = Target(e) /\ b = Granted(Head(queue).boundary, e)
    /\ locals \subseteq locals' /\ entries \subseteq entries'
    /\ e.kind = "file" /\ Head(queue).boundary # None => <<Head(queue).from, f>> \in locals'
    /\ e.kind = "git" /\ layout.checked =>
          IF File(f).toml THEN ~ChangesSince(CoveredBy(File(f).version, e.reviewed))
          ELSE <<f, e.reviewed>> \in entries'

Led(e, f, b) ==
    /\ Follows(e, f, b)
    /\ \/ ReadAlready(f, b) /\ Leaves({})
       \/ ReadNow(f, b) /\ Leaves(NewEntries(f, b))

\* Where the include at the head was written.
LEMMA HeadWritten ==
    ASSUME LoadTypeInv, QueueInv, queue # <<>>
    PROVE  /\ Head(queue) \in Waiting
           /\ Head(queue).include \in IncludesOf(layout)
           /\ \E r \in Read : /\ Head(queue).from = r.file /\ Head(queue).boundary = r.boundary
                              /\ Head(queue).include \in IncludesIn(r.file)
<1>1. Head(queue) \in Waiting
  BY TailElements DEF LoadTypeInv, LoadTypeOK, Waiting
<1>2. PICK r \in Read : \E e \in IncludesIn(r.file) : Head(queue) = EntryOf(r, e)
  BY <1>1 DEF QueueInv
<1>3. PICK e \in IncludesIn(r.file) : Head(queue) = EntryOf(r, e)
  BY <1>2
<1>4. /\ Head(queue).from = r.file /\ Head(queue).boundary = r.boundary
      /\ Head(queue).include = e
  BY <1>3 DEF EntryOf
<1>5. Head(queue).include \in IncludesOf(layout)
  BY HeadTyped DEF LoadTypeInv
<1> QED BY <1>1, <1>3, <1>4, <1>5

LEMMA GrantedFields ==
    ASSUME LayoutOK(layout), NEW c, NEW e \in IncludesOf(layout), e.kind = "git"
    PROVE  /\ Granted(c, e) # None
           /\ Granted(c, e).repo = e.repo
           /\ Granted(c, e).host <=> e.host /\ c = None
           /\ Granted(c, e).nested <=> e.nested = "yes" /\ c = None
<1>1. Granted(c, e) # None
  BY GrantedTyped DEF LayoutOK
<1>2. Granted(c, e).repo = e.repo
  BY DEF Granted
<1>3. Granted(c, e).host <=> e.host /\ c = None
  BY DEF Granted
<1>4. Granted(c, e).nested <=> e.nested = "yes" /\ c = None
  BY DEF Granted
<1> QED BY <1>1, <1>2, <1>3, <1>4

LEMMA SeenKept ==
    ASSUME LoadTypeInv, TrustInv, NEW e, NEW f, NEW b, Led(e, f, b)
    PROVE  SeenInv' /\ EffectiveInv'
<1>1. SeenInv /\ EffectiveInv
  BY DEF TrustInv
<1>2. CASE ReadAlready(f, b)
  BY <1>1, <1>2 DEF ReadAlready, SeenInv, EffectiveInv
<1>3. CASE ReadNow(f, b)
  <2> DEFINE new == [file |-> f, boundary |-> b]
  <2>1. /\ seen' = seen \cup {f} /\ Read' = Read \cup {new} /\ f \notin seen
        /\ DOMAIN effective' = DOMAIN effective \cup {f}
        /\ effective'[f] = b
        /\ \A g \in DOMAIN effective : g # f => effective'[g] = effective[g]
    BY <1>3 DEF ReadNow
  <2>2. new.file = f /\ new.boundary = b
    OBVIOUS
  <2> HIDE DEF new
  <2>3. SeenInv'
    BY <1>1, <2>1, <2>2 DEF SeenInv
  <2>4. \A r \in Read : r.file # f
    BY <1>1, <2>1 DEF SeenInv
  <2>5. ASSUME NEW r \in Read'
        PROVE  IF r.file \in DOMAIN effective' THEN effective'[r.file] = r.boundary
               ELSE r.boundary = None
    <3>1. CASE r = new
      BY <2>1, <2>2, <3>1
    <3>2. CASE r \in Read
      BY <1>1, <2>1, <2>4, <3>2 DEF EffectiveInv
    <3> QED BY <2>1, <3>1, <3>2
  <2> QED BY <2>3, <2>5 DEF EffectiveInv
<1> QED BY <1>2, <1>3 DEF Led

LEMMA ReadGrows ==
    ASSUME NEW e, NEW f, NEW b, Led(e, f, b)
    PROVE  /\ Read \subseteq Read' /\ seen \subseteq seen' /\ f \in seen'
           /\ Read' \subseteq Read \cup {[file |-> f, boundary |-> b]}
           /\ \A r \in Read' : r \notin Read => f \notin seen
BY DEF Led, ReadAlready, ReadNow

LEMMA PlaceKept ==
    ASSUME LoadTypeInv, TrustInv, NEW e, NEW f, NEW b, Led(e, f, b)
    PROVE  PlaceInv'
<1>1. LayoutOK(layout) /\ layout' = layout
  BY LayoutGiven DEF LoadTypeInv, Led, Follows
<1>2. IF b = None THEN File(f).at \notin DOMAIN layout.bundle
      ELSE File(f).at = b.repo /\ File(f).real = b.repo
  <2>1. CASE b = None
    <3>1. PICK r \in Read : /\ Head(queue).boundary = r.boundary
                            /\ Head(queue).include \in IncludesIn(r.file)
      BY HeadWritten DEF TrustInv, Led, Follows
    <3>2. e = Head(queue).include /\ e \in IncludesOf(layout)
      BY HeadWritten DEF TrustInv, Led, Follows
    <3>3. e.kind = "file" /\ f = e.path /\ r.boundary = None
      <4>1. e.kind # "git"
        BY <1>1, <2>1, <3>2, GrantedFields DEF Led, Follows
      <4>2. e.kind = "file"
        BY <3>2, <4>1, IncludeFields
      <4> QED BY <2>1, <3>1, <4>2 DEF Led, Follows
    <3>4. File(r.file).at \notin DOMAIN layout.bundle
      BY <3>3 DEF TrustInv, PlaceInv
    <3>5. r.file \in DOMAIN layout.files
      BY DEF TrustInv, SeenInv, LoadTypeInv, LoadTypeOK
    <3>6. \E n \in DOMAIN File(r.file).includes : e = File(r.file).includes[n]
      BY <3>1, <3>2 DEF IncludesIn, ToSet
    <3> QED BY <1>1, <2>1, <3>3, <3>4, <3>5, <3>6 DEF LayoutOK, File
  <2>2. CASE b # None
    BY <2>2 DEF Led, Follows, BoundaryContains, Within
  <2> QED BY <2>1, <2>2
<1>3. ASSUME NEW r \in Read'
      PROVE  IF r.boundary = None THEN File(r.file).at \notin DOMAIN layout.bundle
             ELSE File(r.file).at = r.boundary.repo /\ File(r.file).real = r.boundary.repo
  <2>1. CASE r \in Read
    BY <2>1 DEF TrustInv, PlaceInv
  <2>2. CASE r = [file |-> f, boundary |-> b]
    <3>1. r.file = f /\ r.boundary = b
      BY <2>2
    <3> QED BY <1>2, <3>1
  <2> QED BY <2>1, <2>2, ReadGrows
<1> QED BY <1>1, <1>3 DEF PlaceInv, File

LEMMA QueueKept ==
    ASSUME LoadTypeInv, TrustInv, NEW e, NEW f, NEW b, Led(e, f, b)
    PROVE  QueueInv'
<1>1. layout' = layout
  BY DEF Led, Follows
<1>2. ASSUME NEW w \in Waiting'
      PROVE  \E r \in Read' : \E i \in IncludesIn(r.file) : w = EntryOf(r, i)
  <2>1. CASE w \in Waiting
    BY <2>1, ReadGrows DEF TrustInv, QueueInv
  <2>2. CASE w \in NewEntries(f, b) /\ ReadNow(f, b)
    BY <2>2 DEF NewEntries, ReadNow
  <2> QED BY <2>1, <2>2 DEF Led, Leaves
<1> QED BY <1>1, <1>2 DEF QueueInv, IncludesIn, File, EntryOf


\* An include of the project's own stands behind what a file is read under.
OwnersHost(repo) ==
    \E s \in Read : s.boundary = None /\ \E i \in IncludesIn(s.file) :
        i.kind = "git" /\ i.repo = repo /\ i.host
OwnersNested(repo) ==
    \E s \in Read : s.boundary = None /\ \E i \in IncludesIn(s.file) :
        i.kind = "git" /\ i.repo = repo /\ i.nested = "yes"

LEMMA OwnersStay ==
    ASSUME layout' = layout, Read \subseteq Read', NEW repo
    PROVE  /\ OwnersHost(repo) => OwnersHost(repo)'
           /\ OwnersNested(repo) => OwnersNested(repo)'
<1>1. ASSUME OwnersHost(repo) PROVE OwnersHost(repo)'
  BY <1>1 DEF OwnersHost, IncludesIn, File
<1>2. ASSUME OwnersNested(repo) PROVE OwnersNested(repo)'
  BY <1>2 DEF OwnersNested, IncludesIn, File
<1> QED BY <1>1, <1>2

LEMMA GrantKept ==
    ASSUME LoadTypeInv, TrustInv, NEW e, NEW f, NEW b, Led(e, f, b)
    PROVE  GrantInv'
<1>1. LayoutOK(layout) /\ layout' = layout
  BY LayoutGiven DEF LoadTypeInv, Led, Follows
<1>2. \A r \in Read : r.boundary # None =>
         /\ r.boundary.host => OwnersHost(r.boundary.repo)
         /\ r.boundary.nested => OwnersNested(r.boundary.repo)
  BY DEF TrustInv, GrantInv, OwnersHost, OwnersNested
<1>3. b # None => /\ b.host => OwnersHost(b.repo)
                  /\ b.nested => OwnersNested(b.repo)
  <2>1. PICK r \in Read : /\ Head(queue).boundary = r.boundary
                          /\ Head(queue).include \in IncludesIn(r.file)
    BY HeadWritten DEF TrustInv, Led, Follows
  <2>2. e = Head(queue).include /\ e \in IncludesOf(layout)
    BY HeadWritten DEF TrustInv, Led, Follows
  <2>3. CASE e.kind = "file"
    BY <1>2, <2>1, <2>3 DEF Led, Follows
  <2>4. CASE e.kind = "git"
    <3>1. b = Granted(r.boundary, e)
      BY <2>1, <2>4 DEF Led, Follows
    <3>2. /\ b.repo = e.repo
          /\ b.host => e.host /\ r.boundary = None
          /\ b.nested => e.nested = "yes" /\ r.boundary = None
      BY <1>1, <2>2, <2>4, <3>1, GrantedFields
    <3>3. b.host => OwnersHost(b.repo)
      BY <2>1, <2>2, <2>4, <3>2 DEF OwnersHost
    <3>4. b.nested => OwnersNested(b.repo)
      BY <2>1, <2>2, <2>4, <3>2 DEF OwnersNested
    <3> QED BY <3>3, <3>4
  <2> QED BY <2>2, <2>3, <2>4, IncludeFields
<1>4. ASSUME NEW r \in Read', r.boundary # None
      PROVE  /\ r.boundary.host => OwnersHost(r.boundary.repo)'
             /\ r.boundary.nested => OwnersNested(r.boundary.repo)'
  <2>1. /\ r.boundary.host => OwnersHost(r.boundary.repo)
        /\ r.boundary.nested => OwnersNested(r.boundary.repo)
    <3>1. CASE r \in Read
      BY <1>2, <1>4, <3>1
    <3>2. CASE r = [file |-> f, boundary |-> b]
      <4>1. r.boundary = b
        BY <3>2
      <4> QED BY <1>3, <1>4, <4>1
    <3> QED BY <3>1, <3>2, ReadGrows
  <2> QED BY <1>1, <2>1, ReadGrows, OwnersStay
<1> QED BY <1>4 DEF GrantInv, OwnersHost, OwnersNested

LEMMA CloneKept ==
    ASSUME LoadTypeInv, TrustInv, layout' = layout, Read \subseteq Read',
           \A c \in clones' : \/ c \in clones
                              \/ /\ queue # <<>> /\ Head(queue).include.kind = "git"
                                 /\ MayDeclareGit(Head(queue).boundary)
                                 /\ c = Head(queue).include.repo
    PROVE  CloneInv'
<1> SUFFICES ASSUME Native, NEW c \in clones'
             PROVE  \E r \in Read' : \E i \in IncludesIn(r.file) :
                       i.kind = "git" /\ i.repo = c /\ (r.boundary = None \/ r.boundary.nested)
  BY DEF CloneInv, Native, IncludesIn, File
<1>1. CASE c \in clones
  BY <1>1 DEF TrustInv, CloneInv
<1>2. CASE c \notin clones
  <2>1. /\ queue # <<>> /\ Head(queue).include.kind = "git"
        /\ MayDeclareGit(Head(queue).boundary) /\ c = Head(queue).include.repo
    BY <1>2
  <2>2. PICK r \in Read : /\ Head(queue).boundary = r.boundary
                          /\ Head(queue).include \in IncludesIn(r.file)
    BY <2>1, HeadWritten DEF TrustInv
  <2> QED BY <2>1, <2>2 DEF MayDeclareGit
<1> QED BY <1>1, <1>2

\* An include of the project's own has lost nothing when it has been followed.
LEMMA FollowedKeepsGrants ==
    ASSUME LoadTypeInv, TrustInv, NEW e, NEW f, NEW b, Led(e, f, b),
           e.kind = "git", Head(queue).boundary = None
    PROVE  KeepsGrants(e)'
<1>1. LayoutOK(layout) /\ layout' = layout /\ e \in IncludesOf(layout) /\ f = Target(e)
  BY LayoutGiven, HeadWritten DEF LoadTypeInv, TrustInv, Led, Follows
<1>2. /\ b # None
      /\ b.host <=> e.host
      /\ b.nested <=> e.nested = "yes"
  BY <1>1, GrantedFields DEF Led, Follows
<1>3. ASSUME NEW s \in Read', s.file = f, s.boundary # None
      PROVE  (b.host => s.boundary.host) /\ (b.nested => s.boundary.nested)
  <2>1. CASE s \in Read
    <3>1. f \in seen /\ f \in DOMAIN effective /\ effective[f] = s.boundary
      BY <1>3, <2>1 DEF TrustInv, SeenInv, EffectiveInv
    <3>2. ~GrantLost(f, b)
      BY <3>1 DEF Led, ReadAlready, ReadNow
    <3> QED BY <1>2, <1>3, <3>1, <3>2 DEF GrantLost
  <2>2. CASE s = [file |-> f, boundary |-> b]
    <3>1. s.boundary = b
      BY <2>2
    <3> QED BY <3>1
  <2> QED BY <2>1, <2>2, ReadGrows
<1>4. Target(e)' = f
  BY <1>1 DEF Target
<1> QED BY <1>2, <1>3, <1>4 DEF KeepsGrants


LEMMA FileDoneStays ==
    ASSUME layout' = layout, seen \subseteq seen', locals \subseteq locals',
           NEW r, NEW e, FileDone(r, e)
    PROVE  FileDone(r, e)'
BY DEF FileDone, File

LEMMA GitDoneStays ==
    ASSUME layout' = layout, seen \subseteq seen', entries \subseteq entries',
           \A s \in Read' : s \in Read \/ s.file \notin seen,
           NEW r, NEW e, GitDone(r, e)
    PROVE  GitDone(r, e)'
<1>1. /\ e.kind = "git" /\ Target(e) \in seen
      /\ File(Target(e)).at \in DOMAIN layout.bundle
      /\ layout.checked => Judged(e)
      /\ r.boundary = None => KeepsGrants(e)
  BY DEF GitDone
<1>2. Target(e)' = Target(e)
  BY DEF Target
<1>3. layout.checked => Judged(e)'
  BY <1>1, <1>2 DEF Judged, File
<1>4. r.boundary = None => KeepsGrants(e)'
  BY <1>1, <1>2 DEF KeepsGrants
<1>5. File(Target(e))' = File(Target(e))
  BY <1>2 DEF File
<1> QED BY <1>1, <1>2, <1>3, <1>4, <1>5 DEF GitDone

LEMMA FollowedKept ==
    ASSUME LoadTypeInv, TrustInv, NEW e, NEW f, NEW b, Led(e, f, b)
    PROVE  FollowedInv'
<1>1. /\ LayoutOK(layout) /\ layout' = layout /\ phase = "includes" /\ queue # <<>>
      /\ e = Head(queue).include /\ BoundaryContains(b, f) /\ b \in BoundariesOf(layout)
      /\ locals \subseteq locals' /\ entries \subseteq entries'
  BY LayoutGiven DEF LoadTypeInv, Led, Follows
<1>2. e \in IncludesOf(layout)
  BY <1>1, HeadWritten DEF TrustInv
<1>3. \A s \in Read' : s \in Read \/ s.file \notin seen
  BY ReadGrows DEF Led
<1>4. b # None => File(f).at \in DOMAIN layout.bundle
  <2>1. ASSUME b # None PROVE b.repo \in DOMAIN layout.bundle
    BY <1>1, <2>1 DEF BoundariesOf, GrantsOf
  <2> QED BY <1>1, <2>1 DEF BoundaryContains, Within
<1>5. ASSUME NEW r \in Read, EntryOf(r, e) = Head(queue)
      PROVE  FileDone(r, e)' \/ GitDone(r, e)'
  <2>1. Head(queue).from = r.file /\ Head(queue).boundary = r.boundary
    BY <1>5 DEF EntryOf
  <2>2. CASE e.kind = "file"
    <3>1. /\ f = e.path /\ b = r.boundary /\ f \in seen'
          /\ r.boundary # None => <<r.file, f>> \in locals'
      BY <1>1, <2>1, <2>2, ReadGrows DEF Led, Follows
    <3>2. FileDone(r, e)'
      BY <1>1, <1>4, <2>2, <3>1 DEF FileDone, File
    <3> QED BY <3>2
  <2>3. CASE e.kind = "git"
    <3>1. /\ f = Target(e) /\ f \in seen' /\ b = Granted(r.boundary, e)
          /\ layout.checked =>
                IF File(f).toml THEN ~ChangesSince(CoveredBy(File(f).version, e.reviewed))
                ELSE <<f, e.reviewed>> \in entries'
      BY <1>1, <2>1, <2>3, ReadGrows DEF Led, Follows
    <3>2. b # None
      BY <1>1, <1>2, <2>3, <3>1, GrantedFields
    <3>3. Target(e)' = f /\ File(f)' = File(f)
      BY <1>1, <3>1 DEF Target, File
    <3>4. layout.checked => Judged(e)'
      BY <3>1, <3>3 DEF Judged
    <3>5. r.boundary = None => KeepsGrants(e)'
      BY <2>1, <2>3, FollowedKeepsGrants
    <3>6. GitDone(r, e)'
      BY <1>1, <1>4, <2>3, <3>1, <3>2, <3>3, <3>4, <3>5 DEF GitDone
    <3> QED BY <3>6
  <2> QED BY <1>2, <2>2, <2>3, IncludeFields
<1>6. ASSUME NEW r \in Read', NEW i \in IncludesIn(r.file)
      PROVE  EntryOf(r, i) \in Waiting' \/ FileDone(r, i)' \/ GitDone(r, i)'
  <2>1. CASE r \in Read
    <3>1. EntryOf(r, i) \in Waiting \/ FileDone(r, i) \/ GitDone(r, i)
      BY <1>1, <2>1 DEF TrustInv, FollowedInv
    <3>2. CASE FileDone(r, i)
      BY <1>1, <3>2, ReadGrows, FileDoneStays
    <3>3. CASE GitDone(r, i)
      BY <1>1, <1>3, <3>3, ReadGrows, GitDoneStays
    <3>4. CASE EntryOf(r, i) = Head(queue)
      <4>1. i = e
        BY <1>1, <3>4 DEF EntryOf
      <4> QED BY <1>5, <2>1, <3>4, <4>1
    <3>5. CASE EntryOf(r, i) \in Waiting /\ EntryOf(r, i) # Head(queue)
      BY <3>5 DEF Led, Leaves
    <3> QED BY <3>1, <3>2, <3>3, <3>4, <3>5
  <2>2. CASE r \notin Read
    <3>1. r = [file |-> f, boundary |-> b]
      BY <2>2, ReadGrows
    <3>2. ReadNow(f, b) /\ Leaves(NewEntries(f, b))
      BY <2>2 DEF Led, ReadAlready
    <3>3. r.file = f
      BY <3>1
    <3>4. EntryOf(r, i) \in NewEntries(f, b)
      BY <1>6, <3>1, <3>3 DEF NewEntries
    <3> QED BY <3>2, <3>4 DEF Leaves
  <2> QED BY <2>1, <2>2
<1> QED BY <1>1, <1>6 DEF FollowedInv, IncludesIn, File, EntryOf


\* A step that reads nothing and follows nothing.
LEMMA TrustStays ==
    ASSUME LoadTypeInv, TrustInv, UNCHANGED <<layout, queue, seen, effective, loaded>>,
           locals \subseteq locals', entries \subseteq entries', CloneInv',
           phase' \in {"includes", "read"} => phase \in {"includes", "read"}
    PROVE  TrustInv'
<1>1. Read' = Read /\ Waiting' = Waiting /\ layout' = layout
  BY DEF Read, Waiting
<1>2. SeenInv' /\ EffectiveInv' /\ PlaceInv'
  BY <1>1 DEF TrustInv, SeenInv, EffectiveInv, PlaceInv, File
<1>3. QueueInv' /\ GrantInv'
  BY <1>1 DEF TrustInv, QueueInv, GrantInv, IncludesIn, File, EntryOf
<1>4. ASSUME phase' \in {"includes", "read"}, NEW r \in Read', NEW i \in IncludesIn(r.file)
      PROVE  EntryOf(r, i) \in Waiting' \/ FileDone(r, i)' \/ GitDone(r, i)'
  <2>1. EntryOf(r, i) \in Waiting \/ FileDone(r, i) \/ GitDone(r, i)
    BY <1>1, <1>4 DEF TrustInv, FollowedInv
  <2>2. FileDone(r, i) => FileDone(r, i)'
    BY <1>1, FileDoneStays
  <2>3. GitDone(r, i) => GitDone(r, i)'
    BY <1>1, GitDoneStays
  <2> QED BY <1>1, <2>1, <2>2, <2>3
<1>5. FollowedInv'
  BY <1>1, <1>4 DEF FollowedInv, IncludesIn, File, EntryOf
<1> QED BY <1>2, <1>3, <1>5 DEF TrustInv

LEMMA ClonesStay ==
    ASSUME LoadTypeInv, TrustInv, layout' = layout, clones' = clones, Read \subseteq Read'
    PROVE  CloneInv'
BY CloneKept

LEMMA FollowFileTrust ==
    ASSUME LoadTypeInv, TrustInv, FollowFile
    PROVE  TrustInv'
<1> DEFINE next == Head(queue)
           e == next.include
           f == e.path
<1>1. /\ phase = "includes" /\ queue # <<>> /\ e.kind = "file"
      /\ layout' = layout /\ clones' = clones /\ entries' = entries
  BY DEF FollowFile
<1>2. /\ next.boundary \in BoundariesOf(layout) /\ f \in DOMAIN layout.files
  BY <1>1, HeadTyped, IncludeFields DEF LoadTypeInv
<1>3. CASE ~File(f).exists \/ ~BoundaryContains(next.boundary, f)
  <2>1. Refuse /\ locals' = locals
    BY <1>3 DEF FollowFile
  <2>2. UNCHANGED <<queue, seen, effective, loaded>> /\ phase' = "refused"
    BY <2>1 DEF Refuse
  <2>3. CloneInv'
    BY <1>1, <2>2, ClonesStay DEF Read
  <2> QED BY <1>1, <2>1, <2>2, <2>3, TrustStays
<1>4. CASE ~(~File(f).exists \/ ~BoundaryContains(next.boundary, f))
  <2>1. /\ locals' = NoteLocal(next.from, f, next.boundary)
        /\ Arrive(f, next.boundary, FALSE)
        /\ BoundaryContains(next.boundary, f)
    BY <1>4 DEF FollowFile
  <2>2. locals \subseteq locals' /\ (next.boundary # None => <<next.from, f>> \in locals')
    BY <2>1 DEF NoteLocal
  <2>3. Follows(e, f, next.boundary)
    BY <1>1, <1>2, <2>1, <2>2 DEF Follows
  <2>4. \/ Refused
        \/ ReadAlready(f, next.boundary) /\ Leaves({})
        \/ ReadNow(f, next.boundary) /\ Leaves(NewEntries(f, next.boundary))
    BY <1>1, <1>2, <2>1, ArriveEffects
  <2>5. CASE Refused
    <3>1. CloneInv'
      BY <1>1, <2>5, ClonesStay DEF Refused, Read
    <3> QED BY <1>1, <2>2, <2>5, <3>1, TrustStays DEF Refused
  <2>6. CASE ~Refused
    <3>1. Led(e, f, next.boundary)
      BY <2>3, <2>4, <2>6 DEF Led
    <3> HIDE DEF next, e, f
    <3>2. CloneInv'
      BY <1>1, <3>1, ReadGrows, ClonesStay
    <3> QED
      BY <3>1, <3>2, SeenKept, PlaceKept, QueueKept, GrantKept, FollowedKept DEF TrustInv
  <2> QED BY <2>5, <2>6
<1> QED BY <1>3, <1>4

LEMMA FollowGitTrust ==
    ASSUME LoadTypeInv, TrustInv, FollowGit
    PROVE  TrustInv'
<1> DEFINE next == Head(queue)
           e == next.include
           f == Target(e)
           b == Granted(next.boundary, e)
           bad == \/ ~DialectAllows(next.from, e) \/ ~MayDeclareGit(next.boundary)
                  \/ e.repo \in layout.unreachable
                  \/ f = None
                  \/ ~BoundaryContains(b, f)
                  \/ layout.checked /\ File(f).toml /\ ~BundleCovered(f, e.reviewed, FALSE)
<1>1. /\ phase = "includes" /\ queue # <<>> /\ e.kind = "git"
      /\ clones' = clones \cup ({CloneNow(next)} \ ({None} \cup layout.unreachable))
      /\ layout' = layout /\ locals' = locals
  BY DEF FollowGit
<1>2. e \in IncludesOf(layout)
  BY <1>1, HeadTyped DEF LoadTypeInv
<1>3. f \in DOMAIN layout.files \cup {None}
  BY <1>1, <1>2, LayoutGiven, TargetTyped DEF LoadTypeInv, Target
<1>4. b \in BoundariesOf(layout)
  BY <1>1, <1>2, GrantedTyped DEF BoundariesOf
<1>5. ASSUME Read \subseteq Read' PROVE CloneInv'
  <2>1. \A c \in clones' : \/ c \in clones
                           \/ MayDeclareGit(next.boundary) /\ c = e.repo
    BY <1>1 DEF CloneNow
  <2> QED BY <1>1, <1>5, <2>1, CloneKept
<1>6. CASE bad
  <2>1. Refuse /\ entries' = entries
    BY <1>6 DEF FollowGit
  <2>2. UNCHANGED <<queue, seen, effective, loaded>> /\ phase' = "refused"
    BY <2>1 DEF Refuse
  <2>3. CloneInv'
    BY <1>5, <2>2 DEF Read
  <2> QED BY <1>1, <2>1, <2>2, <2>3, TrustStays
<1>7. CASE ~bad
  <2>1. /\ entries' = IF layout.checked /\ ~File(f).toml
                        THEN entries \cup {<<f, e.reviewed>>} ELSE entries
        /\ Arrive(f, b, TRUE)
    BY <1>7 DEF FollowGit
  <2>2. f # None /\ BoundaryContains(b, f)
        /\ (layout.checked /\ File(f).toml => BundleCovered(f, e.reviewed, FALSE))
    BY <1>7
  <2>3. f \in DOMAIN layout.files
    BY <1>3, <2>2
  <2>4. entries \subseteq entries'
        /\ (layout.checked => IF File(f).toml
                                THEN ~ChangesSince(CoveredBy(File(f).version, e.reviewed))
                                ELSE <<f, e.reviewed>> \in entries')
    <3>1. layout.checked /\ File(f).toml => ~ChangesSince(CoveredBy(File(f).version, e.reviewed))
      BY <2>2 DEF BundleCovered
    <3> HIDE DEF next, e, f, b, bad
    <3> QED BY <2>1, <3>1
  <2>5. Follows(e, f, b)
    BY <1>1, <1>4, <2>2, <2>3, <2>4 DEF Follows
  <2> HIDE DEF f, b, bad
  <2>6. Refused \/ Led(e, f, b)
    BY <1>1, <1>4, <2>1, <2>3, <2>5, ArriveEffects DEF Led
  <2>7. CASE Refused
    <3>1. CloneInv'
      BY <1>5, <2>7 DEF Refused, Read
    <3> QED BY <1>1, <2>4, <2>7, <3>1, TrustStays DEF Refused
  <2>8. CASE Led(e, f, b)
    <3> HIDE DEF next, e
    <3>1. CloneInv'
      BY <1>5, <2>8, ReadGrows
    <3> QED
      BY <2>8, <3>1, SeenKept, PlaceKept, QueueKept, GrantKept, FollowedKept DEF TrustInv
  <2> QED BY <2>6, <2>7, <2>8
<1> QED BY <1>6, <1>7


LEMMA LoadRootTrust ==
    ASSUME LoadTypeInv, TrustInv, LoadRoot
    PROVE  TrustInv'
<1> DEFINE root == layout.root
           new == [file |-> root, boundary |-> None]
<1>1. /\ phase = "root" /\ seen = {} /\ clones = {}
      /\ UNCHANGED <<layout, clones, locals, entries>>
  BY DEF LoadRoot, LoadTypeInv, BeforeInv
<1>2. CASE ~Parses(root) \/ ~WellPlaced(root, TRUE)
  <2>1. phase' = "refused" /\ UNCHANGED <<queue, seen, effective, loaded>>
    BY <1>2 DEF LoadRoot, Refuse
  <2>2. CloneInv'
    BY <1>1, <2>1, ClonesStay DEF Read
  <2> QED BY <1>1, <2>1, <2>2, TrustStays
<1>3. CASE ~(~Parses(root) \/ ~WellPlaced(root, TRUE))
  <2>1. /\ seen' = {root} /\ queue' = Entries(root, None) /\ loaded' = <<new>>
        /\ effective' = effective
    BY <1>3 DEF LoadRoot
  <2>2. LayoutOK(layout) /\ root \in DOMAIN layout.files
        /\ File(root).at \notin DOMAIN layout.bundle
    BY LayoutGiven DEF LoadTypeInv, LayoutOK, File
  <2>3. DOMAIN effective' = {}
    <3>1. effective \in [seen \ {layout.root} -> BoundariesOf(layout)]
      BY DEF LoadTypeInv, LoadTypeOK
    <3>2. seen \ {layout.root} = {}
      BY <1>1
    <3> QED BY <2>1, <3>1, <3>2
  <2>4. Read' = {new}
    <3>1. ASSUME NEW x PROVE ToSet(<<x>>) = {x}
      <4>1. DOMAIN <<x>> = {1} /\ <<x>>[1] = x
        OBVIOUS
      <4> QED BY <4>1, Zenon DEF ToSet
    <3> QED BY <2>1, <3>1 DEF Read
  <2>5. Waiting' = NewEntries(root, None)
    BY <2>1, <2>2, EntriesElements DEF Waiting, BoundariesOf
  <2>6. new.file = root /\ new.boundary = None
    OBVIOUS
  <2>7. NewEntries(root, None) = {EntryOf(new, i) : i \in IncludesIn(root)}
    BY DEF NewEntries
  <2> HIDE DEF new
  <2>8. SeenInv' /\ EffectiveInv'
    BY <2>1, <2>3, <2>4, <2>6 DEF SeenInv, EffectiveInv
  <2>9. PlaceInv'
    BY <1>1, <2>2, <2>4, <2>6 DEF PlaceInv, File
  <2>10. CloneInv' /\ GrantInv'
    BY <1>1, <2>4, <2>6 DEF CloneInv, GrantInv
  <2>11. IncludesIn(root)' = IncludesIn(root)
    BY <1>1 DEF IncludesIn, File
  <2>12. \A w \in Waiting' : \E i \in IncludesIn(root)' : w = EntryOf(new, i)
    BY <2>5, <2>7, <2>11
  <2>13. QueueInv'
    BY <1>1, <2>4, <2>6, <2>12 DEF QueueInv, EntryOf, IncludesIn, File
  <2>14. \A i \in IncludesIn(root)' : EntryOf(new, i) \in Waiting'
    BY <2>5, <2>7, <2>11
  <2>15. FollowedInv'
    BY <1>1, <2>4, <2>6, <2>14 DEF FollowedInv, EntryOf, IncludesIn, File
  <2> QED BY <2>8, <2>9, <2>10, <2>13, <2>15 DEF TrustInv
<1> QED BY <1>2, <1>3

LEMMA WalkStepKept ==
    ASSUME LoadTypeInv, WalkInv, WalkStep
    PROVE  WalkInv'
<1> DEFINE Kept(s) == \A w \in s : w.boundary # None => File(w.file).real = w.boundary.repo
<1>0. layout' = layout /\ LayoutOK(layout) /\ visited \subseteq DOMAIN layout.files
  BY LayoutGiven DEF WalkStep, BeginWalk, WalkOn, LoadTypeInv, LoadTypeOK
<1>1. ASSUME NEW stack \in Seq(VisitsOf(layout)), Kept(ToSet(stack)), NEW place,
             place # None => /\ place \in PlacesOf(layout)
                             /\ BoundaryContains(place.boundary, place.file),
             WalkInto(stack, place)
      PROVE  Kept(ToSet(walk'))
  <2> DEFINE new == [file |-> place.file, boundary |-> place.boundary,
                     left |-> File(place.file).includes]
  <2>1. /\ ToSet(walk') \subseteq ToSet(stack) \cup {new}
        /\ place = None => ToSet(walk') \subseteq ToSet(stack)
    BY <1>0, <1>1, WalkIntoTyped
  <2>2. CASE place = None
    BY <1>1, <2>1, <2>2
  <2>3. CASE place # None
    <3>1. new.boundary # None => File(new.file).real = new.boundary.repo
      BY <1>1, <2>3 DEF BoundaryContains
    <3> HIDE DEF new
    <3> QED BY <1>1, <2>1, <3>1
  <2> QED BY <2>2, <2>3
<1>2. CASE BeginWalk
  <2> DEFINE place == [file |-> layout.root, boundary |-> None]
  <2>1. WalkInto(<<>>, place)
    BY <1>2 DEF BeginWalk
  <2>2. place \in PlacesOf(layout) /\ BoundaryContains(place.boundary, place.file)
    BY <1>0 DEF LayoutOK, PlacesOf, BoundariesOf, BoundaryContains
  <2>3. <<>> \in Seq(VisitsOf(layout)) /\ Kept(ToSet(<<>>))
    <3>1. ToSet(<<>>) = {}
      BY DEF ToSet
    <3> QED BY <3>1
  <2> HIDE DEF place, Kept
  <2>4. Kept(ToSet(walk'))
    BY <1>1, <2>1, <2>2, <2>3
  <2> QED BY <1>0, <2>4 DEF WalkInv, File, Kept
<1>3. CASE WalkOn
  <2> DEFINE top == Last(walk)
             rest == [top EXCEPT !.left = Tail(@)]
             less == Append(Front(walk), rest)
             place == WalkTarget(top.file, top.boundary, Head(top.left))
  <2>1. /\ walk # None /\ walk # <<>>
        /\ top.left = <<>> => walk' = Front(walk)
        /\ top.left # <<>> => WalkInto(less, place)
    BY <1>3 DEF WalkOn
  <2>2. /\ top \in VisitsOf(layout) /\ top \in ToSet(walk)
        /\ Front(walk) \in Seq(VisitsOf(layout)) /\ ToSet(Front(walk)) \subseteq ToSet(walk)
        /\ top.left # <<>> =>
              /\ less \in Seq(VisitsOf(layout))
              /\ ToSet(less) = ToSet(Front(walk)) \cup {rest}
              /\ place # None => /\ place \in PlacesOf(layout)
                                 /\ BoundaryContains(place.boundary, place.file)
    BY <2>1, WalkOnTyped DEF LoadTypeInv
  <2>3. rest.file = top.file /\ rest.boundary = top.boundary
    <3> HIDE DEF top
    <3> QED BY <2>2 DEF VisitsOf
  <2>4. Kept(ToSet(walk))
    BY <2>1 DEF WalkInv
  <2> HIDE DEF top, rest, less, place
  <2>5. Kept(ToSet(Front(walk))) /\ (top.boundary # None => File(top.file).real = top.boundary.repo)
    BY <2>2, <2>4
  <2>6. CASE top.left = <<>>
    BY <1>0, <2>1, <2>5, <2>6 DEF WalkInv, File
  <2>7. CASE top.left # <<>>
    <3>1. Kept(ToSet(less))
      BY <2>2, <2>3, <2>5, <2>7
    <3> HIDE DEF Kept
    <3>2. Kept(ToSet(walk'))
      BY <1>1, <2>1, <2>2, <2>7, <3>1
    <3> QED BY <1>0, <3>2 DEF WalkInv, File, Kept
  <2> QED BY <2>6, <2>7
<1> QED BY <1>2, <1>3 DEF WalkStep


LEMMA InitLoad == ProjectInit => LoadInv
<1> SUFFICES ASSUME ProjectInit PROVE LoadInv
  OBVIOUS
<1>1. LoadTypeInv
  BY InitTyped
<1>2. /\ loaded = <<>> /\ queue = <<>> /\ seen = {} /\ clones = {} /\ walk = None
      /\ phase = "written_for"
  BY DEF ProjectInit, Init
<1>3. ToSet(<<>>) = {}
  BY DEF ToSet
<1>4. Read = {} /\ Waiting = {}
  BY <1>2, <1>3 DEF Read, Waiting
<1>5. TrustInv
  BY <1>2, <1>4 DEF TrustInv, SeenInv, EffectiveInv, PlaceInv, QueueInv, CloneInv, GrantInv,
                    FollowedInv
<1> QED BY <1>1, <1>2, <1>5 DEF LoadInv, FinishedInv, WalkInv

\* The checks of the YAML entry files are those of the state the load ends in.
LEMMA FinishedStays ==
    ASSUME FinishedInv, UNCHANGED <<layout, phase, queue, locals, entries>>
    PROVE  FinishedInv'
<1>1. \A y : BundleCovered(y[1], y[2], ReachesToml(y[1]))'
                <=> BundleCovered(y[1], y[2], ReachesToml(y[1]))
  BY DEF BundleCovered, ReachesToml, File
<1> QED BY <1>1 DEF FinishedInv

LEMMA WalkStays ==
    ASSUME WalkInv, UNCHANGED <<layout, walk>>
    PROVE  WalkInv'
BY DEF WalkInv, File

LEMMA NextLoad ==
    ASSUME LoadInv, [Next]_vars
    PROVE  LoadInv'
<1>1. LoadTypeInv /\ TrustInv /\ FinishedInv /\ WalkInv /\ LoadTypeInv'
  BY NextTyped DEF LoadInv
<1>2. CASE CheckRoot
  <2>1. /\ phase' \in {"root", "refused"}
        /\ UNCHANGED <<layout, queue, seen, effective, clones, locals, entries, loaded, walk>>
    BY <1>2 DEF CheckRoot, Refuse, walkVars
  <2>2. CloneInv'
    BY <1>1, <2>1, ClonesStay DEF Read
  <2>3. TrustInv'
    BY <1>1, <2>1, <2>2, TrustStays
  <2> QED BY <1>1, <2>1, <2>3, WalkStays DEF LoadInv, FinishedInv
<1>3. CASE LoadRoot
  <2>1. phase' \in {"includes", "refused"} /\ UNCHANGED <<layout, walk>>
    BY <1>3 DEF LoadRoot, Refuse, walkVars
  <2> QED BY <1>1, <1>3, <2>1, LoadRootTrust, WalkStays DEF LoadInv, FinishedInv
<1>4. CASE FollowFile
  <2>1. phase' # "read"
    <3>1. phase = "includes" /\ phase' \in {phase, "refused"}
      BY <1>4 DEF FollowFile, Arrive, Refuse
    <3> QED BY <3>1
  <2>2. UNCHANGED <<layout, walk>>
    BY <1>4 DEF FollowFile, walkVars
  <2> QED BY <1>1, <1>4, <2>1, <2>2, FollowFileTrust, WalkStays DEF LoadInv, FinishedInv
<1>5. CASE FollowGit
  <2>1. phase' # "read"
    <3>1. phase = "includes" /\ phase' \in {phase, "refused"}
      BY <1>5 DEF FollowGit, Arrive, Refuse
    <3> QED BY <3>1
  <2>2. UNCHANGED <<layout, walk>>
    BY <1>5 DEF FollowGit, walkVars
  <2> QED BY <1>1, <1>5, <2>1, <2>2, FollowGitTrust, WalkStays DEF LoadInv, FinishedInv
<1>6. CASE FinishLoad
  <2>1. /\ phase = "includes" /\ queue = <<>> /\ phase' \in {"read", "refused"}
        /\ phase' = "read" =>
              \A y \in entries : BundleCovered(y[1], y[2], ReachesToml(y[1]))
        /\ UNCHANGED <<layout, queue, seen, effective, clones, locals, entries, loaded, walk>>
    BY <1>6 DEF FinishLoad, walkVars
  <2>2. CloneInv'
    BY <1>1, <2>1, ClonesStay DEF Read
  <2>3. TrustInv'
    BY <1>1, <2>1, <2>2, TrustStays
  <2>4. FinishedInv'
    <3>1. \A y : BundleCovered(y[1], y[2], ReachesToml(y[1]))'
                    <=> BundleCovered(y[1], y[2], ReachesToml(y[1]))
      BY <2>1 DEF BundleCovered, ReachesToml, File
    <3> QED BY <2>1, <3>1 DEF FinishedInv
  <2> QED BY <1>1, <2>1, <2>3, <2>4, WalkStays DEF LoadInv
<1>7. ASSUME UNCHANGED <<layout, loadVars>>
      PROVE  TrustInv' /\ FinishedInv'
  <2>1. UNCHANGED <<layout, phase, queue, seen, effective, clones, locals, entries, loaded>>
    BY <1>7 DEF loadVars
  <2>2. CloneInv'
    BY <1>1, <2>1, ClonesStay DEF Read
  <2>3. TrustInv'
    BY <1>1, <2>1, <2>2, TrustStays
  <2> QED BY <1>1, <2>1, <2>3, FinishedStays
<1>8. CASE WalkStep
  <2>1. UNCHANGED <<layout, loadVars>>
    BY <1>8 DEF WalkStep, BeginWalk, WalkOn
  <2> QED BY <1>1, <1>7, <1>8, <2>1, WalkStepKept DEF LoadInv
<1>9. CASE UNCHANGED configLoadVars
  <2>1. UNCHANGED <<layout, loadVars>> /\ UNCHANGED <<layout, walk>>
    BY <1>9 DEF configLoadVars, walkVars
  <2> QED BY <1>1, <1>7, <2>1, WalkStays DEF LoadInv
<1> QED
  BY <1>2, <1>3, <1>4, <1>5, <1>6, <1>8, <1>9 DEF Next, LoadStep, vars

LEMMA LoadInvariant == Spec => []LoadInv
BY InitLoad, NextLoad, PTL DEF Spec


----------------------------------------------------------------------------
(* What follows.                                                           *)

LEMMA OwnersEntriesRead ==
    ASSUME NEW repo
    PROVE  \A e : e \in OwnersEntries(repo) <=>
              \E r \in Read : r.boundary = None /\ e \in IncludesIn(r.file)
                                 /\ e.kind = "git" /\ e.repo = repo
<1>1. \A e : e \in OwnersEntries(repo) <=>
         /\ e.kind = "git" /\ e.repo = repo
         /\ \E i \in DOMAIN loaded : loaded[i].boundary = None /\ e \in IncludesIn(loaded[i].file)
  BY DEF OwnersEntries, IncludesIn, Own
<1>2. \A r : r \in Read <=> \E i \in DOMAIN loaded : r = loaded[i]
  BY DEF Read, ToSet
<1> QED BY <1>1, <1>2

LEMMA TrustFollows == LoadInv => TrustIsTheOwners
<1> SUFFICES ASSUME LoadInv, Native PROVE TrustIsTheOwners
  BY DEF TrustIsTheOwners
<1>0. \A i \in DOMAIN loaded : loaded[i] \in Read
  BY DEF Read, ToSet
<1>1. \A r \in Read : \E i \in DOMAIN loaded : r = loaded[i]
  BY DEF Read, ToSet
<1>2. ASSUME NEW r \in clones
      PROVE  \/ OwnersEntries(r) # {}
             \/ \E i \in DOMAIN loaded :
                   /\ ~Own(i) /\ loaded[i].boundary.nested
                   /\ \E n \in DOMAIN File(loaded[i].file).includes :
                         LET e == File(loaded[i].file).includes[n]
                         IN e.kind = "git" /\ e.repo = r
  <2>1. PICK s \in Read : \E e \in IncludesIn(s.file) :
           e.kind = "git" /\ e.repo = r /\ (s.boundary = None \/ s.boundary.nested)
    BY <1>2 DEF LoadInv, TrustInv, CloneInv
  <2>2. PICK e \in IncludesIn(s.file) :
           e.kind = "git" /\ e.repo = r /\ (s.boundary = None \/ s.boundary.nested)
    BY <2>1
  <2>3. CASE s.boundary = None
    <3>1. e \in OwnersEntries(r)
      BY <2>2, <2>3, OwnersEntriesRead
    <3> QED BY <3>1
  <2>4. CASE s.boundary # None
    <3>1. PICK i \in DOMAIN loaded : s = loaded[i]
      BY <1>1
    <3>2. ~Own(i) /\ loaded[i].boundary.nested
      BY <2>2, <2>4, <3>1 DEF Own
    <3>3. \E n \in DOMAIN File(loaded[i].file).includes : e = File(loaded[i].file).includes[n]
      BY <2>2, <3>1 DEF IncludesIn, ToSet
    <3> QED BY <2>2, <3>2, <3>3
  <2> QED BY <2>3, <2>4
<1>3. ASSUME NEW i \in DOMAIN loaded, ~Own(i)
      PROVE  LET b == loaded[i].boundary
             IN /\ b.host => \E e \in OwnersEntries(b.repo) : e.host
                /\ b.nested => \E e \in OwnersEntries(b.repo) : e.nested = "yes"
  <2> DEFINE b == loaded[i].boundary
  <2>1. /\ b.host => \E s \in Read : s.boundary = None /\ \E e \in IncludesIn(s.file) :
                         e.kind = "git" /\ e.repo = b.repo /\ e.host
        /\ b.nested => \E s \in Read : s.boundary = None /\ \E e \in IncludesIn(s.file) :
                         e.kind = "git" /\ e.repo = b.repo /\ e.nested = "yes"
    BY <1>0, <1>3 DEF LoadInv, TrustInv, GrantInv, Own
  <2> HIDE DEF b
  <2>2. b.host => \E e \in OwnersEntries(b.repo) : e.host
    BY <2>1, OwnersEntriesRead, Zenon
  <2>3. b.nested => \E e \in OwnersEntries(b.repo) : e.nested = "yes"
    BY <2>1, OwnersEntriesRead, Zenon
  <2> QED BY <2>2, <2>3 DEF b
<1>4. ASSUME phase = "read", NEW j \in DOMAIN loaded, ~Own(j),
             NEW e \in OwnersEntries(loaded[j].boundary.repo), Target(e) = loaded[j].file
      PROVE  /\ e.host => loaded[j].boundary.host
             /\ e.nested = "yes" => loaded[j].boundary.nested
  <2>1. PICK r \in Read : r.boundary = None /\ e \in IncludesIn(r.file) /\ e.kind = "git"
    BY <1>4, OwnersEntriesRead
  <2>2. Waiting = {}
    <3>1. queue = <<>>
      BY <1>4 DEF LoadInv, FinishedInv
    <3>2. DOMAIN <<>> = {}
      OBVIOUS
    <3> QED BY <3>1, <3>2 DEF Waiting, ToSet
  <2>3. FileDone(r, e) \/ GitDone(r, e)
    BY <1>4, <2>1, <2>2 DEF LoadInv, TrustInv, FollowedInv
  <2>4. KeepsGrants(e)
    BY <2>1, <2>3 DEF FileDone, GitDone
  <2> QED BY <1>0, <1>4, <2>4 DEF KeepsGrants, Own
<1> QED BY <1>2, <1>3, <1>4, Zenon DEF TrustIsTheOwners

\* No remote is cloned that the project's owner did not let in, no file is read
\* under a permission the owner did not write, and a load that succeeds has lost
\* none of them, in whatever order any number of routes reach a file
\* (load_from_file_impl, Bundle::granted, EffectiveGrants::check).
THEOREM TrustIsTheOwnersHolds == Spec => []TrustIsTheOwners
BY LoadInvariant, TrustFollows, PTL

LEMMA ReadThemselvesFollows == LoadInv => BundlesReadThemselves
<1> SUFFICES ASSUME LoadInv PROVE BundlesReadThemselves
  OBVIOUS
<1>1. \A i \in DOMAIN loaded : ~Own(i) => File(loaded[i].file).real = loaded[i].boundary.repo
  BY DEF LoadInv, TrustInv, PlaceInv, Read, ToSet, Own
<1>2. walk \notin {None, <<>>} =>
         \A n \in DOMAIN walk : walk[n].boundary # None =>
             File(walk[n].file).real = walk[n].boundary.repo
  BY DEF LoadInv, WalkInv, ToSet
<1> QED BY <1>1, <1>2 DEF BundlesReadThemselves

\* A bundle reads only files of its own checkout, when it is loaded and when its
\* tasks are completed, whatever its files link to (boundary_contains).
THEOREM BundlesReadThemselvesHolds == Spec => []BundlesReadThemselves
BY LoadInvariant, ReadThemselvesFollows, PTL


LEMMA CoveredFollows == LoadInv => BundlesCovered
<1> DEFINE files == DOMAIN layout.files
           links == {p \in files \X files : \E e \in ToSet(File(p[1]).includes) :
                        e.kind = "file" /\ e.path = p[2]}
<1> SUFFICES ASSUME LoadInv, phase = "read", layout.checked,
                    NEW i \in DOMAIN loaded, NEW e \in IncludesIn(loaded[i].file), e.kind = "git",
                    NEW f \in LedTo(files, links, Target(e)), File(f).toml
             PROVE  ~ChangesSince(CoveredBy(File(Target(e)).version, e.reviewed))
  BY Zenon DEF BundlesCovered, IncludesIn
<1> DEFINE top == Target(e)
<1>1. Waiting = {}
  <2>1. queue = <<>>
    BY DEF LoadInv, FinishedInv
  <2>2. DOMAIN <<>> = {}
    OBVIOUS
  <2> QED BY <2>1, <2>2 DEF Waiting, ToSet
<1>2. \A r \in Read : \A d \in IncludesIn(r.file) : FileDone(r, d) \/ GitDone(r, d)
  BY <1>1 DEF LoadInv, TrustInv, FollowedInv
<1>3. GitDone(loaded[i], e)
  <2>1. loaded[i] \in Read
    BY DEF Read, ToSet
  <2> QED BY <1>2, <2>1 DEF FileDone
<1>4. top \in seen /\ File(top).at \in DOMAIN layout.bundle /\ Judged(e)
  BY <1>3 DEF GitDone
<1>5. CASE File(top).toml
  BY <1>4, <1>5 DEF Judged
<1>6. CASE ~File(top).toml
  <2>1. <<top, e.reviewed>> \in entries
    BY <1>4, <1>6 DEF Judged
  <2>2. BundleCovered(top, e.reviewed, ReachesToml(top))
    <3>1. \A y \in entries : BundleCovered(y[1], y[2], ReachesToml(y[1]))
      BY DEF LoadInv, FinishedInv
    <3>2. <<top, e.reviewed>>[1] = top /\ <<top, e.reviewed>>[2] = e.reviewed
      OBVIOUS
    <3> HIDE DEF top
    <3> QED BY <2>1, <3>1, <3>2, Zenon
  <2> HIDE DEF top
  <2>3. seen \subseteq files
    BY DEF LoadInv, LoadTypeInv, LoadTypeOK
  <2>4. ASSUME NEW S \in SUBSET files, top \in S,
               \A p \in locals : p[1] \in S => p[2] \in S
        PROVE  f \in S
    <3> DEFINE T == {g \in S : g \in seen /\ File(g).at \in DOMAIN layout.bundle}
    <3>1. top \in T
      BY <1>4, <2>4
    <3>2. ASSUME NEW p \in links, p[1] \in T PROVE p[2] \in T
      <4>1. PICK d \in IncludesIn(p[1]) : d.kind = "file" /\ d.path = p[2]
        BY <3>2 DEF IncludesIn
      <4>2. PICK r \in Read : r.file = p[1]
        BY <3>2 DEF LoadInv, TrustInv, SeenInv
      <4>3. r.boundary # None
        BY <3>2, <4>2 DEF LoadInv, TrustInv, PlaceInv
      <4>4. FileDone(r, d)
        BY <1>2, <4>1, <4>2 DEF GitDone
      <4>5. /\ p[2] \in seen /\ <<p[1], p[2]>> \in locals
            /\ File(p[2]).at \in DOMAIN layout.bundle
        BY <4>1, <4>2, <4>3, <4>4 DEF FileDone
      <4>6. p[2] \in S
        <5>1. <<p[1], p[2]>>[1] = p[1] /\ <<p[1], p[2]>>[2] = p[2]
          OBVIOUS
        <5>2. p[1] \in S
          BY <3>2
        <5> QED BY <2>4, <4>5, <5>1, <5>2, Zenon
      <4> QED BY <4>5, <4>6
    <3>3. T \in SUBSET files
      BY <2>4
    <3> HIDE DEF T, links
    <3>4. f \in T
      BY <3>1, <3>2, <3>3 DEF LedTo, top
    <3> QED BY <3>4 DEF T
  <2>5. f \in LedTo(files, locals, top)
    <3>1. f \in files
      BY DEF LedTo
    <3> HIDE DEF files
    <3> QED BY <2>4, <3>1 DEF LedTo
  <2>6. ReachesToml(top)
    BY <1>6, <2>5 DEF ReachesToml
  <2> QED BY <2>2, <2>6 DEF BundleCovered, top
<1> QED BY <1>5, <1>6

\* A load that checks versions and succeeds has had every TOML file of a bundle
\* covered, by the include that names it or by every include that names a file it
\* is reached from, however the files of a bundle include one another and whichever
\* route read them first (check_bundle, check_bundle_entry, first_toml_reached).
THEOREM BundlesCoveredHolds == Spec => []BundlesCovered
BY LoadInvariant, CoveredFollows, PTL

----------------------------------------------------------------------------
(* Closures.                                                               *)

LEMMA ClosureHolds ==
    ASSUME NEW next, NEW from
    PROVE  /\ from \subseteq Closure(next, from)
           /\ \A x \in Closure(next, from) \cap DOMAIN next :
                 next[x] \subseteq Closure(next, from)
BY DEF Closure

LEMMA ClosureLeast ==
    ASSUME NEW next, NEW from, NEW S, from \subseteq S,
           \A x \in S \cap DOMAIN next : next[x] \subseteq S
    PROVE  Closure(next, from) \subseteq S
<1> DEFINE all == from \cup UNION {next[x] : x \in DOMAIN next}
           T == S \cap all
<1>1. T \in SUBSET all /\ from \subseteq T
  OBVIOUS
<1>2. \A x \in T \cap DOMAIN next : next[x] \subseteq T
  OBVIOUS
<1>3. \A x \in Closure(next, from) : x \in T
  BY <1>1, <1>2 DEF Closure
<1> QED BY <1>3

----------------------------------------------------------------------------
(* What load_project_impl has established at each stage.                   *)

Before == {"wait", "extends", "validate", "expand"}
Known == DOMAIN layout.containers

StageInv ==
    /\ stage \in Before \cup {"refused", "accepted", "evaluated", "failed"}
    /\ stage # "wait" => phase = "read"
    /\ resolved \subseteq Known
    /\ DOMAIN suppliers = Known
    /\ stage \in Before => Names = Known /\ tasks = layout.jobs

\* A container that has a host path has the one its supplier wrote.
PathInv ==
    /\ \A c \in Names : Has(c, "volume") =>
          c \in DOMAIN suppliers /\ containers[c].volume.by = suppliers[c]
    /\ stage \in Before => \A c \in Known \ resolved : suppliers[c] = c

\* A Batect configuration has nothing only Ratect's format has.
BatectInv ==
    ~Native /\ stage \in Before \ {"wait"} =>
        \A c \in Names : ~Has(c, "extends") /\ ~Checked(c)

ValidInv == stage = "expand" => Valid

ProjectInv ==
    StageInv /\ PathInv /\ BatectInv /\ ValidInv
    /\ AcceptedIsRunnable /\ PathsStayWithTheirWriter

LEMMA ProjectGiven ==
    ASSUME LoadTypeOK
    PROVE  ProjectOK(layout)
BY ProjectsAssumption DEF LoadTypeOK

LEMMA InitProject == ProjectInit => ProjectInv
<1> SUFFICES ASSUME ProjectInit PROVE ProjectInv
  OBVIOUS
<1>1. ProjectOK(layout)
  BY ProjectsAssumption DEF ProjectInit, Init
<1>2. StageInv
  BY DEF ProjectInit, StageInv, Before, Known, Names
<1>3. PathInv
  BY <1>1 DEF ProjectInit, PathInv, Before, Known, Names, Has, ProjectOK
<1> QED
  BY <1>2, <1>3 DEF ProjectInit, ProjectInv, BatectInv, ValidInv, AcceptedIsRunnable,
     PathsStayWithTheirWriter


----------------------------------------------------------------------------
(* Steps that leave the project alone.                                     *)

LEMMA SameFields ==
    ASSUME UNCHANGED containers
    PROVE  /\ Names' = Names /\ Checks' = Checks
           /\ \A c, f : Has(c, f)' = Has(c, f)
           /\ \A c, f, d : Get(c, f, d)' = Get(c, f, d)
           /\ \A c : /\ Deps(c)' = Deps(c) /\ Completes(c)' = Completes(c)
                     /\ Checked(c)' = Checked(c) /\ MapsUser(c)' = MapsUser(c)
                     /\ SharesNetwork(c)' = SharesNetwork(c)
<1>1. Names' = Names
  BY DEF Names
<1>2. \A c, f : Has(c, f)' = Has(c, f)
  BY DEF Has
<1>3. \A c, f, d : Get(c, f, d)' = Get(c, f, d)
  BY <1>2 DEF Get
<1>4. \A c : Checked(c)' = Checked(c)
  BY <1>2 DEF Checked
<1>5. Checks' = Checks
  BY <1>1, <1>4 DEF Checks
<1>6. \A c : Deps(c)' = Deps(c) /\ Completes(c)' = Completes(c)
            /\ MapsUser(c)' = MapsUser(c) /\ SharesNetwork(c)' = SharesNetwork(c)
  BY <1>3 DEF Deps, Completes, MapsUser, SharesNetwork
<1> QED BY <1>1, <1>2, <1>3, <1>4, <1>5, <1>6

LEMMA SameGraph ==
    ASSUME UNCHANGED <<containers, tasks>>
    PROVE  /\ \A c : HasNetworkOwner(c)' = HasNetworkOwner(c)
           /\ \A t : NamesInTask(t)' = NamesInTask(t) /\ Edges(t)' = Edges(t)
<1>1. Names' = Names /\ \A c : Deps(c)' = Deps(c) /\ SharesNetwork(c)' = SharesNetwork(c)
  BY SameFields
<1>2. \A c : HasNetworkOwner(c)' = HasNetworkOwner(c)
  BY <1>1 DEF HasNetworkOwner
<1>3. \A t : NamesInTask(t)' = NamesInTask(t)
  BY <1>1 DEF NamesInTask
<1>4. \A t : Edges(t)' = Edges(t)
  BY <1>1 DEF Edges
<1> QED BY <1>2, <1>3, <1>4

LEMMA SameValid ==
    ASSUME UNCHANGED <<containers, tasks, layout>>
    PROVE  Valid' = Valid
<1>1. ReferencesDeclared' = ReferencesDeclared
  BY SameFields DEF ReferencesDeclared
<1>2. CacheScopesAgree' = CacheScopesAgree /\ CompletesAlone' = CompletesAlone
  BY SameFields DEF CacheScopesAgree, CompletesAlone
<1>3. CachesAbsolute' = CachesAbsolute
  BY SameFields DEF CachesAbsolute
<1>4. CustomisesOwn' = CustomisesOwn
  BY SameGraph DEF CustomisesOwn
<1>5. SetupTargetsReady' = SetupTargetsReady
  BY SameFields DEF SetupTargetsReady
<1>6. NetworksShareable' = NetworksShareable
  BY SameFields, SameGraph DEF NetworksShareable
<1>7. IdentitiesAllowed' = IdentitiesAllowed
  BY SameFields DEF IdentitiesAllowed
<1> QED BY <1>1, <1>2, <1>3, <1>4, <1>5, <1>6, <1>7 DEF Valid

LEMMA SameAccepted ==
    ASSUME UNCHANGED <<stage, containers, tasks>>
    PROVE  AcceptedIsRunnable' = AcceptedIsRunnable
<1>1. \A c : RunAs(c)' = RunAs(c)
  BY SameFields DEF RunAs
<1>2. \A t, c : RunnableIn(t, c)' = RunnableIn(t, c)
  BY <1>1, SameFields, SameGraph DEF RunnableIn
<1>3. \A t : ChecksAddNoCycle(t)' = ChecksAddNoCycle(t)
  BY SameFields, SameGraph DEF ChecksAddNoCycle
<1> QED BY <1>2, <1>3, SameGraph DEF AcceptedIsRunnable

LEMMA SamePaths ==
    ASSUME UNCHANGED <<stage, containers, layout, loaded, mounted>>
    PROVE  PathsStayWithTheirWriter' = PathsStayWithTheirWriter
<1>1. \A c : Origin(c)' = Origin(c) /\ File(c)' = File(c)
  BY DEF Origin, File
<1>2. \A c : BoundaryOf(c)' = BoundaryOf(c)
  BY <1>1 DEF BoundaryOf
<1> QED BY <1>1, <1>2 DEF PathsStayWithTheirWriter

LEMMA LoadStepProject ==
    ASSUME ProjectInv, UNCHANGED projectVars, UNCHANGED layout,
           phase = "read" => phase' = "read" /\ loaded' = loaded
    PROVE  ProjectInv'
<1>1. UNCHANGED <<stage, containers, resolved, tasks, suppliers, mounted>>
  BY DEF projectVars
<1>2. StageInv'
  BY <1>1 DEF ProjectInv, StageInv, Known, Names
<1>3. PathInv'
  BY <1>1 DEF ProjectInv, PathInv, Known, Names, Has
<1>4. BatectInv'
  BY <1>1 DEF ProjectInv, BatectInv, Names, Has, Checked, Native
<1>5. ValidInv' /\ AcceptedIsRunnable'
  BY <1>1, SameValid, SameAccepted DEF ProjectInv, ValidInv
<1>6. PathsStayWithTheirWriter'
  <2>1. stage = "evaluated" => loaded' = loaded
    BY DEF ProjectInv, StageInv
  <2> QED BY <1>1, <2>1, SamePaths DEF ProjectInv, PathsStayWithTheirWriter
<1> QED BY <1>2, <1>3, <1>4, <1>5, <1>6 DEF ProjectInv


----------------------------------------------------------------------------
(* The steps of load_project_impl, but the last.                           *)

LEMMA CheckOwnFilesProject ==
    ASSUME ProjectInv, CheckOwnFiles, UNCHANGED configLoadVars
    PROVE  ProjectInv'
<1>1. /\ stage = "wait" /\ phase = "read"
      /\ stage' \in {"extends", "refused"}
      /\ stage' = "extends" => \A c \in Names : FieldsAllowed(c)
      /\ UNCHANGED <<containers, resolved, tasks, suppliers, mounted>>
  BY DEF CheckOwnFiles
<1>2. UNCHANGED <<layout, phase, loaded>>
  BY DEF configLoadVars, loadVars
<1>3. StageInv'
  BY <1>1, <1>2 DEF ProjectInv, StageInv, Known, Names, Before
<1>4. PathInv'
  BY <1>1, <1>2 DEF ProjectInv, PathInv, Known, Names, Has, Before
<1>5. BatectInv'
  <2> SUFFICES ASSUME ~Native, stage' = "extends", NEW c \in Names
               PROVE  ~Has(c, "extends") /\ ~Checked(c)
    BY <1>1, <1>2, SameFields DEF BatectInv, Native, Before
  <2>1. DOMAIN containers[c] \cap NativeFields = {}
    BY <1>1 DEF FieldsAllowed, ReadsAsBatect
  <2> QED BY <2>1 DEF NativeFields, Has, Checked
<1> QED BY <1>1, <1>3, <1>4, <1>5
        DEF ProjectInv, ValidInv, AcceptedIsRunnable, PathsStayWithTheirWriter

LEMMA ValidateProjectKept ==
    ASSUME ProjectInv, ValidateProject, UNCHANGED configLoadVars
    PROVE  ProjectInv'
<1>1. /\ stage = "validate"
      /\ stage' \in {"expand", "refused"}
      /\ stage' = "expand" => Valid
      /\ UNCHANGED <<containers, resolved, tasks, suppliers, mounted>>
  BY DEF ValidateProject
<1>2. UNCHANGED <<layout, phase, loaded>>
  BY DEF configLoadVars, loadVars
<1>3. StageInv'
  BY <1>1, <1>2 DEF ProjectInv, StageInv, Known, Names, Before
<1>4. PathInv'
  BY <1>1, <1>2 DEF ProjectInv, PathInv, Known, Names, Has, Before
<1>5. BatectInv'
  BY <1>1, <1>2, SameFields DEF ProjectInv, BatectInv, Native, Before
<1>6. ValidInv'
  BY <1>1, <1>2, SameValid DEF ValidInv
<1> QED BY <1>1, <1>3, <1>4, <1>5, <1>6
        DEF ProjectInv, AcceptedIsRunnable, PathsStayWithTheirWriter

\* A generation of extends: a container resolved has its own volume, written by
\* itself, or its parent's with its parent's supplier.
LEMMA ResolveExtendsProject ==
    ASSUME ProjectInv, ResolveExtends, UNCHANGED configLoadVars
    PROVE  ProjectInv'
<1>1. UNCHANGED <<layout, phase, loaded, tasks, mounted>> /\ stage = "extends"
  BY DEF ResolveExtends, configLoadVars, loadVars
<1>2. CASE stage' = "refused" /\ UNCHANGED <<containers, resolved, suppliers>>
  <2>1. StageInv'
    BY <1>1, <1>2 DEF ProjectInv, StageInv, Known, Names, Before
  <2>2. PathInv'
    BY <1>1, <1>2 DEF ProjectInv, PathInv, Known, Names, Has, Before
  <2> QED BY <1>2, <2>1, <2>2 DEF ProjectInv, BatectInv, Before, ValidInv, AcceptedIsRunnable,
          PathsStayWithTheirWriter
<1>3. CASE /\ \A c \in Names : Parent(c) \in Names \cup {None}
           /\ containers' = [c \in Names |->
                    IF c \in Resolvable THEN Merged(c) ELSE containers[c]]
           /\ suppliers' = [c \in Names |->
                    IF c \in Resolvable THEN SuppliedBy(c) ELSE suppliers[c]]
           /\ resolved' = resolved \cup Resolvable
           /\ stage' = IF resolved' = Names THEN "validate" ELSE stage
  <2>1. stage' \in {"extends", "validate"}
    BY <1>1, <1>3
  <2>2. /\ Names = Known /\ DOMAIN suppliers = Known /\ tasks = layout.jobs
        /\ phase = "read" /\ resolved \subseteq Known
    BY <1>1 DEF ProjectInv, StageInv, Before
  <2>3. Names' = Names /\ Known' = Known /\ Resolvable \subseteq Names
    BY <1>1, <1>3 DEF Names, Known, Resolvable
  <2>4. StageInv'
    BY <1>1, <1>3, <2>1, <2>2, <2>3 DEF StageInv, Before
  <2>5. ASSUME NEW c \in Resolvable
        PROVE  /\ DOMAIN Merged(c) \subseteq
                     DOMAIN containers[c] \cup
                     (IF Parent(c) = None THEN {} ELSE DOMAIN containers[Parent(c)])
               /\ \A f \in DOMAIN Merged(c) : Merged(c)[f] =
                     IF Has(c, f) THEN containers[c][f] ELSE containers[Parent(c)][f]
    <3>1. DOMAIN << >> = {}
      OBVIOUS
    <3> QED BY <3>1 DEF Merged, Has
  <2>6. PathInv'
    <3>1. ASSUME NEW c \in Names, "volume" \in DOMAIN containers'[c]
          PROVE  containers'[c]["volume"].by = suppliers'[c]
      <4>1. CASE c \notin Resolvable
        <5>1. containers'[c] = containers[c] /\ suppliers'[c] = suppliers[c]
          BY <1>3, <4>1
        <5> QED BY <3>1, <5>1 DEF ProjectInv, PathInv, Has
      <4>2. CASE c \in Resolvable
        <5>1. containers'[c] = Merged(c) /\ suppliers'[c] = SuppliedBy(c)
          BY <1>3, <4>2
        <5>2. CASE Has(c, "volume")
          <6>1. Merged(c)["volume"] = containers[c]["volume"] /\ SuppliedBy(c) = c
            BY <2>5, <3>1, <4>2, <5>1, <5>2 DEF SuppliedBy
          <6>2. suppliers[c] = c
            BY <1>1, <2>2, <4>2 DEF Resolvable, ProjectInv, PathInv, Before
          <6>3. containers[c]["volume"].by = suppliers[c]
            BY <5>2 DEF ProjectInv, PathInv
          <6> QED BY <5>1, <6>1, <6>2, <6>3
        <5>3. CASE ~Has(c, "volume")
          <6>1. Parent(c) # None /\ "volume" \in DOMAIN containers[Parent(c)]
            BY <2>5, <3>1, <4>2, <5>1, <5>3 DEF Has
          <6>2. Parent(c) \in Names
            BY <1>3, <6>1
          <6>3. containers[Parent(c)]["volume"].by = suppliers[Parent(c)]
            BY <6>1, <6>2 DEF ProjectInv, PathInv, Has
          <6>4. SuppliedBy(c) = suppliers[Parent(c)]
            BY <5>3, <6>1 DEF SuppliedBy
          <6>5. Merged(c)["volume"] = containers[Parent(c)]["volume"]
            BY <2>5, <3>1, <4>2, <5>1, <5>3
          <6> QED BY <5>1, <6>3, <6>4, <6>5
        <5> QED BY <5>2, <5>3
      <4> QED BY <4>1, <4>2
    <3>2. ASSUME NEW c \in Known \ resolved'
          PROVE  suppliers'[c] = c
      BY <1>1, <1>3, <2>2, <2>3 DEF ProjectInv, PathInv, Before
    <3>3. DOMAIN suppliers' = Names
      BY <1>3
    <3> QED BY <2>3, <3>1, <3>2, <3>3 DEF PathInv, Has
  <2>7. BatectInv'
    <3> SUFFICES ASSUME ~Native, NEW c \in Names
                 PROVE  {"extends", "external_health_check"} \cap DOMAIN containers'[c] = {}
      BY <1>1, <2>3 DEF BatectInv, Native, Has, Checked
    <3>1. ~Has(c, "extends") /\ ~Has(c, "external_health_check")
      BY <1>1 DEF ProjectInv, BatectInv, Before, Checked
    <3>2. Parent(c) = None
      BY <3>1 DEF Parent, Get
    <3>3. DOMAIN containers'[c] \subseteq DOMAIN containers[c]
      BY <1>3, <2>5, <3>2
    <3> QED BY <3>1, <3>3 DEF Has
  <2> QED BY <2>1, <2>4, <2>6, <2>7 DEF ProjectInv, ValidInv, AcceptedIsRunnable,
          PathsStayWithTheirWriter
<1> QED BY <1>2, <1>3 DEF ResolveExtends

\* Evaluating a task mounts each path where its supplier, and so its writer,
\* stands.
LEMMA EvaluateProject ==
    ASSUME ProjectInv, NEW t \in DOMAIN tasks, Evaluate(t), UNCHANGED configLoadVars
    PROVE  ProjectInv'
<1>1. /\ UNCHANGED <<layout, phase, loaded>> /\ UNCHANGED <<containers, resolved, tasks, suppliers>>
      /\ stage = "accepted" /\ stage' \in {"evaluated", "failed"}
  BY DEF Evaluate, configLoadVars, loadVars
<1>2. StageInv'
  BY <1>1 DEF ProjectInv, StageInv, Known, Names, Before
<1>3. PathInv'
  BY <1>1 DEF ProjectInv, PathInv, Known, Names, Has, Before
<1>4. PathsStayWithTheirWriter'
  <2> DEFINE mounting == {c \in NamesInTask(t) : Has(c, "volume")}
  <2> SUFFICES ASSUME stage' = "evaluated" PROVE PathsStayWithTheirWriter'
    BY DEF PathsStayWithTheirWriter
  <2>1. mounted' = [c \in mounting |-> Mount(c)] /\ \A c \in mounting : Mount(c) # None
    BY DEF Evaluate
  <2>2. ASSUME NEW c \in mounting, c \in Names
        PROVE  LET by == containers[c].volume.by
               IN \/ Mount(c) = File(Origin(by)).at
                  \/ Mount(c) = "host" /\ (BoundaryOf(by) = None \/ BoundaryOf(by).host)
    <3>1. SupplierOf(c) = containers[c].volume.by
      BY <2>2 DEF ProjectInv, PathInv, SupplierOf
    <3>2. Mount(c) # None
      BY <2>1
    <3> QED BY <3>1, <3>2 DEF Mount, PathAllowed
  <2>3. mounting \subseteq Names
    BY <1>1 DEF ProjectInv, AcceptedIsRunnable, RunnableIn
  <2>4. \A c : /\ Origin(c)' = Origin(c) /\ File(c)' = File(c)
               /\ BoundaryOf(c)' = BoundaryOf(c)
    BY <1>1 DEF Origin, File, BoundaryOf
  <2> QED BY <1>1, <2>1, <2>2, <2>3, <2>4 DEF PathsStayWithTheirWriter
<1> QED BY <1>1, <1>2, <1>3, <1>4 DEF ProjectInv, BatectInv, Before, ValidInv, AcceptedIsRunnable


----------------------------------------------------------------------------
(* External health checks.                                                 *)

Companies == {Companion[d] : d \in Checks}

\* What the expansion starts from: nothing written names a companion.
Expandable ==
    /\ Names \subseteq (DOMAIN Companion) \ {None}
    /\ Companies \cap Names = {}
    /\ \A c \in Names : Deps(c) \subseteq Names
    /\ \A t \in DOMAIN tasks :
          /\ tasks[t].run \in (Names \cup {None}) \ Companies
          /\ tasks[t].dependencies \subseteq Names
          /\ {"run", "dependencies", "customise", "ports"} \subseteq DOMAIN tasks[t]
    /\ \A c \in Checks : ~Completes(c)

\* What the expansion leaves: who waits for a checked container waits for its
\* companion too, and a companion waits for the container it checks.
ExpandedTo ==
    /\ Names' = Names \cup Companies
    /\ \A c \in Names :
          /\ DOMAIN containers'[c] = DOMAIN containers[c]
          /\ \A f \in DOMAIN containers[c] \ {"dependencies"} :
                containers'[c][f] = containers[c][f]
          /\ "dependencies" \in DOMAIN containers[c] =>
                containers'[c]["dependencies"] = WithCompanions(c, containers[c]["dependencies"])
    /\ \A c \in Checks : containers'[Companion[c]] = TheCompanion(c)
    /\ tasks' = [t \in DOMAIN tasks |->
                    [tasks[t] EXCEPT !.dependencies = TaskWaits(@)]]

LEMMA ExpandEffects ==
    ASSUME LoadTypeOK, ProjectInv, ExpandExternalHealthChecks, UNCHANGED configLoadVars,
           stage' # "refused"
    PROVE  stage' = "accepted" /\ Valid /\ Expandable /\ ExpandedTo
<1>1. stage = "expand" /\ Valid /\ Names = Known /\ tasks = layout.jobs /\ ProjectOK(layout)
  BY ProjectGiven DEF ExpandExternalHealthChecks, ProjectInv, ValidInv, StageInv, Before
<1>2. /\ stage' = "accepted"
      /\ Native => \A c \in Checks : CheckAllowed(c) /\ CompanionUnused(c)
      /\ containers' = IF Native THEN Expanded ELSE containers
      /\ tasks' = [t \in DOMAIN tasks |->
                    [tasks[t] EXCEPT !.dependencies = TaskWaits(@)]]
  BY DEF ExpandExternalHealthChecks
<1>3. ~Native => Checks = {}
  BY <1>1 DEF ProjectInv, BatectInv, Before, Checks
<1>4. \A c \in Checks : CheckAllowed(c) /\ CompanionUnused(c)
  BY <1>2, <1>3
<1>5. Names \subseteq (DOMAIN Companion) \ {None} /\ Companies \cap Names = {}
  BY <1>1, <1>4 DEF ProjectOK, Known, Companies, CompanionUnused
<1>6. Expandable
  <2>1. Companies = {Companion[c] : c \in {c \in Names : Checked(c)}}
    BY DEF Companies, Checks
  <2>2. /\ \A c \in Names : Deps(c) \subseteq Names \cup Companies
        /\ \A t \in DOMAIN tasks :
             ({tasks[t].run} \ {None}) \cup tasks[t].dependencies \subseteq Names \cup Companies
    BY <1>1, <2>1 DEF Valid, ReferencesDeclared
  <2>3. \A c \in Names : Deps(c) \subseteq Names
    BY <1>4, <2>2 DEF Companies, CompanionUnused
  <2>4. ASSUME NEW t \in DOMAIN tasks
        PROVE  /\ tasks[t].run \in (Names \cup {None}) \ Companies
               /\ tasks[t].dependencies \subseteq Names
    BY <1>4, <2>2 DEF Companies, CompanionUnused
  <2>5. \A c \in Checks : ~Completes(c)
    BY <1>4 DEF CheckAllowed
  <2> QED BY <1>1, <1>5, <2>3, <2>4, <2>5 DEF Expandable, ProjectOK
<1>7. CASE ~Native
  <2>1. containers' = containers /\ Checks = {} /\ Companies = {}
    BY <1>2, <1>3, <1>7 DEF Companies
  <2>2. \A c, deps : WithCompanions(c, deps) = deps
    BY <2>1 DEF WithCompanions
  <2> QED BY <1>1, <1>2, <1>6, <2>1, <2>2 DEF ExpandedTo, Names
<1>8. CASE Native
  <2>1. containers' = [c \in Names \cup Companies |->
            IF c \notin Names
              THEN TheCompanion(CHOOSE d \in Checks : Companion[d] = c)
              ELSE IF Has(c, "dependencies")
                     THEN [containers[c] EXCEPT !.dependencies = WithCompanions(c, @)]
                     ELSE containers[c]]
    BY <1>2, <1>8 DEF Expanded, Companies
  <2>2. Names' = Names \cup Companies
    BY <2>1 DEF Names
  <2>3. ASSUME NEW c \in Names
        PROVE  /\ DOMAIN containers'[c] = DOMAIN containers[c]
               /\ \A f \in DOMAIN containers[c] \ {"dependencies"} :
                     containers'[c][f] = containers[c][f]
               /\ "dependencies" \in DOMAIN containers[c] =>
                     containers'[c]["dependencies"] =
                         WithCompanions(c, containers[c]["dependencies"])
    BY <2>1 DEF Has
  <2>4. ASSUME NEW c \in Checks
        PROVE  containers'[Companion[c]] = TheCompanion(c)
    <3>1. Companion[c] \in Companies /\ Companion[c] \notin Names /\ Checks \subseteq Names
      BY <1>5 DEF Companies, Checks
    <3>2. containers'[Companion[c]] =
            TheCompanion(CHOOSE d \in Checks : Companion[d] = Companion[c])
      BY <2>1, <3>1
    <3>3. (CHOOSE d \in Checks : Companion[d] = Companion[c]) = c
      <4>1. \A d \in Checks : Companion[d] = Companion[c] => d = c
        BY <1>5, <3>1, ProjectsAssumption
      <4> QED BY <4>1
    <3> QED BY <3>2, <3>3
  <2> QED BY <1>1, <1>2, <1>6, <2>2, <2>3, <2>4 DEF ExpandedTo
<1> QED BY <1>7, <1>8


LEMMA AfterExpansion ==
    ASSUME Expandable, ExpandedTo
    PROVE  /\ \A c \in Names :
                 /\ \A f : Has(c, f)' = Has(c, f)
                 /\ \A f, d : f # "dependencies" => Get(c, f, d)' = Get(c, f, d)
                 /\ Deps(c)' = WithCompanions(c, Deps(c))
           /\ \A c \in Checks :
                 /\ \A f : Has(Companion[c], f)' <=>
                        f \in {"image", "dependencies", "run_to_completion",
                               "reports_readiness_for"}
                 /\ Deps(Companion[c])' = {c}
           /\ \A t \in DOMAIN tasks :
                 /\ tasks'[t].run = tasks[t].run
                 /\ tasks'[t].dependencies = TaskWaits(tasks[t].dependencies)
           /\ DOMAIN tasks' = DOMAIN tasks
<1>1. ASSUME NEW c \in Names
      PROVE  /\ \A f : Has(c, f)' = Has(c, f)
             /\ \A f, d : f # "dependencies" => Get(c, f, d)' = Get(c, f, d)
             /\ Deps(c)' = WithCompanions(c, Deps(c))
  <2>1. \A f : Has(c, f)' = Has(c, f)
    BY DEF ExpandedTo, Has
  <2>2. \A f, d : f # "dependencies" => Get(c, f, d)' = Get(c, f, d)
    BY <2>1 DEF ExpandedTo, Has, Get
  <2>3. ASSUME Has(c, "dependencies") PROVE Deps(c)' = WithCompanions(c, Deps(c))
    BY <2>1, <2>3 DEF ExpandedTo, Has, Get, Deps
  <2>4. ASSUME ~Has(c, "dependencies") PROVE Deps(c)' = WithCompanions(c, Deps(c))
    <3>1. Deps(c)' = {} /\ Deps(c) = {}
      BY <2>1, <2>4 DEF Deps, Get
    <3> QED BY <3>1 DEF WithCompanions
  <2> QED BY <2>1, <2>2, <2>3, <2>4
<1>2. ASSUME NEW c \in Checks
      PROVE  /\ \A f : Has(Companion[c], f)' <=>
                    f \in {"image", "dependencies", "run_to_completion",
                           "reports_readiness_for"}
             /\ Deps(Companion[c])' = {c}
  <2>1. containers'[Companion[c]] = TheCompanion(c)
    BY DEF ExpandedTo
  <2> QED BY <2>1 DEF TheCompanion, Has, Get, Deps
<1>3. /\ \A t \in DOMAIN tasks :
            /\ tasks'[t].run = tasks[t].run
            /\ tasks'[t].dependencies = TaskWaits(tasks[t].dependencies)
      /\ DOMAIN tasks' = DOMAIN tasks
  BY DEF ExpandedTo, Expandable
<1> QED BY <1>1, <1>2, <1>3

LEMMA AfterExpansionFields ==
    ASSUME Expandable, ExpandedTo
    PROVE  /\ Checks' = Checks
           /\ \A c \in Names :
                 /\ Completes(c)' = Completes(c) /\ Checked(c)' = Checked(c)
                 /\ MapsUser(c)' = MapsUser(c) /\ SharesNetwork(c)' = SharesNetwork(c)
                 /\ Get(c, "setup_commands", {})' = Get(c, "setup_commands", {})
                 /\ RunAs(c)' = RunAs(c)
           /\ \A c \in Checks :
                 /\ ~Checked(Companion[c])' /\ ~SharesNetwork(Companion[c])'
                 /\ Get(Companion[c], "setup_commands", {})' = {}
                 /\ RunAs(Companion[c])' = {}
<1>1. \A c \in Names :
          /\ \A f : Has(c, f)' = Has(c, f)
          /\ \A f, d : f # "dependencies" => Get(c, f, d)' = Get(c, f, d)
  BY AfterExpansion
<1>2. ASSUME NEW c \in Names
      PROVE  /\ Completes(c)' = Completes(c) /\ Checked(c)' = Checked(c)
             /\ MapsUser(c)' = MapsUser(c) /\ SharesNetwork(c)' = SharesNetwork(c)
             /\ Get(c, "setup_commands", {})' = Get(c, "setup_commands", {})
  <2>1. Checked(c)' = Checked(c)
    BY <1>1 DEF Checked
  <2>2. \A d : /\ Get(c, "run_to_completion", d)' = Get(c, "run_to_completion", d)
              /\ Get(c, "run_as_current_user", d)' = Get(c, "run_as_current_user", d)
              /\ Get(c, "network_mode", d)' = Get(c, "network_mode", d)
              /\ Get(c, "setup_commands", d)' = Get(c, "setup_commands", d)
    BY <1>1
  <2>3. Completes(c)' = Completes(c) /\ MapsUser(c)' = MapsUser(c)
    BY <2>2 DEF Completes, MapsUser
  <2>4. SharesNetwork(c)' = SharesNetwork(c)
    BY <2>2 DEF SharesNetwork
  <2> QED BY <2>1, <2>2, <2>3, <2>4
<1>3. ASSUME NEW c \in Names PROVE RunAs(c)' = RunAs(c)
  BY <1>1, <1>2 DEF RunAs
<1>4. ASSUME NEW c \in Checks
      PROVE  /\ ~Checked(Companion[c])' /\ ~SharesNetwork(Companion[c])'
             /\ Get(Companion[c], "setup_commands", {})' = {}
             /\ RunAs(Companion[c])' = {}
  <2>1. \A f \in {"external_health_check", "network_mode", "setup_commands", "user", "identity",
                  "run_as_current_user"} : ~Has(Companion[c], f)'
    BY AfterExpansion
  <2>2. Get(Companion[c], "setup_commands", {})' = {} /\ ~MapsUser(Companion[c])'
    BY <2>1 DEF Get, MapsUser
  <2>3. ~Checked(Companion[c])' /\ ~SharesNetwork(Companion[c])'
    BY <2>1 DEF Checked, SharesNetwork, Get
  <2> QED BY <2>1, <2>2, <2>3 DEF RunAs
<1>5. Checks' = Checks
  <2>1. Names' = Names \cup Companies
    BY DEF ExpandedTo
  <2> QED BY <2>1, <1>2, <1>4 DEF Checks, Companies
<1> QED BY <1>2, <1>3, <1>4, <1>5

LEMMA AfterExpansionEdges ==
    ASSUME Expandable, ExpandedTo, NEW t \in DOMAIN tasks
    PROVE  /\ DOMAIN Edges(t)' = Names \cup Companies /\ DOMAIN Edges(t) = Names
           /\ \A c \in Names :
                 /\ Edges(t)[c] \subseteq Names /\ Edges(t)[c] \subseteq Edges(t)'[c]
                 /\ Edges(t)'[c] \subseteq
                       Edges(t)[c] \cup {Companion[d] : d \in Edges(t)[c] \cap Checks}
                 /\ \A d \in (Edges(t)[c] \cap Checks) \ {c} : Companion[d] \in Edges(t)'[c]
           /\ \A c \in Checks : Edges(t)'[Companion[c]] = {c}
<1>1. DOMAIN Edges(t)' = Names \cup Companies /\ DOMAIN Edges(t) = Names
  BY DEF Edges, ExpandedTo
<1>2. /\ \A c \in Names : Deps(c) \subseteq Names /\ Deps(c)' = WithCompanions(c, Deps(c))
      /\ tasks'[t].run = tasks[t].run /\ tasks[t].run \notin Companies
      /\ tasks'[t].dependencies = WithCompanions(None, tasks[t].dependencies)
      /\ tasks[t].dependencies \subseteq Names /\ None \notin Names
  BY AfterExpansion DEF Expandable, TaskWaits
<1>3. ASSUME NEW c \in Names
      PROVE  /\ Edges(t)[c] \subseteq Names /\ Edges(t)[c] \subseteq Edges(t)'[c]
             /\ Edges(t)'[c] \subseteq
                   Edges(t)[c] \cup {Companion[d] : d \in Edges(t)[c] \cap Checks}
             /\ \A d \in (Edges(t)[c] \cap Checks) \ {c} : Companion[d] \in Edges(t)'[c]
  <2>1. /\ Edges(t)[c] =
              Deps(c) \cup (IF c = tasks[t].run THEN tasks[t].dependencies ELSE {})
        /\ Edges(t)'[c] =
              Deps(c)' \cup (IF c = tasks[t].run THEN tasks'[t].dependencies ELSE {})
    BY <1>1, <1>2 DEF Edges
  <2>2. Checks \subseteq Names
    BY DEF Checks
  <2> QED BY <1>2, <2>1, <2>2 DEF WithCompanions
<1>4. ASSUME NEW c \in Checks PROVE Edges(t)'[Companion[c]] = {c}
  <2>1. Companion[c] \in Companies /\ Companion[c] # tasks'[t].run
    BY <1>2 DEF Companies
  <2>2. Edges(t)'[Companion[c]] = Deps(Companion[c])'
    BY <1>1, <2>1 DEF Edges
  <2> QED BY <2>2, AfterExpansion
<1> QED BY <1>1, <1>3, <1>4

\* How the graph of names N, of which K have companions, P, grows by them.
GrowsByCompanions(N, K, P, old, new) ==
    /\ K \subseteq N /\ N \subseteq DOMAIN Companion /\ N \cap P = {}
    /\ \A x \in P : \E k \in K : x = Companion[k]
    /\ \A k \in K : Companion[k] \in P
    /\ DOMAIN old = N /\ \A c \in N : old[c] \subseteq N
    /\ DOMAIN new = N \cup P
    /\ \A c \in N : \A x \in new[c] :
          x \in old[c] \/ \E d \in old[c] \cap K : x = Companion[d]
    /\ \A k \in K : new[Companion[k]] = {k}

\* A companion stands for one container it waits for, so a path through it is a
\* path through that container.
LEMMA CompanionsAddNoCycle ==
    ASSUME NEW N, NEW K, NEW P, NEW old, NEW new,
           GrowsByCompanions(N, K, P, old, new), Acyclic(old)
    PROVE  Acyclic(new)
<1> USE DEF GrowsByCompanions
<1> DEFINE Up(c) == Closure(old, old[c])
           Over(c) == Up(c) \cup {Companion[k] : k \in Up(c) \cap K}
<1>1. ASSUME NEW c \in N
      PROVE  /\ old[c] \subseteq Up(c) /\ c \notin Up(c) /\ Up(c) \subseteq N
             /\ \A x \in Up(c) : old[x] \subseteq Up(c)
  <2>1. Up(c) \subseteq N
    BY ClosureLeast
  <2>2. old[c] \subseteq Up(c) /\ \A x \in Up(c) \cap DOMAIN old : old[x] \subseteq Up(c)
    BY ClosureHolds
  <2> QED BY <2>1, <2>2 DEF Acyclic
<1> HIDE DEF Up
<1>2. ASSUME NEW c \in N
      PROVE  /\ new[c] \subseteq Over(c)
             /\ \A x \in Over(c) \cap DOMAIN new : new[x] \subseteq Over(c)
  <2>1. new[c] \subseteq Over(c)
    BY <1>1
  <2>2. ASSUME NEW x \in Up(c) PROVE new[x] \subseteq Over(c)
    BY <1>1
  <2>3. ASSUME NEW k \in Up(c) \cap K PROVE new[Companion[k]] \subseteq Over(c)
    OBVIOUS
  <2> QED BY <2>1, <2>2, <2>3
<1>3. ASSUME NEW c \in N PROVE c \notin Closure(new, new[c])
  <2>1. Closure(new, new[c]) \subseteq Over(c)
    <3> HIDE DEF Over
    <3> QED BY <1>2, ClosureLeast
  <2> QED BY <1>1, <2>1
<1>4. ASSUME NEW k \in K PROVE Companion[k] \notin Closure(new, new[Companion[k]])
  <2> DEFINE S == {k} \cup Over(k)
  <2>1. \A x \in S \cap DOMAIN new : new[x] \subseteq S
    BY <1>2
  <2>2. Closure(new, new[Companion[k]]) \subseteq S
    <3>1. new[Companion[k]] \subseteq S
      OBVIOUS
    <3> HIDE DEF S
    <3> QED BY <2>1, <3>1, ClosureLeast
  <2>3. Companion[k] \notin Over(k)
    BY <1>1, ProjectsAssumption
  <2> QED BY <2>2, <2>3
<1> QED BY <1>3, <1>4 DEF Acyclic


LEMMA ExpandChecksAddNoCycle ==
    ASSUME Expandable, ExpandedTo, NEW t \in DOMAIN tasks
    PROVE  ChecksAddNoCycle(t)'
<1> DEFINE old == Edges(t)
           new == Edges(t)'
           written == [c \in Names' \ Companies |-> new[c] \ Companies]
<1>1. Checks' = Checks /\ Names' = Names \cup Companies /\ Names \cap Companies = {}
      /\ Checks \subseteq Names /\ Names \subseteq DOMAIN Companion
  BY AfterExpansionFields DEF ExpandedTo, Expandable, Checks
<1>2. /\ DOMAIN new = Names \cup Companies /\ DOMAIN old = Names
      /\ \A c \in Names : /\ old[c] \subseteq Names /\ old[c] \subseteq new[c]
                          /\ new[c] \subseteq
                                old[c] \cup {Companion[d] : d \in old[c] \cap Checks}
      /\ \A c \in Checks : new[Companion[c]] = {c}
  BY AfterExpansionEdges
<1>3. old = [c \in Names |-> old[c]]
  BY DEF Edges
<1> HIDE DEF old, new
<1>4. Names' \ Companies = Names
  BY <1>1
<1>5. \A c \in Names : new[c] \ Companies = old[c]
  BY <1>1, <1>2 DEF Companies
<1>6. written = old
  BY <1>3, <1>4, <1>5
<1>7. Acyclic(old) => Acyclic(new)
  <2> SUFFICES ASSUME Acyclic(old) PROVE Acyclic(new)
    OBVIOUS
  <2>1. GrowsByCompanions(Names, Checks, Companies, old, new)
    BY <1>1, <1>2 DEF GrowsByCompanions, Companies
  <2> HIDE DEF written
  <2> QED BY <2>1, CompanionsAddNoCycle
<1>8. ChecksAddNoCycle(t)' = (Acyclic(written) => Acyclic(new))
  BY <1>1 DEF ChecksAddNoCycle, Companies, new
<1> QED BY <1>6, <1>7, <1>8

\* Who a container is told to run as is said at most once.
LEMMA RunAsOnce ==
    ASSUME IdentitiesAllowed, NEW c \in Names
    PROVE  Cardinality(RunAs(c)) <= 1
<1>1. /\ Has(c, "identity") => ~Has(c, "user") /\ ~MapsUser(c)
      /\ Has(c, "user") => ~MapsUser(c)
  BY DEF IdentitiesAllowed
<1>2. \/ RunAs(c) = {} \/ RunAs(c) = {"user"} \/ RunAs(c) = {"identity"}
      \/ RunAs(c) = {"mapped"}
  BY <1>1 DEF RunAs
<1>3. Cardinality({}) = 0
  BY FS_EmptySet
<1>4. \A x : Cardinality({x}) = 1
  BY FS_Singleton
<1>5. Cardinality(RunAs(c)) = 0 \/ Cardinality(RunAs(c)) = 1
  <2>1. CASE RunAs(c) = {}
    BY <1>3, <2>1
  <2>2. CASE RunAs(c) # {}
    <3>1. PICK x : RunAs(c) = {x}
      BY <1>2, <2>2
    <3> QED BY <1>4, <3>1
  <2> QED BY <2>1, <2>2
<1> QED BY <1>5

LEMMA ExpandRunnable ==
    ASSUME Expandable, ExpandedTo, Valid, NEW t \in DOMAIN tasks, NEW c \in Names'
    PROVE  RunnableIn(t, c)'
<1>1. Names' = Names \cup Companies /\ Checks' = Checks /\ Checks \subseteq Names
      /\ Names \cap Companies = {}
  BY AfterExpansionFields DEF ExpandedTo, Expandable, Checks
<1>2. /\ \A d \in Names :
            /\ Edges(t)[d] \subseteq Names /\ Edges(t)[d] \subseteq Edges(t)'[d]
            /\ Edges(t)'[d] \subseteq
                  Edges(t)[d] \cup {Companion[e] : e \in Edges(t)[d] \cap Checks}
            /\ \A e \in (Edges(t)[d] \cap Checks) \ {d} : Companion[e] \in Edges(t)'[d]
            /\ Deps(d) \subseteq Edges(t)[d]
      /\ \A d \in Checks : Edges(t)'[Companion[d]] = {d}
  <2>1. \A d \in Names : Deps(d) \subseteq Edges(t)[d]
    BY DEF Edges
  <2> QED BY <2>1, AfterExpansionEdges
<1>3. CASE c \in Names
  <2>1. Edges(t)'[c] \subseteq Names'
    BY <1>1, <1>2, <1>3 DEF Companies
  <2>2. ASSUME SharesNetwork(c)'
        PROVE  \E owner \in Edges(t)'[c] :
                   owner = containers'[c].network_mode /\ ~Completes(owner)'
    <3>1. SharesNetwork(c) /\ Has(c, "network_mode")
      BY <1>3, <2>2, AfterExpansionFields DEF SharesNetwork, Get
    <3>2. containers[c].network_mode \in Deps(c) /\ ~Completes(containers[c].network_mode)
      BY <1>3, <3>1 DEF Valid, NetworksShareable
    <3>3. containers'[c].network_mode = containers[c].network_mode
      BY <1>3, <3>1 DEF ExpandedTo, Has
    <3>4. containers[c].network_mode \in Names
      BY <1>3, <3>2 DEF Expandable
    <3> QED BY <1>2, <1>3, <3>2, <3>3, <3>4, AfterExpansionFields
  <2>3. ASSUME NEW d \in Get(c, "setup_commands", {})' \ {c}
        PROVE  d \in Edges(t)'[c] /\ ~Completes(d)'
    <3>1. d \in Get(c, "setup_commands", {}) \ {c}
      BY <1>3, AfterExpansionFields
    <3>2. d \in Deps(c) /\ d \in Names
      BY <1>3, <3>1 DEF Valid, SetupTargetsReady, Expandable
    <3>3. ~Completes(d)
      BY <1>3, <3>1, <3>2 DEF Valid, SetupTargetsReady
    <3> QED BY <1>2, <1>3, <3>2, <3>3, AfterExpansionFields
  <2>4. ASSUME NEW d \in (Edges(t)'[c] \cap Checks') \ {c}
        PROVE  Companion[d] \in Edges(t)'[c]
    <3>1. d \in Edges(t)[c]
      BY <1>1, <1>2, <1>3 DEF Companies
    <3> QED BY <1>1, <1>2, <1>3, <3>1
  <2>5. ASSUME Completes(c)'
        PROVE  Get(c, "setup_commands", {})' = {} /\ ~Checked(c)'
    <3>1. Completes(c)
      BY <1>3, <2>5, AfterExpansionFields
    <3>2. Get(c, "setup_commands", {}) = {}
      BY <1>3, <3>1 DEF Valid, CompletesAlone
    <3>3. ~Checked(c)
      BY <1>3, <3>1 DEF Expandable, Checks
    <3> QED BY <1>3, <3>2, <3>3, AfterExpansionFields
  <2>6. Cardinality(RunAs(c)') <= 1
    <3>1. RunAs(c)' = RunAs(c)
      BY <1>3, AfterExpansionFields
    <3> QED BY <1>3, <3>1, RunAsOnce DEF Valid
  <2> QED BY <2>1, <2>2, <2>3, <2>4, <2>5, <2>6 DEF RunnableIn
<1>4. CASE c \notin Names
  <2>1. PICK k \in Checks : c = Companion[k]
    BY <1>1, <1>4 DEF Companies
  <2>2. /\ ~Checked(c)' /\ ~SharesNetwork(c)' /\ Get(c, "setup_commands", {})' = {}
        /\ RunAs(c)' = {}
    BY <2>1, AfterExpansionFields
  <2>3. Edges(t)'[c] = {k} /\ k \in Names'
    BY <1>1, <1>2, <2>1
  <2>4. Cardinality({}) <= 1
    BY FS_EmptySet
  <2> QED BY <2>1, <2>2, <2>3, <2>4 DEF RunnableIn
<1> QED BY <1>3, <1>4

LEMMA ExpandReaches ==
    ASSUME Expandable, ExpandedTo, NEW t \in DOMAIN tasks
    PROVE  NamesInTask(t)' \subseteq Names'
<1> DEFINE next == [c \in Names' |-> Deps(c)']
           from == ({tasks'[t].run} \ {None}) \cup tasks'[t].dependencies
<1>1. Names' = Names \cup Companies /\ Checks \subseteq Names
  BY DEF ExpandedTo, Checks
<1>2. from \subseteq Names'
  BY <1>1, AfterExpansion DEF Expandable, TaskWaits, WithCompanions, Companies
<1>3. ASSUME NEW c \in Names' PROVE Deps(c)' \subseteq Names'
  <2>1. CASE c \in Names
    <3>1. Deps(c)' = WithCompanions(c, Deps(c)) /\ Deps(c) \subseteq Names
      BY <2>1, AfterExpansion DEF Expandable
    <3> QED BY <1>1, <3>1 DEF WithCompanions, Companies
  <2>2. CASE c \notin Names
    <3>1. PICK k \in Checks : c = Companion[k]
      BY <1>1, <2>2 DEF Companies
    <3>2. Deps(c)' = {k}
      BY <3>1, AfterExpansion
    <3> QED BY <1>1, <3>2
  <2> QED BY <2>1, <2>2
<1>4. DOMAIN next = Names' /\ \A c \in Names' : next[c] \subseteq Names'
  BY <1>3
<1> HIDE DEF next, from
<1>5. Closure(next, from) \subseteq Names'
  BY <1>2, <1>4, ClosureLeast
<1> QED BY <1>5 DEF NamesInTask, next, from

LEMMA ExpandProject ==
    ASSUME LoadTypeOK, ProjectInv, ExpandExternalHealthChecks, UNCHANGED configLoadVars
    PROVE  ProjectInv'
<1>1. /\ UNCHANGED <<layout, phase, loaded, resolved, suppliers, mounted>> /\ stage = "expand"
      /\ stage' \in {"refused", "accepted"}
      /\ stage' = "refused" => UNCHANGED <<containers, tasks>>
  BY DEF ExpandExternalHealthChecks, configLoadVars, loadVars
<1>2. StageInv'
  BY <1>1 DEF ProjectInv, StageInv, Known, Before
<1>3. BatectInv' /\ ValidInv' /\ PathsStayWithTheirWriter'
  BY <1>1 DEF BatectInv, ValidInv, PathsStayWithTheirWriter, Before
<1>4. CASE stage' = "refused"
  <2>1. PathInv'
    BY <1>1, <1>4 DEF ProjectInv, PathInv, Known, Names, Has, Before
  <2> QED BY <1>2, <1>3, <1>4, <2>1 DEF ProjectInv, AcceptedIsRunnable
<1>5. CASE stage' # "refused"
  <2>1. Valid /\ Expandable /\ ExpandedTo
    BY <1>5, ExpandEffects
  <2>2. PathInv'
    <3>1. ASSUME NEW c \in Names', Has(c, "volume")'
          PROVE  c \in DOMAIN suppliers /\ containers'[c]["volume"].by = suppliers[c]
      <4>1. c \in Names
        <5>1. ASSUME NEW k \in Checks, c = Companion[k] PROVE FALSE
          BY <2>1, <3>1, <5>1, AfterExpansion
        <5> QED BY <2>1, <5>1 DEF ExpandedTo, Companies
      <4>2. Has(c, "volume") /\ containers'[c]["volume"] = containers[c]["volume"]
        BY <2>1, <3>1, <4>1 DEF ExpandedTo, Has
      <4> QED BY <4>1, <4>2 DEF ProjectInv, PathInv
    <3>2. stage' \notin Before
      BY <1>1, <1>5 DEF Before
    <3> QED BY <1>1, <3>1, <3>2 DEF PathInv
  <2>3. AcceptedIsRunnable'
    <3>1. DOMAIN tasks' = DOMAIN tasks
      BY <2>1, AfterExpansion
    <3> QED BY <2>1, <3>1, ExpandReaches, ExpandRunnable, ExpandChecksAddNoCycle
            DEF AcceptedIsRunnable
  <2> QED BY <1>2, <1>3, <2>2, <2>3 DEF ProjectInv
<1> QED BY <1>4, <1>5

----------------------------------------------------------------------------
(* The theorems.                                                           *)

LEMMA NextProject ==
    ASSUME LoadTypeOK, ProjectInv, [Next]_vars
    PROVE  ProjectInv'
<1>1. CASE LoadStep /\ UNCHANGED projectVars
  <2>1. UNCHANGED layout /\ phase # "read"
    BY <1>1 DEF LoadStep, CheckRoot, LoadRoot, FollowFile, FollowGit, FinishLoad
  <2> QED BY <1>1, <2>1, LoadStepProject
<1>2. CASE WalkStep /\ UNCHANGED projectVars
  <2>1. UNCHANGED <<layout, phase, loaded>>
    BY <1>2 DEF WalkStep, BeginWalk, WalkOn, loadVars
  <2> QED BY <1>2, <2>1, LoadStepProject
<1>3. CASE ProjectStep /\ UNCHANGED configLoadVars
  BY <1>3, CheckOwnFilesProject, ResolveExtendsProject, ValidateProjectKept, ExpandProject,
     EvaluateProject DEF ProjectStep
<1>4. CASE UNCHANGED vars
  <2>1. UNCHANGED <<layout, phase, loaded>> /\ UNCHANGED projectVars
    BY <1>4 DEF vars, configLoadVars, loadVars
  <2> QED BY <2>1, LoadStepProject
<1> QED BY <1>1, <1>2, <1>3, <1>4 DEF Next

LEMMA ProjectInvariant == Spec => []ProjectInv
BY LoadTypeCorrect, InitProject, NextProject, PTL DEF Spec

\* Whatever a project's containers and tasks are, a configuration that
\* load_project_impl accepts is one the task run can be given: its checks leave no
\* undeclared name, network, setup command or identity that a container of some
\* task would fail on, and the companions it adds for external health checks are
\* waited for and close no cycle.
THEOREM AcceptedIsRunnableHolds == Spec => []AcceptedIsRunnable
<1>1. ProjectInv => AcceptedIsRunnable
  BY DEF ProjectInv
<1> QED BY ProjectInvariant, <1>1, PTL

\* Through any number of generations of extends, a host path is resolved where
\* the container that wrote it stands and under the permission of its own bundle
\* (Provenance::suppliers_of, evaluate_container).
THEOREM PathsStayWithTheirWriterHolds == Spec => []PathsStayWithTheirWriter
<1>1. ProjectInv => PathsStayWithTheirWriter
  BY DEF ProjectInv
<1> QED BY ProjectInvariant, <1>1, PTL
==========================================================================
