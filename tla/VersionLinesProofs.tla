------------------------- MODULE VersionLinesProofs -------------------------
(***************************************************************************)
(* Theorems of VersionLines, for every set of versions and lines, however  *)
(* many versions a watcher returns.                                        *)
(***************************************************************************)
EXTENDS VersionLines, FiniteSetTheorems, SequenceTheorems, WellFoundedInduction,
        TLAPS

AllLines == FirstLines \cup MoreLines

\* A resource has reported what its version_filter lets through only.
FilterHolds == \A r \in Resources : \A v \in reported[r] : Relevant(r, v)

\* The inductive invariant behind OneLinePerVersion.
LinesInv == TypeOK /\ FilterHolds /\ ~LinesOverlap(lines)

-----------------------------------------------------------------------------
(***************************************************************************)
(* The order of versions.                                                  *)
(***************************************************************************)

\* "less than" on the naturals as a relation.
LEMMA LessIsWellFounded ==
  \E R : IsWellFoundedOn(R, Nat) /\ \A m, n \in Nat : m < n => <<m, n>> \in R
<1>1. \A m, n \in Nat : m < n => <<m, n>> \in OpToRel(<, Nat)
  BY DEF OpToRel
<1> QED
  BY <1>1, NatLessThanWellFounded

\* A set of numbers that is not empty has a smallest one.
LEMMA HasSmallest ==
  ASSUME NEW S, S \subseteq Nat, S # {}
  PROVE  \E n \in S : \A m \in S : n <= m
<1>1. PICK R : IsWellFoundedOn(R, Nat) /\ \A m, n \in Nat : m < n => <<m, n>> \in R
  BY LessIsWellFounded
<1>2. IsWellFoundedOn(R, Nat)
  BY <1>1
<1>3. \E n \in S : \A m \in S : ~(<<m, n>> \in R)
  BY <1>2, WFMin, Zenon
<1>4. PICK n \in S : \A m \in S : ~(<<m, n>> \in R)
  BY <1>3
<1>5. ASSUME NEW m \in S
      PROVE  n <= m
  <2>1. m \in Nat /\ n \in Nat
    OBVIOUS
  <2>2. ~(m < n)
    BY <1>1, <1>4, <2>1, Zenon
  <2> QED
    BY <2>1, <2>2
<1> QED
  BY <1>5

\* Two texts are equal, or they differ in their lengths only, or there is a first
\* place where they differ.
LEMMA TextLessIsTotal ==
  ASSUME NEW s \in Seq(0..9), NEW t \in Seq(0..9)
  PROVE  s = t \/ TextLess(s, t) \/ TextLess(t, s)
<1> DEFINE differ == {i \in DOMAIN s \cap DOMAIN t : s[i] # t[i]}
<1>1. /\ Len(s) \in Nat /\ DOMAIN s = 1..Len(s) /\ \A i \in 1..Len(s) : s[i] \in Nat
      /\ Len(t) \in Nat /\ DOMAIN t = 1..Len(t) /\ \A i \in 1..Len(t) : t[i] \in Nat
  OBVIOUS
<1>2. CASE differ = {}
  <2>1. \A i \in DOMAIN s \cap DOMAIN t : s[i] = t[i]
    BY <1>2
  <2>2. CASE Len(s) <= Len(t)
    <3>1. SubSeq(s, 1, Len(s)) = SubSeq(t, 1, Len(s))
      BY <1>1, <2>1, <2>2
    <3>2. IsPrefix(s, t)
      BY <2>2, <3>1 DEF IsPrefix
    <3> QED
      BY <3>2 DEF TextLess
  <2>3. CASE Len(t) <= Len(s)
    <3>1. SubSeq(t, 1, Len(t)) = SubSeq(s, 1, Len(t))
      BY <1>1, <2>1, <2>3
    <3>2. IsPrefix(t, s)
      BY <2>3, <3>1 DEF IsPrefix
    <3> QED
      BY <3>2 DEF TextLess
  <2> QED
    BY <1>1, <2>2, <2>3
<1>3. CASE differ # {}
  <2>1. differ \subseteq Nat
    BY <1>1
  <2>2. PICK i \in differ : \A j \in differ : i <= j
    BY <1>3, <2>1, HasSmallest
  <2>3. i \in 1..Len(s) /\ i \in 1..Len(t) /\ s[i] # t[i]
    BY <1>1
  <2>4. ASSUME NEW j \in 1..(i - 1)
        PROVE  j \in DOMAIN s \cap DOMAIN t /\ s[j] = t[j]
    <3>1. j \in Nat /\ i \in Nat /\ j < i
      BY <1>1, <2>3
    <3>2. j \in DOMAIN s \cap DOMAIN t
      BY <1>1, <2>3, <3>1
    <3>3. j \notin differ
      BY <2>2, <3>1
    <3> QED
      BY <3>2, <3>3
  <2>5. /\ SubSeq(s, 1, i - 1) = SubSeq(t, 1, i - 1)
        /\ SubSeq(t, 1, i - 1) = SubSeq(s, 1, i - 1)
    BY <1>1, <2>3, <2>4
  <2>6. s[i] < t[i] \/ t[i] < s[i]
    BY <1>1, <2>3
  <2>7. i \in DOMAIN s \cap DOMAIN t /\ i \in DOMAIN t \cap DOMAIN s
    BY <1>1, <2>3
  <2> QED
    BY <2>5, <2>6, <2>7 DEF TextLess
<1> QED
  BY <1>2, <1>3

\* <=> tells any two versions apart.
LEMMA LessIsTotal ==
  ASSUME NEW v \in Upstream, NEW w \in Upstream
  PROVE  v = w \/ Less(v, w) \/ Less(w, v)
<1>1. /\ v \in [major : Segments, minor : Segments, patch : Segments, suffix : Seq(0..9)]
      /\ w \in [major : Segments, minor : Segments, patch : Segments, suffix : Seq(0..9)]
  BY LinesAssumption
<1>2. /\ v.major \in Nat /\ v.minor \in Nat /\ v.patch \in Nat
      /\ w.major \in Nat /\ w.minor \in Nat /\ w.patch \in Nat
  <2>1. /\ v.major \in Segments /\ v.minor \in Segments /\ v.patch \in Segments
        /\ w.major \in Segments /\ w.minor \in Segments /\ w.patch \in Segments
    BY <1>1, Zenon
  <2>2. Segments \subseteq Nat
    BY DEF Segments
  <2> QED
    BY <2>1, <2>2, Zenon
<1>3. \/ v.suffix = w.suffix
      \/ TextLess(v.suffix, w.suffix) \/ TextLess(w.suffix, v.suffix)
  BY <1>1, TextLessIsTotal
<1>4. /\ v.major = w.major /\ v.minor = w.minor /\ v.patch = w.patch
      /\ v.suffix = w.suffix
      => v = w
  BY <1>1
<1> QED
  BY <1>2, <1>3, <1>4 DEF Less

\* A text is less than another one where it first differs: there it ends, or has
\* the smaller digit.
LEMMA TextLessAt ==
  ASSUME NEW s \in Seq(0..9), NEW t \in Seq(0..9)
  PROVE  TextLess(s, t) <=>
           \E i \in 1..Len(t) :
             /\ \A j \in 1..(i - 1) : j <= Len(s) /\ s[j] = t[j]
             /\ i = Len(s) + 1 \/ (i <= Len(s) /\ s[i] < t[i])
<1>1. /\ Len(s) \in Nat /\ DOMAIN s = 1..Len(s) /\ \A i \in 1..Len(s) : s[i] \in Nat
      /\ Len(t) \in Nat /\ DOMAIN t = 1..Len(t) /\ \A i \in 1..Len(t) : t[i] \in Nat
  OBVIOUS
<1>2. ASSUME s # t, IsPrefix(s, t)
      PROVE  /\ Len(s) + 1 \in 1..Len(t)
             /\ \A j \in 1..Len(s) : s[j] = t[j]
  <2>1. Len(s) <= Len(t) /\ SubSeq(s, 1, Len(s)) = SubSeq(t, 1, Len(s))
    BY <1>2 DEF IsPrefix
  <2>2. ASSUME NEW j \in 1..Len(s) PROVE s[j] = t[j]
    <3>1. SubSeq(s, 1, Len(s))[j] = s[j] /\ SubSeq(t, 1, Len(s))[j] = t[j]
      BY <1>1, <2>1
    <3> QED
      BY <2>1, <3>1
  <2>3. Len(s) = Len(t) => s = t
    BY <1>1, <2>2
  <2>4. Len(s) # Len(t)
    BY <1>2, <2>3, Zenon
  <2>5. Len(s) \in Nat /\ Len(t) \in Nat /\ Len(s) <= Len(t)
    BY <2>1
  <2>6. Len(s) + 1 \in 1..Len(t)
    BY <2>4, <2>5
  <2> QED
    BY <2>2, <2>6
<1>3. ASSUME NEW i \in DOMAIN s \cap DOMAIN t, s[i] < t[i],
             SubSeq(s, 1, i - 1) = SubSeq(t, 1, i - 1)
      PROVE  \A j \in 1..(i - 1) : j <= Len(s) /\ s[j] = t[j]
  <2> SUFFICES ASSUME NEW j \in 1..(i - 1)
               PROVE  j <= Len(s) /\ s[j] = t[j]
    OBVIOUS
  <2>1. SubSeq(s, 1, i - 1)[j] = s[j] /\ SubSeq(t, 1, i - 1)[j] = t[j] /\ j <= Len(s)
    BY <1>1
  <2> QED
    BY <1>3, <2>1
<1>4. ASSUME NEW i \in 1..Len(t),
             \A j \in 1..(i - 1) : j <= Len(s) /\ s[j] = t[j],
             i = Len(s) + 1 \/ (i <= Len(s) /\ s[i] < t[i])
      PROVE  TextLess(s, t)
  <2>1. CASE i = Len(s) + 1
    <3>1. Len(s) <= Len(t) /\ s # t
      BY <1>1, <2>1
    <3>2. SubSeq(s, 1, Len(s)) = SubSeq(t, 1, Len(s))
      BY <1>1, <1>4, <2>1, <3>1
    <3> QED
      BY <3>1, <3>2 DEF TextLess, IsPrefix
  <2>2. CASE i <= Len(s) /\ s[i] < t[i]
    <3>1. i \in DOMAIN s \cap DOMAIN t
      BY <1>1, <2>2
    <3>2. SubSeq(s, 1, i - 1) = SubSeq(t, 1, i - 1)
      BY <1>1, <1>4, <2>2
    <3> QED
      BY <2>2, <3>1, <3>2 DEF TextLess
  <2> QED
    BY <1>4, <2>1, <2>2
<1>5. ASSUME TextLess(s, t)
      PROVE  \E i \in 1..Len(t) :
               /\ \A j \in 1..(i - 1) : j <= Len(s) /\ s[j] = t[j]
               /\ i = Len(s) + 1 \/ (i <= Len(s) /\ s[i] < t[i])
  <2>1. CASE s # t /\ IsPrefix(s, t)
    BY <1>1, <1>2, <2>1
  <2>2. ASSUME NEW i \in DOMAIN s \cap DOMAIN t, s[i] < t[i],
               SubSeq(s, 1, i - 1) = SubSeq(t, 1, i - 1)
        PROVE  i \in 1..Len(t) /\ i <= Len(s)
                 /\ \A j \in 1..(i - 1) : j <= Len(s) /\ s[j] = t[j]
    BY <1>1, <1>3, <2>2
  <2> QED
    BY <1>5, <2>1, <2>2 DEF TextLess
<1> QED
  BY <1>4, <1>5

LEMMA TextLessIsTransitive ==
  ASSUME NEW s \in Seq(0..9), NEW t \in Seq(0..9), NEW u \in Seq(0..9),
         TextLess(s, t), TextLess(t, u)
  PROVE  TextLess(s, u)
<1>1. /\ Len(s) \in Nat /\ \A i \in 1..Len(s) : s[i] \in Nat
      /\ Len(t) \in Nat /\ \A i \in 1..Len(t) : t[i] \in Nat
      /\ Len(u) \in Nat /\ \A i \in 1..Len(u) : u[i] \in Nat
  <2>1. ASSUME NEW x \in Seq(0..9)
        PROVE  Len(x) \in Nat /\ \A i \in 1..Len(x) : x[i] \in Nat
    OBVIOUS
  <2> QED
    BY <2>1
<1>2. PICK i \in 1..Len(t) :
        /\ \A j \in 1..(i - 1) : j <= Len(s) /\ s[j] = t[j]
        /\ i = Len(s) + 1 \/ (i <= Len(s) /\ s[i] < t[i])
  BY TextLessAt
<1>3. PICK k \in 1..Len(u) :
        /\ \A j \in 1..(k - 1) : j <= Len(t) /\ t[j] = u[j]
        /\ k = Len(t) + 1 \/ (k <= Len(t) /\ t[k] < u[k])
  BY TextLessAt
<1>4. PICK n \in 1..Len(u) : n = IF i < k THEN i ELSE k
  BY <1>1
<1>5. \A j \in 1..(n - 1) : j <= Len(s) /\ s[j] = u[j]
  BY <1>1, <1>2, <1>3, <1>4
<1>6. n = Len(s) + 1 \/ (n <= Len(s) /\ s[n] < u[n])
  BY <1>1, <1>2, <1>3, <1>4
<1>7. \E m \in 1..Len(u) :
        /\ \A j \in 1..(m - 1) : j <= Len(s) /\ s[j] = u[j]
        /\ m = Len(s) + 1 \/ (m <= Len(s) /\ s[m] < u[m])
  BY <1>5, <1>6
<1> QED
  BY <1>7, TextLessAt

\* <=> is transitive.
LEMMA LessIsTransitive ==
  ASSUME NEW u \in Upstream, NEW v \in Upstream, NEW w \in Upstream,
         Less(u, v), Less(v, w)
  PROVE  Less(u, w)
<1>1. ASSUME NEW x \in Upstream
      PROVE  /\ x.major \in Nat /\ x.minor \in Nat /\ x.patch \in Nat
             /\ x.suffix \in Seq(0..9)
  <2>1. x \in [major : Segments, minor : Segments, patch : Segments, suffix : Seq(0..9)]
    BY LinesAssumption
  <2>2. x.major \in Segments /\ x.minor \in Segments /\ x.patch \in Segments
          /\ x.suffix \in Seq(0..9)
    BY <2>1, Zenon
  <2>3. Segments \subseteq Nat
    BY DEF Segments
  <2> QED
    BY <2>2, <2>3, Zenon
<1>2. TextLess(u.suffix, v.suffix) /\ TextLess(v.suffix, w.suffix)
        => TextLess(u.suffix, w.suffix)
  BY <1>1, TextLessIsTransitive
<1> QED
  BY <1>1, <1>2 DEF Less

-----------------------------------------------------------------------------
(***************************************************************************)
(* Types and order.                                                        *)
(***************************************************************************)

LEMMA InitIsTyped == Init => TypeOK
<1> SUFFICES ASSUME Init
             PROVE  TypeOK
  OBVIOUS
<1>1. /\ reported \in [Resources -> SUBSET Published]
      /\ last \in [Resources -> {{}} \cup {{v} : v \in Published}]
  BY DEF Init
<1>2. handled \subseteq reported[Latest]
  BY DEF Init, Resources
<1>3. published \in Seq(Upstream)
  BY DEF Init
<1> QED
  BY <1>1, <1>2, <1>3 DEF Init, TypeOK

LEMMA StepIsTyped == TypeOK /\ [Next]_vars => TypeOK'
<1> SUFFICES ASSUME TypeOK, [Next]_vars
             PROVE  TypeOK'
  OBVIOUS
<1>0. Published \subseteq Upstream
  BY DEF TypeOK, Published, ToSet
<1>1. ASSUME NEW v \in Upstream, Publish(v)
      PROVE  TypeOK'
  <2>1. /\ published' \in Seq(Upstream)
        /\ ToSet(published') = ToSet(published) \cup {v}
    BY <1>1 DEF Publish, TypeOK, ToSet
  <2>2. Published' = Published \cup {v}
    BY <2>1 DEF Published
  <2>3. (reported \in [Resources -> SUBSET Published])'
    BY <1>1, <2>2 DEF Publish, TypeOK
  <2>4. (last \in [Resources -> {{}} \cup {{w} : w \in Published}])'
    BY <1>1, <2>2 DEF Publish, TypeOK
  <2> QED
    BY <1>1, <2>1, <2>2, <2>3, <2>4 DEF Publish, TypeOK
<1>2. ASSUME NEW v \in Upstream, NewLineJob(v)
      PROVE  TypeOK'
  <2>1. stories' \subseteq handled'
    BY <1>2 DEF NewLineJob, TypeOK
  <2>2. UNCHANGED Published
    BY <1>2 DEF NewLineJob, Published
  <2> QED
    BY <1>2, <2>1, <2>2 DEF NewLineJob, TypeOK
<1>3. ASSUME NEW r \in Resources, Check(r)
      PROVE  TypeOK'
  <2>1. Unknown(r) \subseteq Published
    BY DEF Unknown, Offered
  <2>2. UNCHANGED Published
    BY <1>3 DEF Check, Published
  <2>3. (reported \in [Resources -> SUBSET Published])'
    BY <1>3, <2>1, <2>2 DEF Check, Store, TypeOK
  <2>4. (last \in [Resources -> {{}} \cup {{w} : w \in Published}])'
    BY <1>3, <2>1, <2>2 DEF Check, Store, TypeOK
  <2>5. reported[Latest] \subseteq reported'[Latest]
    BY <1>3 DEF Check, Store, TypeOK, Resources
  <2> QED
    BY <1>3, <2>2, <2>3, <2>4, <2>5 DEF Check, TypeOK
<1>4. ASSUME NEW l \in MoreLines, AddLine(l)
      PROVE  TypeOK'
  <2>1. UNCHANGED Published
    BY <1>4 DEF AddLine, Published
  <2> QED
    BY <1>4, <2>1 DEF AddLine, TypeOK
<1>5. CASE UNCHANGED vars
  BY <1>5 DEF vars, TypeOK, Published
<1> QED
  BY <1>1, <1>2, <1>3, <1>4, <1>5 DEF Next

\* Only published versions are reported, and a story is only created for a
\* version that the resource without a filter has reported (check.cr,
\* create-new-version-line-story.rb).
THEOREM LinesTypeCorrect == Spec => []TypeOK
<1> QED
  BY InitIsTyped, StepIsTyped, PTL DEF Spec

\* Where the watcher sorts, the version that a resource is given is the newest it
\* has reported.
LastIsNewest ==
  sorts => \A r \in Resources : \A w \in reported[r] :
             \E u \in last[r] : w = u \/ Less(w, u)

\* check.cr drops what is below the one version it is given, and that is enough:
\* a list that has a new version ends with one that is above all there was.
LEMMA StepReportsInOrder ==
  ASSUME TypeOK, LastIsNewest, [Next]_vars
  PROVE  /\ LastIsNewest'
         /\ sorts =>
              \A r \in Resources : \A v \in reported'[r] \ reported[r] :
                \A w \in reported[r] : Less(w, v)
<1>0. UNCHANGED sorts
  BY DEF Next, Publish, NewLineJob, Check, AddLine, vars
<1>1. CASE UNCHANGED <<reported, last>>
  BY <1>0, <1>1 DEF LastIsNewest
<1>2. ASSUME ~UNCHANGED <<reported, last>>
      PROVE  \E r \in Resources : Check(r) /\ ~(Unknown(r) \subseteq reported[r])
  <2>1. PICK r \in Resources : Check(r)
    BY <1>2 DEF Next, Publish, NewLineJob, AddLine, vars
  <2> QED
    BY <1>2, <2>1 DEF Check, Store
<1>3. ASSUME NEW r \in Resources, Check(r), ~(Unknown(r) \subseteq reported[r]), sorts
      PROVE  /\ LastIsNewest'
             /\ \A q \in Resources : \A v \in reported'[q] \ reported[q] :
                  \A w \in reported[q] : Less(w, v)
  <2>1. PICK top \in Unknown(r) :
          /\ \A w \in Unknown(r) \ {top} : Less(w, top)
          /\ last' = [last EXCEPT ![r] = {top}]
    BY <1>3 DEF Check, Store, Before
  <2>2. reported' = [reported EXCEPT ![r] = @ \cup Unknown(r)]
    BY <1>3 DEF Check, Store
  <2>3. /\ last'[r] = {top} /\ reported'[r] = reported[r] \cup Unknown(r)
        /\ \A q \in Resources \ {r} : last'[q] = last[q] /\ reported'[q] = reported[q]
    BY <2>1, <2>2 DEF TypeOK
  <2>4. /\ reported[r] \subseteq Upstream /\ Unknown(r) \subseteq Upstream
        /\ last[r] \subseteq Upstream
    <3>1. Published \subseteq Upstream
      BY DEF TypeOK, Published, ToSet
    <3> QED
      BY <3>1 DEF TypeOK, Unknown, Offered
  <2>5. ASSUME NEW v \in Unknown(r), v \notin reported[r], NEW w \in reported[r]
        PROVE  Less(w, v)
    <3>1. PICK u \in last[r] : w = u \/ Less(w, u)
      BY <1>3 DEF LastIsNewest
    <3>2. v = u \/ Less(u, v)
      <4>1. ~Less(v, u)
        BY <3>1 DEF Unknown
      <4> QED
        BY <2>4, <4>1, LessIsTotal
    <3> QED
      BY <2>4, <2>5, <3>1, <3>2, LessIsTransitive
  <2>6. ASSUME NEW w \in reported'[r]
        PROVE  w = top \/ Less(w, top)
    <3>1. CASE w \in Unknown(r)
      BY <2>1, <3>1
    <3>2. CASE w \in reported[r]
      <4>1. PICK v \in Unknown(r) : v \notin reported[r]
        BY <1>3
      <4>2. Less(w, v) /\ (v = top \/ Less(v, top))
        BY <2>1, <2>5, <3>2, <4>1
      <4> QED
        BY <2>4, <3>2, <4>2, LessIsTransitive
    <3> QED
      BY <2>3, <3>1, <3>2
  <2>7. LastIsNewest'
    BY <1>0, <1>3, <2>3, <2>6 DEF LastIsNewest
  <2> QED
    BY <2>3, <2>5, <2>7
<1>4. CASE ~sorts
  BY <1>0, <1>4 DEF LastIsNewest
<1> QED
  BY <1>1, <1>2, <1>3, <1>4

\* Where the watcher sorts, a resource reports versions in ascending order,
\* whatever order upstream publishes them in, although check.cr compares with one
\* version only.
THEOREM ReportsAscend == Spec => ReportedInOrder
<1>1. Init => LastIsNewest
  BY DEF Init, LastIsNewest
<1>2. TypeOK /\ LastIsNewest /\ [Next]_vars => LastIsNewest'
  BY StepReportsInOrder
<1>3. TypeOK /\ LastIsNewest /\ [Next]_vars
        => [sorts =>
              \A r \in Resources : \A v \in reported'[r] \ reported[r] :
                \A w \in reported[r] : Less(w, v)]_vars
  BY StepReportsInOrder
<1> QED
  BY <1>1, <1>2, <1>3, LinesTypeCorrect, PTL DEF Spec, ReportedInOrder

-----------------------------------------------------------------------------
(***************************************************************************)
(* What a version matches.                                                 *)
(***************************************************************************)

\* The three segments of a version as a text.
LEMMA TextIs ==
  ASSUME NEW v \in Upstream
  PROVE  Text(v) \in Seq(Int)
<1>1. /\ v.major \in Segments /\ v.minor \in Segments /\ v.patch \in Segments
  BY LinesAssumption, Zenon
<1>2. Segments \subseteq Nat
  BY DEF Segments
<1>3. ASSUME NEW n \in Nat
      PROVE  Digits(n) \in Seq(Int)
  <2>1. n \div 10 \in Int /\ n % 10 \in Int /\ n \div 100 \in Int
          /\ (n \div 10) % 10 \in Int
    OBVIOUS
  <2> QED
    BY <2>1 DEF Digits
<1>4. /\ Digits(v.major) \in Seq(Int) /\ Digits(v.minor) \in Seq(Int)
      /\ Digits(v.patch) \in Seq(Int)
  BY <1>1, <1>2, <1>3
<1>5. <<Dot>> \in Seq(Int)
  BY DEF Dot
<1> QED
  BY <1>4, <1>5 DEF Text

\* A prefix of a text that is not empty starts like the text.
LEMMA PrefixStarts ==
  ASSUME NEW p \in Seq(Int), NEW t \in Seq(Int), IsPrefix(p, t), p # <<>>
  PROVE  Head(p) = Head(t)
<1>1. Len(p) \in Nat \ {0} /\ Len(p) <= Len(t)
  BY DEF IsPrefix
<1>2. SubSeq(p, 1, Len(p))[1] = p[1] /\ SubSeq(t, 1, Len(p))[1] = t[1]
  BY <1>1
<1>3. p[1] = t[1]
  BY <1>2 DEF IsPrefix
<1> QED
  BY <1>1, <1>3

\* Of two prefixes of a text the shorter one is a prefix of the other.
LEMMA PrefixesNest ==
  ASSUME NEW p \in Seq(Int), NEW q \in Seq(Int), NEW t \in Seq(Int),
         IsPrefix(p, t), IsPrefix(q, t)
  PROVE  IsPrefix(p, q) \/ IsPrefix(q, p)
<1>1. /\ Len(p) \in Nat /\ Len(q) \in Nat /\ Len(t) \in Nat
      /\ Len(p) <= Len(t) /\ Len(q) <= Len(t)
  BY DEF IsPrefix
<1>2. \A i \in 1..Len(p) : p[i] = t[i]
  <2> SUFFICES ASSUME NEW i \in 1..Len(p)
               PROVE  p[i] = t[i]
    OBVIOUS
  <2>1. SubSeq(p, 1, Len(p))[i] = p[i] /\ SubSeq(t, 1, Len(p))[i] = t[i]
    BY <1>1
  <2> QED
    BY <2>1 DEF IsPrefix
<1>3. \A i \in 1..Len(q) : q[i] = t[i]
  <2> SUFFICES ASSUME NEW i \in 1..Len(q)
               PROVE  q[i] = t[i]
    OBVIOUS
  <2>1. SubSeq(q, 1, Len(q))[i] = q[i] /\ SubSeq(t, 1, Len(q))[i] = t[i]
    BY <1>1
  <2> QED
    BY <2>1 DEF IsPrefix
<1>4. CASE Len(p) <= Len(q)
  <2>1. \A i \in 1..Len(p) : p[i] = q[i]
    BY <1>1, <1>2, <1>3, <1>4
  <2>2. SubSeq(p, 1, Len(p)) = SubSeq(q, 1, Len(p))
    BY <1>1, <1>4, <2>1
  <2> QED
    BY <1>4, <2>2 DEF IsPrefix
<1>5. CASE Len(q) <= Len(p)
  <2>1. \A i \in 1..Len(q) : q[i] = p[i]
    BY <1>1, <1>2, <1>3, <1>5
  <2>2. SubSeq(q, 1, Len(q)) = SubSeq(p, 1, Len(q))
    BY <1>1, <1>5, <2>1
  <2> QED
    BY <1>5, <2>2 DEF IsPrefix
<1> QED
  BY <1>1, <1>4, <1>5

\* What stands before the wildcards of a line is not empty, when there are any
\* and the line does not start with one.
LEMMA BeforeXIs ==
  ASSUME NEW l \in AllLines, XCount(l) # 0, Head(l) # X
  PROVE  /\ BeforeX(l) \in Seq(Int) /\ BeforeX(l) # <<>>
         /\ Head(BeforeX(l)) = Head(l)
<1> DEFINE I == {i \in 1..Len(l) : l[i] = X}
<1>1. l \in Seq(0..11) /\ l # <<>>
  BY LinesAssumption DEF AllLines, Latest
<1>2. l \in Seq(Int) /\ DOMAIN l = 1..Len(l) /\ Len(l) \in Nat \ {0} /\ Head(l) = l[1]
  BY <1>1
<1>3. I # {}
  BY <1>2, FS_EmptySet DEF XCount
<1>4. I \subseteq Nat
  BY <1>2
<1>5. \E n \in I : \A m \in I : n <= m
  BY <1>3, <1>4, HasSmallest
<1>6. SelectInSeq(l, LAMBDA c : c = X) \in I
  BY <1>3, <1>5 DEF SelectInSeq, Min
<1>7. PICK n \in I : BeforeX(l) = SubSeq(l, 1, n - 1)
  BY <1>6 DEF BeforeX
<1>8. n # 1 /\ n \in 1..Len(l)
  BY <1>2
<1>9. /\ SubSeq(l, 1, n - 1) \in Seq(Int) /\ Len(SubSeq(l, 1, n - 1)) = n - 1
      /\ SubSeq(l, 1, n - 1)[1] = l[1]
  BY <1>2, <1>8
<1> QED
  BY <1>2, <1>7, <1>8, <1>9

\* A version starts like a line that matches it, when that does not start with a
\* wildcard.
LEMMA MatchStarts ==
  ASSUME NEW l \in AllLines, NEW v \in Upstream, Head(l) # X, Matches(l, v)
  PROVE  Head(l) = Head(Text(v))
<1>1. CASE XCount(l) = 0
  BY <1>1 DEF Matches
<1>2. CASE XCount(l) # 0
  <2>1. IsPrefix(BeforeX(l), Text(v))
    BY <1>2 DEF Matches
  <2> QED
    BY <1>2, <2>1, BeforeXIs, TextIs, PrefixStarts
<1> QED
  BY <1>1, <1>2

\* Two lines that a version matches are one.
LEMMA OneLineMatches ==
  ASSUME TypeOK, LinesStandApart, ~LinesOverlap(lines),
         NEW l \in lines, NEW m \in lines, NEW v \in Upstream,
         Matches(l, v), Matches(m, v)
  PROVE  l = m
<1>1. l \in AllLines /\ m \in AllLines
  BY DEF TypeOK, AllLines
<1>2. Head(l) # X /\ Head(m) # X
  BY <1>1 DEF LinesStandApart, AllLines
<1>3. Head(l) = Head(m)
  BY <1>1, <1>2, MatchStarts
<1>4. XCount(l) = XCount(m)
  BY <1>3 DEF LinesOverlap
<1>5. CASE XCount(l) = 0
  BY <1>4, <1>5 DEF Matches
<1>6. CASE XCount(l) # 0
  <2>1. IsPrefix(BeforeX(l), Text(v)) /\ IsPrefix(BeforeX(m), Text(v))
    BY <1>4, <1>6 DEF Matches
  <2>2. BeforeX(l) \in Seq(Int) /\ BeforeX(m) \in Seq(Int)
    BY <1>1, <1>2, <1>4, <1>6, BeforeXIs
  <2>3. IsPrefix(BeforeX(l), BeforeX(m)) \/ IsPrefix(BeforeX(m), BeforeX(l))
    BY <2>1, <2>2, TextIs, PrefixesNest
  <2> QED
    BY <1>1, <1>4, <1>6, <2>3 DEF LinesStandApart, AllLines
<1> QED
  BY <1>5, <1>6

-----------------------------------------------------------------------------
(***************************************************************************)
(* One line per version.                                                   *)
(***************************************************************************)

LEMMA InitIsLinesInv == Init => LinesInv
<1>1. Init => FilterHolds /\ ~LinesOverlap(lines)
  BY DEF Init, FilterHolds
<1> QED
  BY <1>1, InitIsTyped DEF LinesInv

LEMMA StepIsLinesInv == LinesInv /\ [Next]_vars => LinesInv'
<1> SUFFICES ASSUME LinesInv, [Next]_vars
             PROVE  LinesInv'
  OBVIOUS
<1>1. TypeOK /\ TypeOK'
  BY StepIsTyped DEF LinesInv
<1>2. FilterHolds'
  <2>1. CASE UNCHANGED reported
    BY <2>1 DEF LinesInv, FilterHolds
  <2>2. CASE ~UNCHANGED reported
    <3>1. PICK q \in Resources : Check(q)
      BY <2>2 DEF Next, Publish, NewLineJob, AddLine, vars
    <3>2. \A r \in Resources : \A v \in reported'[r] :
            v \in reported[r] \/ Relevant(r, v)
      BY <1>1, <3>1 DEF Check, Store, Unknown, TypeOK
    <3> QED
      BY <3>2 DEF LinesInv, FilterHolds
  <2> QED
    BY <2>1, <2>2
<1>3. (~LinesOverlap(lines))'
  <2>1. CASE UNCHANGED lines
    BY <2>1 DEF LinesInv, LinesOverlap
  <2>2. CASE ~UNCHANGED lines
    <3>1. PICK l \in MoreLines : AddLine(l)
      BY <2>2 DEF Next, Publish, NewLineJob, Check, vars
    <3> QED
      BY <3>1 DEF AddLine, LinesOverlap
  <2> QED
    BY <2>1, <2>2
<1> QED
  BY <1>1, <1>2, <1>3 DEF LinesInv

\* LinesInv rules out that two lines have reported one version.
LEMMA LinesInvSuffices ==
  ASSUME LinesStandApart, LinesInv
  PROVE  OneLinePerVersion
<1> SUFFICES ASSUME NEW l \in lines, NEW m \in lines, l # m,
                    NEW v \in reported[l] \cap reported[m]
             PROVE  FALSE
  BY DEF OneLinePerVersion
<1>1. TypeOK /\ FilterHolds /\ ~LinesOverlap(lines)
  BY DEF LinesInv
<1>2. l \in AllLines /\ m \in AllLines /\ l \in Resources /\ m \in Resources
  BY <1>1 DEF TypeOK, AllLines, Resources
<1>3. l # Latest /\ m # Latest
  BY <1>2, LinesAssumption DEF AllLines
<1>4. Matches(l, v) /\ Matches(m, v)
  BY <1>1, <1>2, <1>3 DEF FilterHolds, Relevant
<1>5. v \in Upstream
  BY <1>1, <1>2 DEF TypeOK, Published, ToSet
<1> QED
  BY <1>1, <1>4, <1>5, OneLineMatches

\* Where no line starts with a wildcard and lines with as many wildcards differ
\* before them, the check of the template is enough: no two lines ever report the
\* same version (check_for_lines_overlap, SemanticVersionFilter).
THEOREM LinesStayApart ==
  ASSUME LinesStandApart
  PROVE  Spec => []OneLinePerVersion
<1>1. LinesInv => OneLinePerVersion
  BY LinesInvSuffices
<1> QED
  BY <1>1, InitIsLinesInv, StepIsLinesInv, PTL DEF Spec

=============================================================================
