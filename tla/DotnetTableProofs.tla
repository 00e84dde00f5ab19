------------------------- MODULE DotnetTableProofs -------------------------
(***************************************************************************)
(* Theorems of DotnetTable, for every set of SDKs, every mistakable        *)
(* version and every order in which the lines are handled.                 *)
(***************************************************************************)
EXTENDS DotnetTable, FiniteSetTheorems, TLAPS

\* The table has one row for a runtime.
OneRow == \A s, t \in table : SameRuntime(s, t) => s = t

\* The SDKs the properties are about.
Good(s) == Supported(s) /\ Unmistakable(s)

\* Of these, the table and the dependencies have the same ones.
BothOrNone == \A s \in Sdks : Good(s) => (s \in table <=> s \in deps)

\* What every step keeps.
IInv ==
  /\ TypeOK
  /\ OneRow
  /\ BothOrNone
  /\ SupportedSdkIsOffered

-----------------------------------------------------------------------------
\* Within a runtime Newer is a strict and total order.
LEMMA NewerOrders ==
  ASSUME NEW s \in Sdks, NEW t \in Sdks, NEW u \in Sdks
  PROVE  /\ ~(Newer(s, t) /\ Newer(t, s)) /\ ~Newer(s, s)
         /\ ~Newer(s, t) /\ Newer(u, t) => ~Newer(s, u)
         /\ SameRuntime(s, t) => s = t \/ Newer(s, t) \/ Newer(t, s)
<1>1. \A x \in Sdks : /\ x.channel \in Nat /\ x.line \in Nat
                      /\ x.number \in Nat /\ x.patch \in Nat
                      /\ x = [channel |-> x.channel, line |-> x.line,
                              number |-> x.number, patch |-> x.patch]
  BY SdksAssumption
<1>2. /\ ~(Newer(s, t) /\ Newer(t, s)) /\ ~Newer(s, s)
      /\ ~Newer(s, t) /\ Newer(u, t) => ~Newer(s, u)
  BY <1>1 DEF Newer
<1>3. ASSUME SameRuntime(s, t), ~Newer(s, t), ~Newer(t, s)
      PROVE  s = t
  <2>1. /\ s.channel = t.channel /\ s.patch = t.patch
        /\ s.line = t.line /\ s.number = t.number
    BY <1>1, <1>3 DEF Newer, SameRuntime
  <2> QED
    BY <1>1, <2>1
<1> QED
  BY <1>2, <1>3

\* Whether an SDK is good depends on its runtime only.
LEMMA GoodIsOfRuntime ==
  ASSUME NEW s, NEW t, SameRuntime(s, t)
  PROVE  Good(s) <=> Good(t)
<1>1. s.channel = t.channel /\ s.patch = t.patch
  BY DEF SameRuntime
<1>2. Supported(s) <=> Supported(t)
  <2>1. Later(s) = Later(t)
    BY <1>1 DEF Later
  <2> QED
    BY <1>1, <2>1 DEF Supported
<1>3. Unmistakable(s) <=> Unmistakable(t)
  BY <1>1 DEF Unmistakable
<1> QED
  BY <1>2, <1>3 DEF Good

\* The later runtimes among some SDKs.
LaterIn(S, s) == {t.patch : t \in {u \in S : u.channel = s.channel /\ u.patch > s.patch}}

\* There are finitely many of them.
LEMMA LaterIsFinite ==
  ASSUME NEW S \in SUBSET Sdks, NEW s
  PROVE  IsFiniteSet(LaterIn(S, s)) /\ Cardinality(LaterIn(S, s)) \in Nat
<1> DEFINE Us == {u \in S : u.channel = s.channel /\ u.patch > s.patch}
           patchOf == [t \in Us |-> t.patch]
<1>1. Us \subseteq Sdks
  OBVIOUS
<1> HIDE DEF Us
<1>2. IsFiniteSet(Us)
  BY <1>1, SdksAssumption, FS_Subset
<1>3. LaterIn(S, s) = {t.patch : t \in Us}
  BY DEF LaterIn, Us
<1>4. patchOf \in Surjection(Us, LaterIn(S, s))
  BY <1>3 DEF Surjection
<1> HIDE DEF patchOf
<1>5. IsFiniteSet(LaterIn(S, s))
  BY <1>2, <1>4, FS_Surjection
<1> QED
  BY <1>5, FS_CardinalityType

\* A published SDK makes no runtime supported again: where it ends that an entry
\* without a runtime stands before the second latest, it is itself the latest.
LEMMA SupportedBefore ==
  ASSUME TypeOK, NEW x \in Sdks, Publish(x), NEW s \in Sdks, Supported(s)'
  PROVE  Supported(s)
<1>1. published' = published \cup {x} /\ published' \subseteq Sdks
  BY DEF Publish, TypeOK
<1>2. Later(s) \subseteq Later(s)'
  BY <1>1 DEF Later
<1>3. /\ IsFiniteSet(Later(s)) /\ Cardinality(Later(s)) \in Nat
      /\ IsFiniteSet(Later(s)')
  <2>1. Later(s) = LaterIn(published, s) /\ Later(s)' = LaterIn(published', s)
    BY DEF Later, LaterIn
  <2>2. published \in SUBSET Sdks /\ published' \in SUBSET Sdks
    BY <1>1 DEF TypeOK
  <2> QED
    BY <2>1, <2>2, LaterIsFinite
<1>4. CASE Later(s)' = {}
  BY <1>2, <1>4 DEF Supported
<1>5. CASE Later(s)' # {} /\ Later(s) # {}
  <2>1. Cardinality(Later(s)') = 1 /\ s.channel \notin hidden'
    BY <1>5 DEF Supported
  <2>2. Cardinality(Later(s)) \in Nat /\ Cardinality(Later(s)) # 0
    BY <1>3, <1>5, FS_EmptySet
  <2>3. Later(s) = Later(s)'
    BY <1>2, <1>3, <2>1, <2>2, FS_Subset
  <2>4. s.channel \notin hidden
    <3>1. SUFFICES ASSUME s.channel \in hidden PROVE FALSE
      OBVIOUS
    <3>2. /\ x.channel = s.channel
          /\ \A t \in published : t.channel = x.channel => t.patch < x.patch
      BY <2>1, <3>1 DEF Publish
    <3>3. PICK t \in published : t.channel = s.channel /\ t.patch > s.patch
      BY <1>5 DEF Later
    <3>4. x.patch \in Nat /\ t.patch \in Nat
      BY <1>1, SdksAssumption
    <3>5. x.patch > s.patch
      BY <3>2, <3>3, <3>4, SdksAssumption
    <3>6. x.patch \in Later(s)' /\ x.patch \notin Later(s)
      <4>1. x.patch \in Later(s)'
        BY <1>1, <3>2, <3>5 DEF Later
      <4>2. \A u \in published : u.channel = s.channel => u.patch # x.patch
        BY <1>1, <3>2, SdksAssumption
      <4> QED
        BY <4>1, <4>2 DEF Later
    <3> QED
      BY <2>3, <3>6
  <2> QED
    BY <2>1, <2>3, <2>4 DEF Supported
<1>6. CASE Later(s) = {}
  BY <1>6 DEF Supported
<1> QED
  BY <1>4, <1>5, <1>6

\* A good SDK was good before.
LEMMA GoodBefore ==
  ASSUME TypeOK, NEW x \in Sdks, Publish(x), NEW s \in Sdks, Good(s)'
  PROVE  Good(s)
BY SupportedBefore DEF Good, Unmistakable

\* No good row is dropped.
LEMMA GoodIsKept ==
  ASSUME NEW s, Good(s), NEW channel
  PROVE  s \notin Dropped(channel)
<1>1. SUFFICES ASSUME s \in Dropped(channel) PROVE FALSE
  OBVIOUS
<1>2. s.channel # channel /\ <<s.channel, s.patch, channel>> \in Contains
  BY <1>1 DEF Dropped, Good, OfChannel
<1> QED
  BY <1>2 DEF Good, Unmistakable

-----------------------------------------------------------------------------
\* Before the first SDK there is nothing to keep.
LEMMA InitHolds ==
  ASSUME Init
  PROVE  IInv
BY BoundsAssumption DEF Init, IInv, TypeOK, OneRow, BothOrNone, SupportedSdkIsOffered

\* A release takes nothing from the table and can only end the support of a
\* runtime.
LEMMA PublishHolds ==
  ASSUME IInv, NEW x \in Sdks, Publish(x)
  PROVE  IInv'
<1>1. TypeOK' /\ OneRow'
  BY DEF IInv, TypeOK, OneRow, Publish, Channels
<1>2. \A s \in Sdks : Good(s)' => Good(s)
  BY GoodBefore DEF IInv
<1>3. BothOrNone'
  BY <1>2 DEF IInv, BothOrNone, Publish
<1>4. SupportedSdkIsOffered'
  <2>1. \A s \in handled : s \in Sdks
    BY DEF IInv, TypeOK
  <2> QED
    BY <1>2, <2>1 DEF IInv, SupportedSdkIsOffered, Publish, Good
<1> QED
  BY <1>1, <1>3, <1>4 DEF IInv

\* An entry without a runtime can only end the support of one.
LEMMA PublishBareHolds ==
  ASSUME IInv, NEW channel \in Channels, PublishBare(channel)
  PROVE  IInv'
<1>1. TypeOK' /\ OneRow'
  BY DEF IInv, TypeOK, OneRow, PublishBare
<1>2. \A s : Good(s)' => Good(s)
  BY DEF Good, Supported, Later, Unmistakable, PublishBare
<1>3. BothOrNone'
  BY <1>2 DEF IInv, BothOrNone, PublishBare
<1>4. SupportedSdkIsOffered'
  BY <1>2 DEF IInv, SupportedSdkIsOffered, PublishBare, Good
<1> QED
  BY <1>1, <1>3, <1>4 DEF IInv

\* Taking a version hands it to the job and changes no runtime's support.
LEMMA TakeIs ==
  ASSUME TypeOK, NEW s \in Sdks, Take(s)
  PROVE  /\ UNCHANGED <<published, bare, hidden>>
         /\ s \in published /\ handled' = handled \cup {s}
         /\ reruns' \in 0..MaxReruns
         /\ \A t : Good(t)' <=> Good(t)
<1>1. reruns' \in 0..MaxReruns
  BY BoundsAssumption DEF TypeOK, Take
<1>2. /\ UNCHANGED <<published, bare, hidden>>
      /\ s \in published /\ handled' = handled \cup {s}
  BY DEF Take
<1>3. \A t : Good(t)' <=> Good(t)
  BY <1>2 DEF Good, Supported, Later, Unmistakable
<1> QED
  BY <1>1, <1>2, <1>3

\* What is refused is not supported, nor is any SDK of its runtime.
LEMMA RefuseHolds ==
  ASSUME IInv, NEW s \in Sdks, Refuse(s)
  PROVE  IInv'
<1>1. TypeOK
  BY DEF IInv
<1>2. /\ UNCHANGED <<published, bare, hidden>>
      /\ s \in published /\ handled' = handled \cup {s}
      /\ reruns' \in 0..MaxReruns
      /\ \A t : Good(t)' <=> Good(t)
  BY <1>1, TakeIs DEF Refuse
<1>3. ~Good(s) /\ deps' = deps \ {s} /\ table' = table
  BY DEF Refuse, Good
<1>4. TypeOK' /\ OneRow'
  BY <1>1, <1>2, <1>3 DEF IInv, TypeOK, OneRow
<1>5. BothOrNone'
  BY <1>2, <1>3 DEF IInv, BothOrNone
<1>6. SupportedSdkIsOffered'
  <2>1. SUFFICES ASSUME NEW t \in handled', Good(t)
                 PROVE  \E u \in table' \cap deps' : SameRuntime(u, t) /\ ~Newer(t, u)
    BY <1>2 DEF SupportedSdkIsOffered, Good
  <2>2. PICK u \in table \cap deps : SameRuntime(u, t) /\ ~Newer(t, u)
    BY <1>2, <1>3, <2>1 DEF IInv, SupportedSdkIsOffered, Good
  <2>3. Good(u)
    BY <2>1, <2>2, GoodIsOfRuntime
  <2> QED
    BY <1>3, <2>2, <2>3
<1> QED
  BY <1>4, <1>5, <1>6 DEF IInv

\* The row of the runtime is the only other row that the new SDK meets, and of
\* the two the older goes from both places.
LEMMA AddHolds ==
  ASSUME IInv, NEW s \in Sdks, AddToTable(s)
  PROVE  IInv'
<1> DEFINE kept == table \ Dropped(s.channel)
           gone == IF Row(kept, s) = {} THEN LastOf(Dropped(s.channel))
                   ELSE Replaced(kept, s)
<1>1. TypeOK
  BY DEF IInv
<1>2. /\ UNCHANGED <<published, bare, hidden>>
      /\ s \in published /\ handled' = handled \cup {s}
      /\ reruns' \in 0..MaxReruns
      /\ \A t : Good(t)' <=> Good(t)
  BY <1>1, TakeIs DEF AddToTable
<1>3. /\ table' = (kept \cup {s}) \ Replaced(kept, s)
      /\ deps' = (deps \cup {s}) \ gone
  BY DEF AddToTable
<1>4. /\ \A t \in table : t \in Sdks /\ t \in handled
      /\ \A t \in deps : t \in Sdks /\ t \in handled
      /\ \A t \in handled : t \in Sdks
  BY <1>1 DEF TypeOK
<1>5. \A t : Good(t) => t \notin Dropped(s.channel)
  BY GoodIsKept
<1>6. \A t, u \in kept : SameRuntime(t, u) => t = u
  BY DEF IInv, OneRow
<1>7. \A t \in Replaced(kept, s) : SameRuntime(t, s) /\ (t = s \/ t \in kept)
  BY DEF Replaced, Row, SameRuntime
<1>8. TypeOK'
  BY <1>1, <1>2, <1>3 DEF TypeOK
\* For the rows of the runtime itself.
<1>9. \A u \in kept : SameRuntime(u, s) =>
        /\ u \in Replaced(kept, s) <=> Newer(s, u)
        /\ s \in Replaced(kept, s) <=> Newer(u, s)
  <2>1. SUFFICES ASSUME NEW u \in kept, SameRuntime(u, s)
                 PROVE  /\ u \in Replaced(kept, s) <=> Newer(s, u)
                        /\ s \in Replaced(kept, s) <=> Newer(u, s)
    OBVIOUS
  <2>2. Row(kept, s) = {u}
    BY <1>6, <2>1 DEF Row, SameRuntime
  <2>3. Replaced(kept, s) = {t \in {u} : Newer(s, t)} \cup {t \in {s} : Newer(u, t)}
    BY <2>2 DEF Replaced
  <2>4. u \in Sdks
    BY <1>4
  <2> HIDE DEF kept
  <2> QED
    BY <2>3, <2>4, NewerOrders
<1>10. (\A u \in kept : ~SameRuntime(u, s)) => Row(kept, s) = {} /\ Replaced(kept, s) = {}
  BY DEF Row, Replaced
<1>11. \A t : Good(t) => (t \in gone <=> t \in Replaced(kept, s))
  <2>1. CASE Row(kept, s) = {}
    <3>1. Replaced(kept, s) = {}
      BY <2>1 DEF Replaced
    <3>2. LastOf(Dropped(s.channel)) \subseteq Dropped(s.channel)
      BY DEF LastOf
    <3> QED
      BY <1>5, <2>1, <3>1, <3>2
  <2>2. CASE Row(kept, s) # {}
    BY <2>2
  <2> QED
    BY <2>1, <2>2
<1>12. \A t : Good(t) /\ t \in table => t \in kept
  BY <1>5
<1>13. \A u \in kept : u \in Sdks
  BY <1>4
<1>14. kept \subseteq table
  OBVIOUS
<1> HIDE DEF kept, gone
<1>15. OneRow'
  <2>1. SUFFICES ASSUME NEW t \in table', NEW u \in table', SameRuntime(t, u), t # u
                 PROVE  FALSE
    BY DEF OneRow
  <2>2. t = s \/ u = s
    BY <1>3, <1>6, <2>1
  <2>3. PICK w \in kept : SameRuntime(w, s) /\ w # s /\ w \in table' /\ s \in table'
    BY <1>3, <2>1, <2>2 DEF SameRuntime
  <2>4. ~Newer(s, w) /\ ~Newer(w, s)
    BY <1>3, <1>9, <2>3
  <2> QED
    BY <1>13, <2>3, <2>4, NewerOrders
<1>16. BothOrNone'
  <2>1. SUFFICES ASSUME NEW t \in Sdks, Good(t)
                 PROVE  t \in table' <=> t \in deps'
    BY <1>2 DEF BothOrNone
  <2>2. t \in table <=> t \in deps
    BY <2>1 DEF IInv, BothOrNone
  <2> QED
    BY <1>3, <1>11, <1>12, <1>14, <2>1, <2>2
<1>17. SupportedSdkIsOffered'
  <2>1. SUFFICES ASSUME NEW t \in handled', Good(t)
                 PROVE  \E u \in table' : SameRuntime(u, t) /\ ~Newer(t, u)
    <3>1. ASSUME NEW t \in handled', Good(t),
                 NEW u \in table', SameRuntime(u, t), ~Newer(t, u)
          PROVE  u \in deps'
      <4>1. Good(u)
        BY <3>1, GoodIsOfRuntime
      <4>2. u \in Sdks
        BY <1>3, <1>13
      <4> QED
        BY <1>2, <1>16, <4>1, <4>2 DEF BothOrNone
    <3> QED
      BY <1>2, <2>1, <3>1 DEF SupportedSdkIsOffered, Good
  <2>2. t \in Sdks
    BY <1>2, <1>4
  \* The SDK that did it before the step, if there is one.
  <2>3. CASE t \in handled
    <3>1. PICK u \in table : SameRuntime(u, t) /\ ~Newer(t, u)
      BY <2>1, <2>3 DEF IInv, SupportedSdkIsOffered, Good
    <3>2. u \in kept
      BY <1>12, <2>1, <3>1, GoodIsOfRuntime
    <3>3. CASE u \in Replaced(kept, s)
      <4>1. SameRuntime(u, s)
        BY <1>7, <3>3
      <4>2. Newer(s, u)
        BY <1>9, <3>2, <3>3, <4>1
      <4>3. u \in Sdks
        BY <1>13, <3>2
      <4>4. s \in table'
        BY <1>3, <1>9, <3>2, <4>1, <4>2, <4>3, NewerOrders
      <4>5. ~Newer(t, s)
        BY <2>2, <3>1, <4>2, <4>3, NewerOrders
      <4>6. SameRuntime(s, t)
        BY <3>1, <4>1 DEF SameRuntime
      <4> QED
        BY <4>4, <4>5, <4>6
    <3>4. CASE u \notin Replaced(kept, s)
      BY <1>3, <3>1, <3>2, <3>4
    <3> QED
      BY <3>3, <3>4
  <2>4. CASE t = s
    <3>1. CASE \E u \in kept : SameRuntime(u, s)
      <4>1. PICK u \in kept : SameRuntime(u, s)
        BY <3>1
      <4>2. u \in Sdks
        BY <1>13
      <4>3. CASE Newer(u, s)
        <5>1. u \in table'
          BY <1>3, <1>9, <4>1, <4>2, <4>3, NewerOrders
        <5>2. ~Newer(s, u)
          BY <4>2, <4>3, NewerOrders
        <5> QED
          BY <2>4, <4>1, <5>1, <5>2
      <4>4. CASE ~Newer(u, s)
        <5>1. s \in table'
          BY <1>3, <1>9, <4>1, <4>4
        <5> QED
          BY <2>4, <5>1, NewerOrders DEF SameRuntime
      <4> QED
        BY <4>3, <4>4
    <3>2. CASE \A u \in kept : ~SameRuntime(u, s)
      <4>1. s \in table'
        BY <1>3, <1>10, <3>2
      <4> QED
        BY <2>4, <4>1, NewerOrders DEF SameRuntime
    <3> QED
      BY <3>1, <3>2
  <2> QED
    BY <1>2, <2>3, <2>4
<1> QED
  BY <1>8, <1>15, <1>16, <1>17 DEF IInv

-----------------------------------------------------------------------------
\* Every step keeps the invariant.
LEMMA NextHolds ==
  ASSUME IInv, [Next]_vars
  PROVE  IInv'
<1>1. CASE UNCHANGED vars
  BY <1>1 DEF vars, IInv, TypeOK, OneRow, BothOrNone, Good, Supported, Unmistakable,
              Later, SupportedSdkIsOffered
<1>2. ASSUME NEW s \in Sdks, Publish(s) \/ AddToTable(s) \/ Refuse(s)
      PROVE  IInv'
  BY <1>2, PublishHolds, AddHolds, RefuseHolds
<1>3. ASSUME NEW channel \in Channels, PublishBare(channel)
      PROVE  IInv'
  BY <1>3, PublishBareHolds
<1> QED
  BY <1>1, <1>2, <1>3 DEF Next

\* The invariant holds in every reachable state.
LEMMA IInvHolds == Spec => []IInv
<1>1. Init => IInv
  BY InitHolds
<1>2. IInv /\ [Next]_vars => IInv'
  BY NextHolds
<1> QED
  BY <1>1, <1>2, PTL DEF Spec

\* The table and the dependencies only have SDKs that were handled.
THEOREM TableTypeCorrect == Spec => []TypeOK
<1>1. IInv => TypeOK
  BY DEF IInv
<1> QED
  BY <1>1, IInvHolds, PTL

\* Whatever the order of the lines, a handled SDK of a supported runtime, or a
\* newer one, is in the table and among the dependencies.
THEOREM SupportedStaysOffered == Spec => []SupportedSdkIsOffered
<1>1. IInv => SupportedSdkIsOffered
  BY DEF IInv
<1> QED
  BY <1>1, IInvHolds, PTL

\* There is never a second SDK for a supported runtime.
THEOREM OneSdkStays == Spec => []SupportedHasOneSdk
<1>1. IInv => SupportedHasOneSdk
  <2>1. SUFFICES ASSUME IInv, NEW s \in deps, NEW t \in deps, Good(s), SameRuntime(s, t)
                 PROVE  s = t
    BY DEF SupportedHasOneSdk, Good
  <2>2. Good(t)
    BY <2>1, GoodIsOfRuntime
  <2>3. s \in table /\ t \in table
    BY <2>1, <2>2 DEF IInv, BothOrNone, TypeOK
  <2> QED
    BY <2>1, <2>3 DEF IInv, OneRow
<1> QED
  BY <1>1, IInvHolds, PTL

=============================================================================
