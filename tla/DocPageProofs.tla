---------------------------- MODULE DocPageProofs ----------------------------
(***************************************************************************)
(* Theorems of the documentation page: of DocPage, for every set of        *)
(* queries, whatever each finds, every set of types and every bound on     *)
(* what waits; and of DocSearch and DocRanking, for every index, every     *)
(* query and every order of names.                                         *)
(***************************************************************************)
EXTENDS DocPage, DocSearch, FiniteSetTheorems, SequenceTheorems,
        WellFoundedInduction, TLAPS

\* An index that is there has nothing waiting for it, and without it there is
\* nothing to list.
IndexFirst ==
  /\ loaded => delayed = <<>>
  /\ ~loaded => ~visible /\ listed = NoText /\ current = NoResult

\* The last search is the one that is listed or the last to wait for the index.
LastIsSearched ==
  /\ last \in Queries =>
       IF loaded THEN listed = last
       ELSE delayed # <<>> /\ delayed[Len(delayed)] = last
  /\ visible \/ delayed # <<>> => last # NoText

\* Unless a search is about to start, the text is the one searched last; that
\* one is in the storage in any case.
LastIsTyped ==
  last # NoText => savedText = last /\ (~debounce => text = last)

\* Enter keys are counted before their delay and while it runs.
EntersFit == enters + due <= MaxEnters

\* The inductive invariant: ListedIsTyped follows from what was searched last,
\* not from the text.
IInv ==
  /\ TypeOK /\ EntersFit
  /\ IndexFirst /\ LastIsSearched /\ LastIsTyped
  /\ HighlightIsListed /\ RememberedIsOpen

-----------------------------------------------------------------------------

\* Each part of a sum is within the bound of the sum.
LEMMA PartsFit ==
  ASSUME NEW m \in Nat, NEW n \in Nat, m + n <= MaxEnters
  PROVE  m \in 0..MaxEnters /\ n \in 0..MaxEnters
BY DocPageAssumption

\* A result is a query and a place in its list.
LEMMA ResultIs ==
  /\ \A q \in Queries : \A n \in 1..Hits[q] : <<q, n>> \in Results
  /\ \A r \in Results : r[1] \in Queries /\ r[2] \in 1..Hits[r[1]]
BY DEF Results

\* highlightFirst leads to the first result of the list, or leaves the
\* highlight where it was because there is none.
LEMMA FirstOfIs ==
  ASSUME TypeOK, NEW sought \in Queries \cup {NoText}
  PROVE  /\ FirstOf(sought) \in Results \cup {NoResult}
         /\ FirstOf(sought) = current \/ (sought # NoText /\ FirstOf(sought)[1] = sought)
         /\ sought # NoText => FirstOf(sought)[1] = sought \/ Hits[sought] = 0
         /\ sought = NoText => FirstOf(sought) = current
<1>1. ASSUME sought # NoText, Hits[sought] > 0
      PROVE  <<sought, 1>> \in Results
  BY <1>1, ResultIs, DocPageAssumption
<1>2. sought # NoText => Hits[sought] \in Nat
  BY DocPageAssumption
<1> QED
  BY <1>1, <1>2 DEF FirstOf, TypeOK

\* move stays in the list.
LEMMA MovedIs ==
  ASSUME TypeOK, HighlightIsListed, NEW upwards \in BOOLEAN
  PROVE  /\ Moved(upwards) \in Results \cup {NoResult}
         /\ Moved(upwards) # NoResult =>
              listed # NoText /\ (Moved(upwards)[1] = listed \/ Hits[listed] = 0)
<1>1. listed \in Queries \cup {NoText}
  BY DEF TypeOK
<1> DEFINE next == IF upwards THEN current[2] - 1 ELSE current[2] + 1
<1>2. CASE current = NoResult
  BY <1>1, <1>2, FirstOfIs DEF Moved
<1>3. CASE current # NoResult /\ Attached(current) /\ next \in 1..Hits[listed]
  <2>1. listed \in Queries
    BY <1>1, <1>3 DEF HighlightIsListed
  <2>2. <<listed, next>> \in Results
    BY <1>3, <2>1, ResultIs
  <2>3. Moved(upwards) = <<listed, next>>
    BY <1>3 DEF Moved
  <2> QED
    BY <2>1, <2>2, <2>3, DocPageAssumption
<1>4. CASE current # NoResult /\ ~(Attached(current) /\ next \in 1..Hits[listed])
  <2>1. Moved(upwards) = current
    BY <1>4 DEF Moved
  <2> QED
    BY <1>4, <2>1 DEF TypeOK, HighlightIsListed, Attached
<1> QED
  BY <1>2, <1>3, <1>4

LEMMA InitIsInv == Init => IInv
<1> SUFFICES ASSUME Init
             PROVE  IInv
  OBVIOUS
<1> USE DEF Init
<1>1. TypeOK
  <2>1. delayed \in Seq(Queries)
    OBVIOUS
  <2>2. debounce \in BOOLEAN /\ performing \in BOOLEAN /\ loaded \in BOOLEAN
          /\ visible \in BOOLEAN /\ modal \in BOOLEAN /\ onLoad \in BOOLEAN
    OBVIOUS
  <2>3. /\ enters \in 0..MaxEnters /\ due \in 0..MaxEnters
        /\ focus \in {"input", "sidebar", "page"}
        /\ text \in Inputs /\ savedText \in Inputs
    BY DocPageAssumption DEF Inputs
  <2> QED
    BY <2>1, <2>2, <2>3 DEF TypeOK
<1>2. EntersFit /\ IndexFirst /\ LastIsSearched /\ LastIsTyped
  BY DocPageAssumption
  DEF EntersFit, IndexFirst, LastIsSearched, LastIsTyped
<1>3. HighlightIsListed /\ RememberedIsOpen
  BY DEF HighlightIsListed, RememberedIsOpen
<1> QED
  BY <1>1, <1>2, <1>3 DEF IInv

\* A page that loads starts over with what the storage has.
LEMMA LoadPageKeeps ==
  ASSUME IInv, LoadPage
  PROVE  IInv'
<1> USE DEF LoadPage
<1>1. TypeOK'
  <2>1. delayed' \in Seq(Queries)
    OBVIOUS
  <2>2. /\ enters' \in 0..MaxEnters /\ due' \in 0..MaxEnters
        /\ openTypes' \subseteq Parents
    BY DocPageAssumption DEF IInv, TypeOK
  <2> QED
    BY <2>1, <2>2 DEF IInv, TypeOK, Inputs
<1>2. (EntersFit /\ IndexFirst /\ LastIsSearched /\ LastIsTyped)'
  BY DocPageAssumption
  DEF EntersFit, IndexFirst, LastIsSearched, LastIsTyped
<1>3. (HighlightIsListed /\ RememberedIsOpen)'
  BY DEF HighlightIsListed, RememberedIsOpen
<1> QED
  BY <1>1, <1>2, <1>3 DEF IInv

\* Leaving the search hides the list and touches nothing that was searched.
LEMMA HidingKeeps ==
  ASSUME IInv,
         visible' = FALSE,
         pressed' \in Keys \cup {NoKey}, focus' \in {"input", "sidebar", "page"},
         enters' \in Nat, due' \in Nat, enters' + due' <= MaxEnters,
         UNCHANGED <<search, index, listed, current, modal, types, savedText>>
  PROVE  IInv'
<1> USE DEF search, index, types
<1>1. TypeOK'
  <2>1. enters' \in 0..MaxEnters /\ due' \in 0..MaxEnters
    BY PartsFit
  <2>2. delayed' \in Seq(Queries)
    BY DEF IInv, TypeOK
  <2>3. /\ text' \in Inputs /\ last' \in Inputs \cup {NoText}
        /\ listed' \in Queries \cup {NoText} /\ savedText' \in Inputs
        /\ current' \in Results \cup {NoResult}
        /\ openTypes' \subseteq Parents /\ savedTypes' \subseteq Parents
    BY DEF IInv, TypeOK
  <2>4. /\ debounce' \in BOOLEAN /\ performing' \in BOOLEAN
        /\ loaded' \in BOOLEAN /\ onLoad' \in BOOLEAN
        /\ visible' \in BOOLEAN /\ modal' \in BOOLEAN
    BY DEF IInv, TypeOK
  <2> QED
    BY <2>1, <2>2, <2>3, <2>4 DEF TypeOK
<1>2. (EntersFit /\ IndexFirst /\ LastIsSearched /\ LastIsTyped)'
  BY DEF IInv, EntersFit, IndexFirst, LastIsSearched, LastIsTyped
<1>3. (HighlightIsListed /\ RememberedIsOpen)'
  BY DEF IInv, HighlightIsListed, Attached, RememberedIsOpen
<1> QED
  BY <1>1, <1>2, <1>3 DEF IInv

\* A search that is about to start, and a highlight that moves.
LEMMA TypingKeeps ==
  ASSUME IInv,
         text' \in Inputs, text' # text => debounce' = TRUE,
         debounce' \in BOOLEAN, debounce => debounce', performing' \in BOOLEAN,
         current' \in Results \cup {NoResult},
         current' # NoResult =>
           listed # NoText /\ (current'[1] = listed \/ Hits[listed] = 0),
         pressed' \in Keys \cup {NoKey}, focus' \in {"input", "sidebar", "page"},
         modal' \in BOOLEAN,
         enters' \in Nat, enters' + due <= MaxEnters,
         UNCHANGED <<last, index, due, results, types, savedText>>
  PROVE  IInv'
<1> USE DEF index, results, types
<1>1. TypeOK'
  <2>1. enters' \in 0..MaxEnters
    <3>1. due \in Nat
      BY DocPageAssumption DEF IInv, TypeOK
    <3> QED
      BY <3>1, PartsFit
  <2> QED
    BY <2>1 DEF IInv, TypeOK
<1>2. EntersFit' /\ LastIsSearched' /\ LastIsTyped'
  BY DEF IInv, TypeOK, EntersFit, LastIsSearched, LastIsTyped
<1>3. IndexFirst'
  BY DEF IInv, IndexFirst, TypeOK
<1>4. (HighlightIsListed /\ RememberedIsOpen)'
  BY DEF IInv, HighlightIsListed, Attached, RememberedIsOpen
<1> QED
  BY <1>1, <1>2, <1>3, <1>4 DEF IInv

\* The highlight stays where it may be.
LEMMA CurrentIs ==
  ASSUME IInv
  PROVE  /\ current \in Results \cup {NoResult}
         /\ current # NoResult =>
              listed # NoText /\ (current[1] = listed \/ Hits[listed] = 0)
BY DEF IInv, TypeOK, HighlightIsListed, Attached

\* The debounce timer: what is searched is what was typed.
LEMMA DebounceKeeps ==
  ASSUME IInv, Debounce
  PROVE  IInv'
<1> USE DEF Debounce, types
<1>1. text \in Inputs /\ Empty \notin Queries /\ NoText \notin Queries /\ Empty # NoText
  BY DocPageAssumption DEF IInv, TypeOK
<1>2. CASE SearchNew
  <2> USE DEF SearchNew, Search, SearchPerformed
  <2>1. text \in Queries
    BY <1>1, <1>2 DEF Inputs
  <2>2. listed' \in Queries \cup {NoText}
    BY <1>2, <2>1 DEF IInv, TypeOK
  <2>3. /\ current' \in Results \cup {NoResult}
        /\ HighlightIsListed'
    <3>1. current' = FirstOf(listed') /\ (listed' = NoText => listed = NoText)
      BY <1>1, <1>2, <2>1
    <3> QED
      BY <2>2, <3>1, FirstOfIs, CurrentIs DEF IInv, HighlightIsListed, Attached
  <2>4. CASE loaded
    <3>1. (TypeOK /\ EntersFit)'
      <4>1. /\ enters' \in 0..MaxEnters /\ due' \in 0..MaxEnters
            /\ enters' + due' <= MaxEnters
        BY <1>2, <2>4, DocPageAssumption DEF IInv, TypeOK, EntersFit
      <4> QED
        BY <1>2, <2>1, <2>3, <2>4, <4>1 DEF IInv, TypeOK, EntersFit, Inputs
    <3>2. (IndexFirst /\ LastIsSearched /\ LastIsTyped)'
      BY <1>1, <1>2, <2>1, <2>4
      DEF IInv, IndexFirst, LastIsSearched, LastIsTyped
    <3>3. RememberedIsOpen'
      BY DEF IInv, RememberedIsOpen
    <3> QED
      BY <2>3, <3>1, <3>2, <3>3 DEF IInv
  <2>5. CASE ~loaded
    <3>1. /\ delayed' \in Seq(Queries) /\ delayed' # <<>>
          /\ delayed'[Len(delayed')] = text
      BY <1>2, <2>1, <2>5 DEF IInv, TypeOK
    <3>2. (TypeOK /\ EntersFit)'
      BY <1>2, <2>1, <2>3, <2>5, <3>1
      DEF IInv, TypeOK, EntersFit, Inputs
    <3>3. (LastIsSearched /\ LastIsTyped)'
      BY <1>1, <1>2, <2>1, <2>5, <3>1
      DEF IInv, LastIsSearched, LastIsTyped
    <3>4. IndexFirst'
      BY <1>1, <1>2, <2>1, <2>5, FirstOfIs DEF IInv, IndexFirst, TypeOK
    <3>5. RememberedIsOpen'
      BY DEF IInv, RememberedIsOpen
    <3> QED
      BY <2>3, <3>2, <3>3, <3>4, <3>5 DEF IInv
  <2> QED
    BY <2>4, <2>5
<1>3. CASE SearchAgain \/ SearchNothing
  <2> USE DEF SearchAgain, SearchNothing, results, waiting
  <2>1. (TypeOK /\ EntersFit)'
    BY <1>3 DEF IInv, TypeOK, EntersFit
  <2>2. (IndexFirst /\ LastIsSearched /\ LastIsTyped)'
    BY <1>1, <1>3 DEF IInv, TypeOK, IndexFirst, LastIsSearched, LastIsTyped
  <2>3. (HighlightIsListed /\ RememberedIsOpen)'
    BY <1>3 DEF IInv, HighlightIsListed, Attached, RememberedIsOpen
  <2> QED
    BY <2>1, <2>2, <2>3 DEF IInv
<1> QED
  BY <1>2, <1>3

\* The index arrives: the last search that waited is the one that is listed.
LEMMA LoadIndexKeeps ==
  ASSUME IInv, LoadIndex
  PROVE  IInv'
<1> USE DEF LoadIndex, types
<1>1. delayed \in Seq(Queries)
  BY DEF IInv, TypeOK
<1>2. current = NoResult /\ listed = NoText /\ ~visible
  BY DEF IInv, IndexFirst
<1>3. CASE delayed = <<>>
  <2> USE <1>3 DEF RunDelayed, results, waiting
  <2>1. (TypeOK /\ EntersFit)'
    BY DEF IInv, TypeOK, EntersFit
  <2>2. (IndexFirst /\ LastIsSearched /\ LastIsTyped)'
    BY DEF IInv, TypeOK, IndexFirst, LastIsSearched, LastIsTyped
  <2>3. (HighlightIsListed /\ RememberedIsOpen)'
    BY <1>2 DEF IInv, HighlightIsListed, RememberedIsOpen
  <2> QED
    BY <2>1, <2>2, <2>3 DEF IInv
<1>4. CASE delayed # <<>>
  <2> USE <1>4 DEF RunDelayed, SearchPerformed
  <2>1. delayed[Len(delayed)] \in Queries
    BY <1>1
  <2>2. (TypeOK /\ EntersFit)'
    <3>1. /\ enters' \in 0..MaxEnters /\ due' \in 0..MaxEnters
          /\ enters' + due' <= MaxEnters
      BY DocPageAssumption DEF IInv, TypeOK, EntersFit
    <3>2. /\ debounce' \in BOOLEAN /\ performing' \in BOOLEAN
          /\ loaded' \in BOOLEAN /\ visible' \in BOOLEAN
          /\ focus' \in {"input", "sidebar", "page"}
      BY DEF IInv, TypeOK
    <3>3. delayed' \in Seq(Queries)
      OBVIOUS
    <3> QED
      BY <2>1, <3>1, <3>2, <3>3 DEF IInv, TypeOK, EntersFit
  <2>3. (IndexFirst /\ LastIsSearched /\ LastIsTyped)'
    BY <2>1 DEF IInv, TypeOK, IndexFirst, LastIsSearched, LastIsTyped
  <2>4. (HighlightIsListed /\ RememberedIsOpen)'
    BY <1>2 DEF IInv, HighlightIsListed, RememberedIsOpen
  <2> QED
    BY <2>2, <2>3, <2>4 DEF IInv
<1> QED
  BY <1>3, <1>4

\* Enter, now or after its delay, and Escape.
LEMMA LeavingKeeps ==
  ASSUME IInv, EnterIsDue \/ PressEnter \/ PressEscape
  PROVE  IInv'
<1>1. /\ current \in Results \cup {NoResult}
      /\ enters \in Nat /\ due \in Nat /\ enters + due <= MaxEnters
      /\ pressed \in Keys \cup {NoKey} /\ focus \in {"input", "sidebar", "page"}
  BY DocPageAssumption DEF IInv, TypeOK, EntersFit
<1>2. CASE OpenElsewhere
  BY <1>1, <1>2, LoadPageKeeps DEF OpenElsewhere
<1>3. CASE due > 0 /\ OpenHere /\ due' = due - 1 /\ UNCHANGED <<enters, keyboard>>
  <2>1. enters' \in Nat /\ due' \in Nat /\ enters' + due' <= MaxEnters
    <3>1. due - 1 \in Nat /\ enters + (due - 1) <= MaxEnters
      BY <1>1, <1>3, DocPageAssumption
    <3> QED
      BY <1>1, <1>3, <3>1
  <2> QED
    BY <1>1, <1>3, <2>1, HidingKeeps DEF OpenHere, keyboard
<1>4. CASE OpenHere /\ pressed' = "Enter" /\ UNCHANGED <<waiting, focus>>
  <2>1. pressed' \in Keys
    BY <1>4 DEF Keys
  <2> QED
    BY <1>1, <1>4, <2>1, HidingKeeps DEF OpenHere, waiting
<1>5. CASE PressEscape
  <2>1. pressed' \in Keys
    BY <1>5 DEF Keys, PressEscape
  <2> QED
    BY <1>1, <1>5, <2>1, HidingKeeps DEF PressEscape, waiting
<1> QED
  BY <1>2, <1>3, <1>4, <1>5 DEF EnterIsDue, PressEnter

\* The other keys.
LEMMA KeysKeep ==
  ASSUME IInv,
         \/ PressEnterEarly
         \/ \E key \in {"ArrowUp", "ArrowDown"} : PressArrow(key)
         \/ \E key \in Shortcuts \cup {NoKey}, new \in Inputs : Type(key, new)
         \/ \E key \in Keys : PressElsewhere(key)
         \/ ReleaseInInput \/ ReleaseElsewhere
  PROVE  IInv'
<1>1. /\ text \in Inputs /\ debounce \in BOOLEAN /\ performing \in BOOLEAN
      /\ focus \in {"input", "sidebar", "page"} /\ modal \in BOOLEAN
      /\ pressed \in Keys \cup {NoKey} /\ listed \in Queries \cup {NoText}
      /\ TypeOK
  BY DEF IInv, TypeOK
<1>2. enters \in Nat /\ due \in Nat /\ enters + due <= MaxEnters
  BY DocPageAssumption DEF IInv, TypeOK, EntersFit
<1> USE DEF search, waiting
<1>3. CASE PressEnterEarly
  <2>1. enters' \in Nat /\ enters' + due <= MaxEnters
    <3>1. enters + 1 \in Nat /\ (enters + 1) + due <= MaxEnters
      BY <1>2, <1>3, DocPageAssumption DEF PressEnterEarly
    <3> QED
      BY <1>3, <3>1 DEF PressEnterEarly
  <2>2. pressed' \in Keys
    BY <1>3 DEF PressEnterEarly, Keys
  <2> QED
    BY <1>1, <1>3, <2>1, <2>2, CurrentIs, TypingKeeps DEF PressEnterEarly
<1>4. ASSUME NEW key \in {"ArrowUp", "ArrowDown"}, PressArrow(key)
      PROVE  IInv'
  <2>1. /\ current' \in Results \cup {NoResult}
        /\ current' # NoResult =>
             listed # NoText /\ (current'[1] = listed \/ Hits[listed] = 0)
    BY <1>1, <1>4, MovedIs DEF PressArrow, IInv
  <2>2. pressed' \in Keys
    BY <1>4 DEF PressArrow, Keys
  <2> QED
    BY <1>1, <1>2, <1>4, <2>1, <2>2, TypingKeeps DEF PressArrow
<1>5. ASSUME NEW key \in Shortcuts \cup {NoKey}, NEW new \in Inputs, Type(key, new)
      PROVE  IInv'
  <2>1. pressed' \in Keys \cup {NoKey}
    BY <1>5 DEF Type, Keys
  <2> QED
    BY <1>1, <1>2, <1>5, <2>1, CurrentIs, TypingKeeps DEF Type, PerformSearch
<1>6. ASSUME NEW key \in Keys, PressElsewhere(key)
      PROVE  IInv'
  BY <1>1, <1>2, <1>6, CurrentIs, TypingKeeps DEF PressElsewhere
<1>7. CASE ReleaseInInput
  BY <1>1, <1>2, <1>7, CurrentIs, TypingKeeps DEF ReleaseInInput, PerformSearch
<1>8. CASE ReleaseElsewhere
  <2>1. /\ current' \in Results \cup {NoResult}
        /\ current' # NoResult =>
             listed # NoText /\ (current'[1] = listed \/ Hits[listed] = 0)
    BY <1>1, <1>8, CurrentIs, FirstOfIs DEF ReleaseElsewhere
  <2>2. /\ focus' \in {"input", "sidebar", "page"} /\ modal' \in BOOLEAN
        /\ debounce' \in BOOLEAN /\ performing' \in BOOLEAN
        /\ debounce => debounce'
    BY <1>1, <1>8 DEF ReleaseElsewhere, PerformSearch
  <2> QED
    BY <1>1, <1>2, <1>8, <2>1, <2>2, TypingKeeps DEF ReleaseElsewhere
<1> QED
  BY <1>3, <1>4, <1>5, <1>6, <1>7, <1>8

\* The mouse.
LEMMA MouseKeeps ==
  ASSUME IInv, Mouse
  PROVE  IInv'
<1> USE DEF search, index, waiting, results, keyboard, types
<1>1. \A r \in Results : r \in Results \cup {NoResult}
  OBVIOUS
<1>2. ASSUME NEW result \in Results, ClickResult(result), LoadPage
      PROVE  IInv'
  BY <1>2, LoadPageKeeps DEF ClickResult
<1>3. CASE ClickLink
  BY <1>3, LoadPageKeeps DEF ClickLink, IInv, TypeOK
<1>4. ASSUME UNCHANGED <<search, index, waiting, results, current, savedText>>,
             pressed' = pressed, focus' \in {"input", "sidebar", "page"},
             modal' \in BOOLEAN,
             openTypes' \subseteq Parents, savedTypes' \subseteq openTypes'
      PROVE  IInv'
  <2>1. (TypeOK /\ EntersFit)'
    BY <1>4 DEF IInv, TypeOK, EntersFit
  <2>2. (IndexFirst /\ LastIsSearched /\ LastIsTyped)'
    BY <1>4 DEF IInv, IndexFirst, LastIsSearched, LastIsTyped
  <2>3. (HighlightIsListed /\ RememberedIsOpen)'
    BY <1>4 DEF IInv, HighlightIsListed, Attached, RememberedIsOpen
  <2> QED
    BY <2>1, <2>2, <2>3 DEF IInv
<1>5. /\ modal \in BOOLEAN
      /\ focus \in {"input", "sidebar", "page"}
      /\ openTypes \subseteq Parents /\ savedTypes \subseteq openTypes
  BY DEF IInv, TypeOK, RememberedIsOpen
<1>6. ASSUME NEW result \in Results, ClickResult(result), ~LoadPage
      PROVE  IInv'
  BY <1>4, <1>5, <1>6 DEF ClickResult, vars, keyboard, types
<1>7. ASSUME NEW place \in {"input", "sidebar", "page"}, MoveFocus(place)
      PROVE  IInv'
  BY <1>4, <1>5, <1>7 DEF MoveFocus
<1>8. CASE CloseModal
  BY <1>4, <1>5, <1>8 DEF CloseModal
<1>9. ASSUME NEW p \in Parents, ToggleType(p)
      PROVE  IInv'
  <2>1. openTypes' \subseteq Parents /\ savedTypes' \subseteq openTypes'
    BY <1>5, <1>9 DEF ToggleType
  <2> QED
    BY <1>4, <1>5, <1>9, <2>1 DEF ToggleType
<1> QED
  BY <1>2, <1>3, <1>6, <1>7, <1>8, <1>9 DEF Mouse

LEMMA StutterKeeps ==
  ASSUME IInv, UNCHANGED vars
  PROVE  IInv'
<1> USE DEF vars, search, index, waiting, results, keyboard, types
<1>1. (TypeOK /\ EntersFit)'
  BY DEF IInv, TypeOK, EntersFit
<1>2. (IndexFirst /\ LastIsSearched /\ LastIsTyped)'
  BY DEF IInv, IndexFirst, LastIsSearched, LastIsTyped
<1>3. (HighlightIsListed /\ RememberedIsOpen)'
  BY DEF IInv, HighlightIsListed, Attached, RememberedIsOpen
<1> QED
  BY <1>1, <1>2, <1>3 DEF IInv

\* Every event handler keeps the invariant.
THEOREM PageInvariance == Spec => []IInv
<1>1. IInv /\ [Next]_vars => IInv'
  <2> SUFFICES ASSUME IInv, [Next]_vars
               PROVE  IInv'
    OBVIOUS
  <2> QED
    BY DebounceKeeps, LoadIndexKeeps, LeavingKeeps, KeysKeep, MouseKeeps, StutterKeeps
    DEF Next, Press
<1> QED
  BY InitIsInv, <1>1, PTL DEF Spec

-----------------------------------------------------------------------------

\* Every variable keeps its type: in particular the highlight never leaves the
\* list, and the counters of Enter keys never exceed their bound.
THEOREM PageTypeCorrect == Spec => []TypeOK
BY PageInvariance, PTL DEF IInv

\* Once the delay is over, the list that is shown is the one of the text in the
\* box, whatever is typed and searched while the index is on its way.
THEOREM ListIsTheTyped == Spec => []ListedIsTyped
<1>1. IInv => ListedIsTyped
  BY DEF IInv, TypeOK, Inputs, IndexFirst, LastIsSearched, LastIsTyped, ListedIsTyped
<1> QED
  BY <1>1, PageInvariance, PTL

\* The next page starts with the text of this one.
THEOREM TextIsSaved == Spec => []SavedIsTyped
<1>1. IInv => SavedIsTyped
  BY DEF IInv, LastIsTyped, SavedIsTyped
<1> QED
  BY <1>1, PageInvariance, PTL

\* The highlight is in the list that is shown, unless that list is empty.
THEOREM HighlightStaysListed == Spec => []HighlightIsListed
BY PageInvariance, PTL DEF IInv

\* A parent that sessionStorage remembers is open, on this page and on the next
\* ones (the click on a parent in the list, and the loop that opens them again).
THEOREM OpenTypesStay == Spec => []RememberedIsOpen
BY PageInvariance, PTL DEF IInv

-----------------------------------------------------------------------------
(***************************************************************************)
(* The comparison of search results.                                       *)
(***************************************************************************)

\* "less than" on the naturals as a relation.
LEMMA LessIsWellFounded ==
  \E R : IsWellFoundedOn(R, Nat) /\ \A m, n \in Nat : m < n => <<m, n>> \in R
<1>1. \A m, n \in Nat : m < n => <<m, n>> \in OpToRel(<, Nat)
  BY DEF OpToRel
<1> QED
  BY <1>1, NatLessThanWellFounded

\* A set of numbers that is not empty has a smallest one.
LEMMA SmallestIs ==
  ASSUME NEW S, S \subseteq Nat, S # {}
  PROVE  Smallest(S) \in S /\ \A m \in S : Smallest(S) <= m
<1>1. PICK R : IsWellFoundedOn(R, Nat) /\ \A m, n \in Nat : m < n => <<m, n>> \in R
  BY LessIsWellFounded
<1>2. IsWellFoundedOn(R, Nat)
  BY <1>1
<1>3. \E n \in S : \A m \in S : ~(<<m, n>> \in R)
  BY <1>2, WFMin, Zenon
<1>4. PICK n \in S : \A m \in S : ~(<<m, n>> \in R)
  BY <1>3
<1>5. ASSUME NEW m \in S
      PROVE  n <= m
  <2>1. m \in Nat /\ n \in Nat
    OBVIOUS
  <2>2. ~(m < n)
    BY <1>1, <1>4, <2>1, Zenon
  <2> QED
    BY <2>1, <2>2
<1>6. \E k \in S : \A m \in S : k <= m
  BY <1>5
<1> QED
  BY <1>6 DEF Smallest

\* A chain of comparisons turns round when each of them does.
LEMMA FirstSignTurns ==
  ASSUME NEW n \in Nat, NEW s \in [1..n -> Int], NEW t \in [1..n -> Int],
         \A i \in 1..n : t[i] = -s[i]
  PROVE  FirstSign(s) \in Int /\ FirstSign(t) = -FirstSign(s)
<1> DEFINE told == {i \in 1..n : s[i] # 0}
<1>1. told = {i \in 1..n : t[i] # 0}
  OBVIOUS
<1>2. DOMAIN s = 1..n /\ DOMAIN t = 1..n
  OBVIOUS
<1>3. /\ FirstSign(s) = IF told = {} THEN 0 ELSE s[Smallest(told)]
      /\ FirstSign(t) = IF told = {} THEN 0 ELSE t[Smallest(told)]
  BY <1>1, <1>2 DEF FirstSign
<1>4. told \subseteq 1..n /\ told \subseteq Nat
  OBVIOUS
<1>5. told # {} => Smallest(told) \in told
  BY <1>4, SmallestIs
<1>6. ASSUME NEW i \in 1..n
      PROVE  s[i] \in Int /\ t[i] = -s[i]
  OBVIOUS
<1>7. CASE told = {}
  <2>1. FirstSign(s) = 0 /\ FirstSign(t) = 0
    BY <1>3, <1>7, Zenon
  <2>2. FirstSign(s) \in Int /\ FirstSign(t) \in Int /\ FirstSign(s) + FirstSign(t) = 0
    BY <2>1
  <2>3. \A x, y \in Int : x + y = 0 => y = -x
    OBVIOUS
  <2> QED
    BY <2>2, <2>3, Zenon
<1>8. CASE told # {}
  <2>1. Smallest(told) \in 1..n
    BY <1>4, <1>5, <1>8, Zenon
  <2>2. FirstSign(s) = s[Smallest(told)] /\ FirstSign(t) = t[Smallest(told)]
    BY <1>3, <1>8, Zenon
  <2>3. s[Smallest(told)] \in Int /\ t[Smallest(told)] = -s[Smallest(told)]
    BY <1>6, <2>1, Zenon
  <2> HIDE DEF told
  <2> QED
    BY <2>2, <2>3
<1> QED
  BY <1>7, <1>8

\* indexOf is a position or 0.
LEMMA IndexOfIs ==
  ASSUME NEW str \in Texts, NEW part \in Texts
  PROVE  IndexOf(str, part) \in Nat
<1> DEFINE at == {i \in 1..(Len(str) + 1 - Len(part)) :
                    SubSeq(str, i, i + Len(part) - 1) = part}
<1>1. Len(str) + 1 - Len(part) \in Int
  BY DEF Texts
<1>2. at \subseteq Nat
  BY <1>1
<1>3. IndexOf(str, part) = IF at = {} THEN 0 ELSE Smallest(at)
  BY DEF IndexOf
<1>4. at # {} => Smallest(at) \in at
  BY <1>2, SmallestIs
<1>5. CASE at = {}
  <2>1. IndexOf(str, part) = 0
    BY <1>3, <1>5, Zenon
  <2> QED
    BY <2>1
<1>6. CASE at # {}
  BY <1>2, <1>3, <1>4, <1>6, Zenon
<1> QED
  BY <1>5, <1>6

LEMMA StripColonsIs ==
  ASSUME NEW term \in Texts, term # <<>>
  PROVE  StripColons(term) \in Texts
<1> DEFINE n == Len(term)
           Colons(i, j) == IF term[i] # ":" THEN 0
                           ELSE IF n > 1 /\ term[j] = ":" THEN 2 ELSE 1
<1>1. n \in Nat \ {0}
  BY DEF Texts
<1>2. /\ Colons(1, 2) \in 0..2 /\ Colons(n, n - 1) \in 0..2
      /\ Colons(1, 2) <= n /\ Colons(n, n - 1) <= n
  BY <1>1
<1>3. StripColons(term) = IF term[1] = ":" THEN SubSeq(term, Colons(1, 2) + 1, n)
                          ELSE SubSeq(term, 1, n - Colons(n, n - 1))
  BY DEF StripColons
<1> HIDE DEF Colons
<1>4. SubSeq(term, Colons(1, 2) + 1, n) \in Seq(Tokens)
  BY <1>1, <1>2, SubSeqProperties DEF Texts
<1>5. SubSeq(term, 1, n - Colons(n, n - 1)) \in Seq(Tokens)
  BY <1>1, <1>2, SubSeqProperties DEF Texts
<1> QED
  BY <1>3, <1>4, <1>5 DEF Texts

LEMMA RankedNameIs ==
  ASSUME NEW r, IsResult(r)
  PROVE  RankedName(r) \in Texts
<1> DEFINE prefix == IF r.kind = "instance_method" THEN <<"#">>
                     ELSE IF r.kind \in Methods THEN <<".">> ELSE <<>>
           name == IF r.kind = "type" THEN r.full_name ELSE r.name
<1>1. prefix \in Seq(Tokens) /\ name \in Seq(Tokens)
  BY RankingAssumption DEF IsResult, Texts, Modifiers
<1>2. prefix \o name \in Seq(Tokens)
  BY <1>1
<1>3. ASSUME NEW str \in Seq(Tokens)
      PROVE  Lower(str) \in Seq(Tokens)
  BY <1>3, RankingAssumption DEF Lower
<1>4. RankedName(r) = Lower(prefix \o name)
  BY DEF RankedName
<1> QED
  BY <1>2, <1>3, <1>4 DEF Texts

-----------------------------------------------------------------------------
(***************************************************************************)
(* Each comparison of the chain turns round when its results are swapped.  *)
(***************************************************************************)

LEMMA ByPositionTurns ==
  ASSUME NEW p \in Nat, NEW q \in Nat
  PROVE  ByPosition(p, q) \in Int /\ ByPosition(q, p) = -ByPosition(p, q)
BY DEF ByPosition, Sign

LEMMA ByNamesTurns ==
  ASSUME NEW a, NEW b, IsResult(a), IsResult(b),
         NEW typed \in Seq(Texts \ {<<>>})
  PROVE  /\ ByNames(a, b, typed) \in Int
         /\ ByNames(b, a, typed) = -ByNames(a, b, typed)
<1> DEFINE P(r, i) == IndexOf(RankedName(r), StripColons(typed[i]))
           n == Len(typed)
           s == [i \in 1..n |-> IF ~IsTerm(typed[i]) THEN 0 ELSE ByPosition(P(a, i), P(b, i))]
           t == [i \in 1..n |-> IF ~IsTerm(typed[i]) THEN 0 ELSE ByPosition(P(b, i), P(a, i))]
<1>1. n \in Nat /\ \A i \in 1..n : typed[i] \in Texts /\ typed[i] # <<>>
  OBVIOUS
<1>2. \A i \in 1..n : P(a, i) \in Nat /\ P(b, i) \in Nat
  BY <1>1, StripColonsIs, RankedNameIs, IndexOfIs
<1>3. ByNames(a, b, typed) = FirstSign(s) /\ ByNames(b, a, typed) = FirstSign(t)
  BY DEF ByNames
<1> HIDE DEF P, n
<1>4. ASSUME NEW i \in 1..n
      PROVE  /\ ByPosition(P(a, i), P(b, i)) \in Int
             /\ ByPosition(P(b, i), P(a, i)) = -ByPosition(P(a, i), P(b, i))
  BY <1>2, ByPositionTurns
<1>5. /\ s \in [1..n -> Int] /\ t \in [1..n -> Int]
      /\ \A i \in 1..n : t[i] = -s[i]
  BY <1>4
<1> HIDE DEF s, t
<1> QED
  BY <1>1, <1>3, <1>5, FirstSignTurns

LEMMA ByArgsTurns ==
  ASSUME NEW a, NEW b, IsResult(a), IsResult(b),
         NEW typed \in Seq(Texts \ {<<>>})
  PROVE  /\ ByArgs(a, b, typed) \in Int
         /\ ByArgs(b, a, typed) = -ByArgs(a, b, typed)
<1> DEFINE P(r, i) == IndexOf(r.args, typed[i])
           n == Len(typed)
           s == [i \in 1..n |-> IF ~IsTerm(typed[i]) THEN 0 ELSE ByPosition(P(a, i), P(b, i))]
           t == [i \in 1..n |-> IF ~IsTerm(typed[i]) THEN 0 ELSE ByPosition(P(b, i), P(a, i))]
<1>1. n \in Nat /\ \A i \in 1..n : typed[i] \in Texts
  OBVIOUS
<1>2. \A i \in 1..n : P(a, i) \in Nat /\ P(b, i) \in Nat
  BY <1>1, IndexOfIs DEF IsResult
<1>3. ByArgs(a, b, typed) = FirstSign(s) /\ ByArgs(b, a, typed) = FirstSign(t)
  BY DEF ByArgs
<1> HIDE DEF P, n
<1>4. ASSUME NEW i \in 1..n
      PROVE  /\ ByPosition(P(a, i), P(b, i)) \in Int
             /\ ByPosition(P(b, i), P(a, i)) = -ByPosition(P(a, i), P(b, i))
  BY <1>2, ByPositionTurns
<1>5. /\ s \in [1..n -> Int] /\ t \in [1..n -> Int]
      /\ \A i \in 1..n : t[i] = -s[i]
  BY <1>4
<1> HIDE DEF s, t
<1> QED
  BY <1>1, <1>3, <1>5, FirstSignTurns

LEMMA ByCountTurns ==
  ASSUME NEW m \in Int, NEW n \in Int
  PROVE  Sign(m - n) \in Int /\ Sign(n - m) = -Sign(m - n)
BY DEF Sign

-----------------------------------------------------------------------------

\* Swapping two results turns their comparison round, unless exactly one of
\* them is a type: then the comparator may send each of them behind the other,
\* because it asks the same one twice for its documentation.
THEOREM ComparisonTurns ==
  ASSUME NEW a, NEW b, IsResult(a), IsResult(b),
         a.kind = "type" <=> b.kind = "type",
         NEW typed \in Seq(Texts \ {<<>>})
  PROVE  Compare(b, a, typed) = -Compare(a, b, typed)
<1>1. ByKind(a, b) \in Int /\ ByKind(b, a) = -ByKind(a, b)
  BY DEF ByKind
<1>2. ByNamed(a, b) \in Int /\ ByNamed(b, a) = -ByNamed(a, b)
  BY DEF ByNamed, Sign
<1>3. /\ ByNames(a, b, typed) \in Int
      /\ ByNames(b, a, typed) = -ByNames(a, b, typed)
  BY ByNamesTurns
<1>4. /\ Sign(Cardinality(b.terms) - Cardinality(a.terms)) \in Int
      /\ Sign(Cardinality(a.terms) - Cardinality(b.terms))
           = -Sign(Cardinality(b.terms) - Cardinality(a.terms))
  <2>1. Cardinality(a.terms) \in Int /\ Cardinality(b.terms) \in Int
    BY FS_CardinalityType DEF IsResult
  <2> QED
    BY <2>1, ByCountTurns
<1>5. /\ Sign(Cardinality(b.fields) - Cardinality(a.fields)) \in Int
      /\ Sign(Cardinality(a.fields) - Cardinality(b.fields))
           = -Sign(Cardinality(b.fields) - Cardinality(a.fields))
  <2>1. Cardinality(a.fields) \in Int /\ Cardinality(b.fields) \in Int
    BY FS_CardinalityType DEF IsResult
  <2> QED
    BY <2>1, ByCountTurns
<1>6. /\ Sign(Collation[a.name] - Collation[b.name]) \in Int
      /\ Sign(Collation[b.name] - Collation[a.name])
           = -Sign(Collation[a.name] - Collation[b.name])
  <2>1. Collation[a.name] \in Int /\ Collation[b.name] \in Int
    BY RankingAssumption, Zenon DEF IsResult
  <2> QED
    BY <2>1, ByCountTurns
<1>7. /\ ByArgs(a, b, typed) \in Int
      /\ ByArgs(b, a, typed) = -ByArgs(a, b, typed)
  BY ByArgsTurns
<1> DEFINE names == IF Matched(a, "name") /\ Matched(b, "name")
                    THEN ByNames(a, b, typed) ELSE 0
           names2 == IF Matched(b, "name") /\ Matched(a, "name")
                     THEN ByNames(b, a, typed) ELSE 0
           args == IF Matched(a, "args") /\ Matched(b, "args")
                   THEN ByArgs(a, b, typed) ELSE 0
           args2 == IF Matched(b, "args") /\ Matched(a, "args")
                    THEN ByArgs(b, a, typed) ELSE 0
           kind1 == ByKind(a, b)
           named1 == ByNamed(a, b)
           terms1 == Sign(Cardinality(b.terms) - Cardinality(a.terms))
           fields1 == Sign(Cardinality(b.fields) - Cardinality(a.fields))
           names1 == Sign(Collation[a.name] - Collation[b.name])
<1>8. names \in Int /\ names2 = -names /\ args \in Int /\ args2 = -args
  BY <1>3, <1>7
<1>9. /\ Compare(a, b, typed)
           = FirstSign(<<kind1, named1, names, terms1, fields1, names1, args>>)
      /\ Compare(b, a, typed)
           = FirstSign(<<-kind1, -named1, -names, -terms1, -fields1, -names1, -args>>)
  <2>1. Compare(a, b, typed)
          = FirstSign(<<kind1, named1, names, terms1, fields1, names1, args>>)
    BY DEF Compare
  <2>2. Compare(b, a, typed)
          = FirstSign(<<ByKind(b, a), ByNamed(b, a), names2,
                        Sign(Cardinality(a.terms) - Cardinality(b.terms)),
                        Sign(Cardinality(a.fields) - Cardinality(b.fields)),
                        Sign(Collation[b.name] - Collation[a.name]), args2>>)
    BY DEF Compare
  <2> HIDE DEF names, names2, args, args2
  <2> QED
    BY <1>1, <1>2, <1>4, <1>5, <1>6, <1>8, <2>1, <2>2, Zenon
<1>10. /\ kind1 \in Int /\ named1 \in Int /\ names \in Int /\ terms1 \in Int
       /\ fields1 \in Int /\ names1 \in Int /\ args \in Int
  BY <1>1, <1>2, <1>4, <1>5, <1>6, <1>8
<1> HIDE DEF kind1, named1, names, terms1, fields1, names1, args
<1> DEFINE s == <<kind1, named1, names, terms1, fields1, names1, args>>
           t == <<-kind1, -named1, -names, -terms1, -fields1, -names1, -args>>
<1>11. \A i \in 1..7 : i = 1 \/ i = 2 \/ i = 3 \/ i = 4 \/ i = 5 \/ i = 6 \/ i = 7
  OBVIOUS
<1>12. /\ s = [i \in 1..7 |-> s[i]]
       /\ t = [i \in 1..7 |-> t[i]]
  BY SMT
<1>13. /\ s[1] \in Int /\ s[2] \in Int /\ s[3] \in Int /\ s[4] \in Int
       /\ s[5] \in Int /\ s[6] \in Int /\ s[7] \in Int
  BY <1>10, Zenon
<1>14. /\ t[1] = -s[1] /\ t[2] = -s[2] /\ t[3] = -s[3] /\ t[4] = -s[4]
       /\ t[5] = -s[5] /\ t[6] = -s[6] /\ t[7] = -s[7]
  BY Zenon
<1> HIDE DEF s, t
<1>15. \A i \in 1..7 : s[i] \in Int /\ t[i] = -s[i]
  BY <1>11, <1>13, <1>14, Zenon
<1>16. \A n \in Int : -n \in Int
  OBVIOUS
<1>17. s \in [1..7 -> Int] /\ t \in [1..7 -> Int]
  BY <1>12, <1>15, <1>16, Zenon
<1>18. FirstSign(t) = -FirstSign(s)
  BY <1>15, <1>17, FirstSignTurns
<1> QED
  BY <1>9, <1>18, Zenon DEF s, t

-----------------------------------------------------------------------------
(***************************************************************************)
(* Texts, and where a part of one is found.                                *)
(***************************************************************************)

\* Lower case keeps the length of a text and its modifiers, and stays as it is.
LEMMA LowerIs ==
  ASSUME NEW str \in Texts
  PROVE  /\ Lower(str) \in Texts /\ Len(Lower(str)) = Len(str)
         /\ \A i \in 1..Len(str) :
              /\ Lower(str)[i] = LowerOf[str[i]]
              /\ \A m \in Modifiers : Lower(str)[i] = m <=> str[i] = m
         /\ Lower(Lower(str)) = Lower(str)
<1>1. Len(str) \in Nat /\ \A i \in 1..Len(str) : str[i] \in Tokens
  BY DEF Texts
<1>2. /\ LowerOf \in [Tokens -> Tokens] /\ Modifiers \subseteq Tokens
      /\ \A t \in Tokens : LowerOf[LowerOf[t]] = LowerOf[t]
      /\ \A t \in Tokens : t \in Modifiers \/ LowerOf[t] \in Modifiers => LowerOf[t] = t
  BY RankingAssumption
<1>3. \A i \in 1..Len(str) : LowerOf[str[i]] \in Tokens
  BY <1>1, <1>2
<1>4. Lower(str) = [i \in 1..Len(str) |-> LowerOf[str[i]]]
  BY DEF Lower
<1>5. Lower(str) \in Seq(Tokens) /\ Len(Lower(str)) = Len(str)
  BY <1>1, <1>3, <1>4
<1>6. ASSUME NEW i \in 1..Len(str)
      PROVE  /\ Lower(str)[i] = LowerOf[str[i]]
             /\ \A m \in Modifiers : Lower(str)[i] = m <=> str[i] = m
  BY <1>1, <1>2, <1>4
<1>7. Lower(Lower(str)) = [i \in 1..Len(str) |-> LowerOf[LowerOf[str[i]]]]
  BY <1>5, <1>6 DEF Lower
<1>8. Lower(Lower(str)) = Lower(str)
  BY <1>1, <1>2, <1>4, <1>7
<1> QED
  BY <1>5, <1>6, <1>8 DEF Texts

\* A part that is there is found, there or before.
LEMMA IndexOfOccurs ==
  ASSUME NEW str \in Texts, NEW part \in Texts,
         NEW i \in 1..(Len(str) + 1 - Len(part)),
         SubSeq(str, i, i + Len(part) - 1) = part
  PROVE  IndexOf(str, part) \in 1..i
<1> DEFINE at == {k \in 1..(Len(str) + 1 - Len(part)) :
                    SubSeq(str, k, k + Len(part) - 1) = part}
<1>1. Len(str) \in Nat /\ Len(part) \in Nat
  BY DEF Texts
<1>2. at \subseteq Nat /\ at \subseteq 1..(Len(str) + 1 - Len(part)) /\ i \in at
  BY <1>1
<1>3. Smallest(at) \in at /\ Smallest(at) <= i
  <2> HIDE DEF at
  <2>1. at # {}
    BY <1>2
  <2> QED
    BY <1>2, <2>1, SmallestIs
<1>4. IndexOf(str, part) = Smallest(at)
  <2>1. IndexOf(str, part) = IF at = {} THEN 0 ELSE Smallest(at)
    BY DEF IndexOf
  <2> QED
    BY <1>2, <2>1
<1>5. Smallest(at) \in Nat \ {0}
  <2>1. at \subseteq Nat \ {0}
    OBVIOUS
  <2> HIDE DEF at
  <2> QED
    BY <1>3, <2>1
<1> HIDE DEF at
<1> QED
  BY <1>3, <1>4, <1>5

\* Where a part is found it is.
LEMMA IndexOfFinds ==
  ASSUME NEW str \in Texts, NEW part \in Texts, IndexOf(str, part) # 0
  PROVE  LET at == IndexOf(str, part)
         IN  /\ at \in 1..(Len(str) + 1 - Len(part))
             /\ SubSeq(str, at, at + Len(part) - 1) = part
<1> DEFINE at == {k \in 1..(Len(str) + 1 - Len(part)) :
                    SubSeq(str, k, k + Len(part) - 1) = part}
<1>1. Len(str) \in Nat /\ Len(part) \in Nat
  BY DEF Texts
<1>2. at \subseteq Nat
  BY <1>1
<1>3. IndexOf(str, part) = IF at = {} THEN 0 ELSE Smallest(at)
  BY DEF IndexOf
<1>4. at # {} /\ IndexOf(str, part) = Smallest(at)
  BY <1>3
<1>5. Smallest(at) \in at
  <2> HIDE DEF at
  <2> QED
    BY <1>2, <1>4, SmallestIs
<1> QED
  BY <1>4, <1>5

\* A text begins with itself.
LEMMA IndexOfItself ==
  ASSUME NEW str \in Texts
  PROVE  IndexOf(str, str) = 1
<1>1. Len(str) \in Nat /\ SubSeq(str, 1, Len(str)) = str
  BY SubSeqFull DEF Texts
<1>2. IndexOf(str, str) \in 1..1
  BY <1>1, IndexOfOccurs
<1> QED
  BY <1>2

\* A token is found where it is first, or not at all.
LEMMA IndexOfToken ==
  ASSUME NEW str \in Texts, NEW token \in Tokens
  PROVE  /\ (\A i \in 1..Len(str) : str[i] # token) => IndexOf(str, <<token>>) = 0
         /\ \A i \in 1..Len(str) : str[i] = token =>
              /\ IndexOf(str, <<token>>) \in 1..i
              /\ (\A j \in 1..(i - 1) : str[j] # token) => IndexOf(str, <<token>>) = i
<1>1. Len(str) \in Nat /\ <<token>> \in Texts /\ Len(<<token>>) = 1
  BY DEF Texts
<1>2. ASSUME NEW i \in 1..Len(str)
      PROVE  SubSeq(str, i, i + Len(<<token>>) - 1) = <<token>> <=> str[i] = token
  <2>1. str[i] \in Tokens /\ i \in Int
    BY DEF Texts
  <2>2. /\ SubSeq(str, i, i) \in Seq(Tokens) /\ Len(SubSeq(str, i, i)) = 1
        /\ SubSeq(str, i, i)[1] = str[i]
    BY <2>1, SubSeqProperties
  <2>3. ASSUME str[i] = token
        PROVE  SubSeq(str, i, i) = <<token>>
    <3>1. <<token>> \in Seq(Tokens) /\ <<token>>[1] = token
      OBVIOUS
    <3>2. \A j \in 1..Len(SubSeq(str, i, i)) : SubSeq(str, i, i)[j] = <<token>>[j]
      BY <2>2, <2>3, <3>1
    <3> QED
      BY <1>1, <2>2, <3>1, <3>2, SeqEqual
  <2>4. ASSUME SubSeq(str, i, i) = <<token>>
        PROVE  str[i] = token
    <3>1. <<token>>[1] = token
      OBVIOUS
    <3> QED
      BY <2>2, <2>4, <3>1
  <2> QED
    BY <1>1, <2>1, <2>3, <2>4
<1>3. IndexOf(str, <<token>>) # 0 =>
        /\ IndexOf(str, <<token>>) \in 1..Len(str)
        /\ str[IndexOf(str, <<token>>)] = token
  <2>1. Len(str) + 1 - Len(<<token>>) = Len(str)
    BY <1>1
  <2> QED
    BY <1>1, <1>2, <2>1, IndexOfFinds
<1>4. ASSUME NEW i \in 1..Len(str), str[i] = token
      PROVE  IndexOf(str, <<token>>) \in 1..i
  <2>1. i \in 1..(Len(str) + 1 - Len(<<token>>))
    BY <1>1
  <2> QED
    BY <1>1, <1>2, <1>4, <2>1, IndexOfOccurs
<1>5. ASSUME NEW i \in 1..Len(str), str[i] = token, \A j \in 1..(i - 1) : str[j] # token
      PROVE  IndexOf(str, <<token>>) = i
  <2> DEFINE k == IndexOf(str, <<token>>)
  <2>1. k \in 1..i
    BY <1>4, <1>5
  <2>2. k # 0 /\ str[k] = token
    BY <1>3, <2>1
  <2> HIDE DEF k
  <2>3. k \notin 1..(i - 1)
    BY <1>5, <2>2
  <2>4. k = i
    BY <1>1, <2>1, <2>3
  <2> QED
    BY <2>4 DEF k
<1> QED
  BY <1>3, <1>4, <1>5

-----------------------------------------------------------------------------
(***************************************************************************)
(* What is found at a place.                                               *)
(***************************************************************************)

\* What SearchAssumption says of a place.
LEMMA PlaceIs ==
  ASSUME NEW p \in Places
  PROVE  LET type == Index[p[1]]
         IN  /\ p[1] \in 1..Len(Index) /\ p[2] \in 0..Len(type.members)
             /\ type.full_name \in Texts /\ type.doc \in Texts
             /\ IsName(type.full_name) /\ IsName(TypeName(type))
             /\ TypeName(type) \in Names
             /\ p[2] # 0 => /\ type.members[p[2]] \in Members
                            /\ IsName(type.members[p[2]].name)
<1> DEFINE i == p[1]
           j == p[2]
           type == Index[i]
<1>1. i \in 1..Len(Index) /\ j \in 0..Len(Index[i].members)
  BY DEF Places
<1>2. type \in [full_name : Texts, doc : Texts, members : Seq(Members)]
  BY <1>1, SearchAssumption, ElementOfSeq
<1>3. type.full_name \in Texts /\ type.doc \in Texts /\ type.members \in Seq(Members)
  BY <1>2
<1>4. /\ IsName(type.full_name)
      /\ TypeName(type) \in Names /\ IsName(TypeName(type))
      /\ \A k \in 1..Len(type.members) : IsName(type.members[k].name)
  BY <1>1, SearchAssumption
<1>5. ASSUME j # 0
      PROVE  type.members[j] \in Members /\ IsName(type.members[j].name)
  <2>1. Len(type.members) \in Nat
    BY <1>3, LenProperties
  <2>2. j \in 1..Len(type.members)
    BY <1>1, <1>5, <2>1
  <2> QED
    BY <1>3, <1>4, <2>2, ElementOfSeq
<1> QED
  BY <1>1, <1>3, <1>4, <1>5

LEMMA FieldsAreFinite == IsFiniteSet(Fields)
<1>1. IsFiniteSet({"name"})
  BY FS_Singleton
<1>2. IsFiniteSet({"name"} \cup {"args"})
  BY <1>1, FS_AddElement
<1>3. IsFiniteSet(({"name"} \cup {"args"}) \cup {"doc"})
  BY <1>2, FS_AddElement
<1>4. IsFiniteSet((({"name"} \cup {"args"}) \cup {"doc"}) \cup {"type"})
  BY <1>3, FS_AddElement
<1>5. Fields = (({"name"} \cup {"args"}) \cup {"doc"}) \cup {"type"}
  BY DEF Fields
<1> QED
  BY <1>4, <1>5

\* A numbered field that matched is a field with a number, and there are as many
\* as were tried at most.
LEMMA FieldsFit ==
  ASSUME NEW tries, NEW n \in Nat,
         \A t \in tries : t[1] \in Fields /\ t[2] \in 0..n
  PROVE  FieldsOf(tries) \subseteq Fields \X Nat /\ IsFiniteSet(FieldsOf(tries))
<1>1. FieldsOf(tries) \subseteq Fields \X (0..n)
  BY DEF FieldsOf
<1>2. IsFiniteSet(0..n)
  BY FS_Interval
<1>3. IsFiniteSet(Fields \X (0..n))
  BY <1>2, FieldsAreFinite, FS_Product
<1>4. 0..n \subseteq Nat
  OBVIOUS
<1> QED
  BY <1>1, <1>3, <1>4, FS_Subset

LEMMA MatchesOfOne ==
  ASSUME NEW field, NEW n, NEW terms
  PROVE  MatchesOf({<<field, n, terms>>}) = terms
<1>1. \A t \in {<<field, n, terms>>} : t[3] = terms
  OBVIOUS
<1>2. {t[3] : t \in {<<field, n, terms>>}} = {terms}
  BY <1>1
<1> QED
  BY <1>2 DEF MatchesOf

LEMMA MatchesOfBoth ==
  ASSUME NEW some, NEW others
  PROVE  MatchesOf(some \cup others) = MatchesOf(some) \cup MatchesOf(others)
BY DEF MatchesOf

\* What is tried of a type, and the terms that match.
LEMMA TypeTerms ==
  ASSUME NEW type, NEW terms
  PROVE  TypeResult(type, terms).terms
           = MatchingText(TypeName(type), terms)
             \cup MatchingNamespace(type.full_name, terms)
             \cup MatchingText(type.doc, terms)
<1> DEFINE a == MatchingText(TypeName(type), terms)
           b == MatchingNamespace(type.full_name, terms)
           c == MatchingText(type.doc, terms)
           tries == {<<"name", 1, a>>, <<"name", 2, b>>, <<"doc", 1, c>>}
<1>1. TypeResult(type, terms).terms = MatchesOf(tries)
  BY DEF TypeResult
<1> HIDE DEF a, b, c
<1>2. MatchesOf(tries) = a \cup b \cup c
  BY DEF MatchesOf
<1> QED
  BY <1>1, <1>2 DEF a, b, c

\* The terms that match a member itself: its name, its arguments and its
\* documentation.
OwnTerms(m, type, terms) ==
  (IF m.kind = "constant" THEN MatchingText(m.name, terms)
   ELSE {t \in terms : InMethod(Lower(m.name), m.kind, type.full_name, t)})
    \cup MatchingText(IF m.kind = "constant" THEN m.doc ELSE type.doc, terms)
    \cup UNION {MatchingText(m.args[i], terms) : i \in DOMAIN m.args}

LEMMA MemberTerms ==
  ASSUME NEW m, NEW type, NEW terms
  PROVE  MemberResult(m, type, terms).terms
           = IF OwnTerms(m, type, terms) = {} THEN {}
             ELSE OwnTerms(m, type, terms) \cup MatchingText(type.full_name, terms)
<1> DEFINE names == IF m.kind = "constant" THEN MatchingText(m.name, terms)
                    ELSE {t \in terms : InMethod(Lower(m.name), m.kind, type.full_name, t)}
           doc == MatchingText(IF m.kind = "constant" THEN m.doc ELSE type.doc, terms)
           args == {<<"args", i, MatchingText(m.args[i], terms)>> : i \in DOMAIN m.args}
           ofType == MatchingText(type.full_name, terms)
           own == {<<"name", 1, names>>, <<"doc", 1, doc>>} \cup args
           tries == IF MatchesOf(own) = {} THEN {} ELSE own \cup {<<"type", 1, ofType>>}
<1>1. MemberResult(m, type, terms).terms = MatchesOf(tries)
  BY DEF MemberResult
<1>2. MatchesOf(args) = UNION {MatchingText(m.args[i], terms) : i \in DOMAIN m.args}
  <2> DEFINE Matching(i) == MatchingText(m.args[i], terms)
  <2> HIDE DEF Matching
  <2>1. {t[3] : t \in {<<"args", i, Matching(i)>> : i \in DOMAIN m.args}}
          = {Matching(i) : i \in DOMAIN m.args}
    <3>1. \A i \in DOMAIN m.args : <<"args", i, Matching(i)>>[3] = Matching(i)
      OBVIOUS
    <3> QED
      BY <3>1
  <2> QED
    BY <2>1 DEF MatchesOf, Matching
<1> HIDE DEF names, doc, args, ofType
<1>3. MatchesOf(own) = names \cup doc \cup MatchesOf(args)
  <2>1. own = ({<<"name", 1, names>>} \cup {<<"doc", 1, doc>>}) \cup args
    OBVIOUS
  <2>2. MatchesOf({<<"name", 1, names>>}) = names
    BY MatchesOfOne
  <2>3. MatchesOf({<<"doc", 1, doc>>}) = doc
    BY MatchesOfOne
  <2>4. MatchesOf({<<"name", 1, names>>} \cup {<<"doc", 1, doc>>})
          = MatchesOf({<<"name", 1, names>>}) \cup MatchesOf({<<"doc", 1, doc>>})
    BY MatchesOfBoth
  <2>5. MatchesOf(own)
          = MatchesOf({<<"name", 1, names>>} \cup {<<"doc", 1, doc>>}) \cup MatchesOf(args)
    BY <2>1, MatchesOfBoth, Zenon
  <2> HIDE DEF own
  <2> QED
    BY <2>2, <2>3, <2>4, <2>5, Zenon
<1> HIDE DEF own
<1>4. MatchesOf(own \cup {<<"type", 1, ofType>>}) = MatchesOf(own) \cup ofType
  <2>1. MatchesOf({<<"type", 1, ofType>>}) = ofType
    BY MatchesOfOne
  <2>2. MatchesOf(own \cup {<<"type", 1, ofType>>})
          = MatchesOf(own) \cup MatchesOf({<<"type", 1, ofType>>})
    BY MatchesOfBoth
  <2> QED
    BY <2>1, <2>2, Zenon
<1>5. MatchesOf({}) = {}
  BY DEF MatchesOf
<1>6. MatchesOf(own) = OwnTerms(m, type, terms)
  BY <1>2, <1>3 DEF OwnTerms, names, doc
<1> QED
  BY <1>1, <1>4, <1>5, <1>6 DEF ofType

\* Terms that match are terms, and a further one takes none away.
LEMMA MatchingGrows ==
  ASSUME NEW field, NEW terms, NEW more, terms \subseteq more
  PROVE  /\ MatchingText(field, terms) \subseteq terms
         /\ MatchingText(field, terms) \subseteq MatchingText(field, more)
         /\ MatchingNamespace(field, terms) \subseteq terms
         /\ MatchingNamespace(field, terms) \subseteq MatchingNamespace(field, more)
BY DEF MatchingText, MatchingNamespace

LEMMA OwnTermsGrow ==
  ASSUME NEW m, NEW type, NEW terms, NEW more, terms \subseteq more
  PROVE  /\ OwnTerms(m, type, terms) \subseteq terms
         /\ OwnTerms(m, type, terms) \subseteq OwnTerms(m, type, more)
<1>1. \A field : /\ MatchingText(field, terms) \subseteq terms
                 /\ MatchingText(field, terms) \subseteq MatchingText(field, more)
  BY MatchingGrows
<1>2. /\ {t \in terms : InMethod(Lower(m.name), m.kind, type.full_name, t)} \subseteq terms
      /\ {t \in terms : InMethod(Lower(m.name), m.kind, type.full_name, t)}
           \subseteq {t \in more : InMethod(Lower(m.name), m.kind, type.full_name, t)}
  OBVIOUS
<1>3. /\ UNION {MatchingText(m.args[i], terms) : i \in DOMAIN m.args} \subseteq terms
      /\ UNION {MatchingText(m.args[i], terms) : i \in DOMAIN m.args}
           \subseteq UNION {MatchingText(m.args[i], more) : i \in DOMAIN m.args}
  BY <1>1
<1> QED
  BY <1>1, <1>2, <1>3 DEF OwnTerms

LEMMA ResultGrows ==
  ASSUME NEW p, NEW terms, NEW more, terms \subseteq more
  PROVE  /\ ResultAt(p, terms).terms \subseteq terms
         /\ ResultAt(p, terms).terms \subseteq ResultAt(p, more).terms
<1> DEFINE type == Index[p[1]]
           m == type.members[p[2]]
<1>1. CASE p[2] = 0
  <2>1. /\ ResultAt(p, terms) = TypeResult(type, terms)
        /\ ResultAt(p, more) = TypeResult(type, more)
    BY <1>1 DEF ResultAt
  <2>2. \A field : /\ MatchingText(field, terms) \subseteq terms
                   /\ MatchingText(field, terms) \subseteq MatchingText(field, more)
                   /\ MatchingNamespace(field, terms) \subseteq terms
                   /\ MatchingNamespace(field, terms) \subseteq MatchingNamespace(field, more)
    BY MatchingGrows
  <2> HIDE DEF type
  <2> QED
    BY <2>1, <2>2, TypeTerms, Zenon
<1>2. CASE p[2] # 0
  <2>1. /\ ResultAt(p, terms) = MemberResult(m, type, terms)
        /\ ResultAt(p, more) = MemberResult(m, type, more)
    BY <1>2 DEF ResultAt
  <2> HIDE DEF type, m
  <2>2. /\ OwnTerms(m, type, terms) \subseteq terms
        /\ OwnTerms(m, type, terms) \subseteq OwnTerms(m, type, more)
    BY OwnTermsGrow
  <2>3. /\ MatchingText(type.full_name, terms) \subseteq terms
        /\ MatchingText(type.full_name, terms) \subseteq MatchingText(type.full_name, more)
    BY MatchingGrows
  <2> QED
    <3>1. OwnTerms(m, type, terms) # {} => OwnTerms(m, type, more) # {}
      BY <2>2
    <3>2. CASE OwnTerms(m, type, terms) = {}
      <4>1. ResultAt(p, terms).terms = {}
        BY <2>1, <3>2, MemberTerms, Zenon
      <4> QED
        BY <4>1
    <3>3. CASE OwnTerms(m, type, terms) # {}
      <4>1. /\ ResultAt(p, terms).terms
                 = OwnTerms(m, type, terms) \cup MatchingText(type.full_name, terms)
            /\ ResultAt(p, more).terms
                 = OwnTerms(m, type, more) \cup MatchingText(type.full_name, more)
        BY <2>1, <3>1, <3>3, MemberTerms, Zenon
      <4> QED
        BY <2>2, <2>3, <4>1
    <3> QED
      BY <3>2, <3>3
<1> QED
  BY <1>1, <1>2

\* What is found is a result as the comparator takes it.
LEMMA ShapeIs ==
  ASSUME NEW p \in Places, NEW terms, IsFiniteSet(terms)
  PROVE  IsResult(ResultAt(p, terms))
<1> DEFINE type == Index[p[1]]
           m == type.members[p[2]]
           result == ResultAt(p, terms)
<1>1. IsFiniteSet(result.terms)
  <2>1. result.terms \subseteq terms
    BY ResultGrows
  <2> HIDE DEF result
  <2> QED
    BY <2>1, FS_Subset
<1>2. CASE p[2] = 0
  <2> DEFINE tries == {<<"name", 1, MatchingText(TypeName(type), terms)>>,
                       <<"name", 2, MatchingNamespace(type.full_name, terms)>>,
                       <<"doc", 1, MatchingText(type.doc, terms)>>}
  <2>1. result = [kind |-> "type", name |-> TypeName(type), full_name |-> type.full_name,
                  args |-> <<>>, fields |-> FieldsOf(tries), terms |-> MatchesOf(tries)]
    BY <1>2 DEF ResultAt, TypeResult
  <2>2. FieldsOf(tries) \subseteq Fields \X Nat /\ IsFiniteSet(FieldsOf(tries))
    <3>1. \A t \in tries : t[1] \in Fields /\ t[2] \in 0..2
      BY DEF Fields
    <3> HIDE DEF tries
    <3> QED
      BY <3>1, FieldsFit
  <2>3. TypeName(type) \in Names /\ type.full_name \in Texts /\ <<>> \in Texts
    BY PlaceIs DEF Texts
  <2>4. "type" \in Kinds
    BY DEF Kinds
  <2> HIDE DEF type, tries
  <2>5. /\ result.kind = "type" /\ result.name = TypeName(type)
        /\ result.full_name = type.full_name /\ result.args = <<>>
        /\ result.fields = FieldsOf(tries)
    BY <2>1
  <2> HIDE DEF result
  <2>6. IsResult(result)
    BY <1>1, <2>2, <2>3, <2>4, <2>5 DEF IsResult
  <2> QED
    BY <2>6 DEF result
<1>3. CASE p[2] # 0
  <2> DEFINE names == IF m.kind = "constant" THEN MatchingText(m.name, terms)
                      ELSE {t \in terms : InMethod(Lower(m.name), m.kind, type.full_name, t)}
             doc == IF m.kind = "constant" THEN m.doc ELSE type.doc
             own == {<<"name", 1, names>>, <<"doc", 1, MatchingText(doc, terms)>>}
                      \cup {<<"args", i, MatchingText(m.args[i], terms)>> : i \in DOMAIN m.args}
             tries == IF MatchesOf(own) = {} THEN {}
                      ELSE own \cup {<<"type", 1, MatchingText(type.full_name, terms)>>}
             full == type.full_name \o <<"#">> \o m.name
  <2>1. result = [kind |-> m.kind, name |-> m.name, full_name |-> full,
                  args |-> m.args_string, fields |-> FieldsOf(tries),
                  terms |-> MatchesOf(tries)]
    BY <1>3 DEF ResultAt, MemberResult
  <2>2. m \in Members /\ type.full_name \in Texts
    BY <1>3, PlaceIs
  <2>3. /\ m.kind \in Kinds /\ m.name \in Names /\ m.args_string \in Texts
        /\ m.args \in Seq(Texts)
    BY <2>2 DEF Members, Kinds
  <2>4. Len(m.args) \in Nat /\ DOMAIN m.args = 1..Len(m.args)
    BY <2>3, LenProperties
  <2>5. FieldsOf(tries) \subseteq Fields \X Nat /\ IsFiniteSet(FieldsOf(tries))
    <3> DEFINE n == Len(m.args) + 1
    <3>1. n \in Nat /\ 1 \in 0..n /\ \A i \in DOMAIN m.args : i \in 0..n
      <4> DEFINE k == Len(m.args)
      <4>1. k \in Nat /\ DOMAIN m.args = 1..k
        BY <2>4
      <4> HIDE DEF k
      <4>2. k + 1 \in Nat /\ 1 \in 0..(k + 1) /\ \A i \in 1..k : i \in 0..(k + 1)
        BY <4>1
      <4> QED
        BY <4>1, <4>2, Zenon DEF k
    <3> HIDE DEF n
    <3>2. \A t \in own \cup {<<"type", 1, MatchingText(type.full_name, terms)>>} :
            t[1] \in Fields /\ t[2] \in 0..n
      <4> HIDE DEF names, doc, m, type
      <4> QED
        BY <3>1 DEF Fields
    <3>3. \A t \in tries : t[1] \in Fields /\ t[2] \in 0..n
      <4> HIDE DEF own
      <4> QED
        BY <3>2
    <3> HIDE DEF tries
    <3> QED
      BY <3>1, <3>3, FieldsFit
  <2>6. full \in Texts
    <3>1. type.full_name \in Seq(Tokens) /\ m.name \in Seq(Tokens) /\ <<"#">> \in Seq(Tokens)
      BY <2>2, <2>3, RankingAssumption DEF Texts, Modifiers
    <3> HIDE DEF type, m
    <3> QED
      BY <3>1, ConcatProperties DEF Texts
  <2> HIDE DEF m, tries, full
  <2>7. /\ result.kind = m.kind /\ result.name = m.name
        /\ result.full_name = full /\ result.args = m.args_string
        /\ result.fields = FieldsOf(tries)
    BY <2>1
  <2> HIDE DEF result
  <2>8. IsResult(result)
    BY <1>1, <2>3, <2>5, <2>6, <2>7 DEF IsResult
  <2> QED
    BY <2>8 DEF result
<1> QED
  BY <1>2, <1>3

-----------------------------------------------------------------------------
(***************************************************************************)
(* The terms of a query, and where they are looked for.                    *)
(***************************************************************************)

\* What a function makes of a finite set is finite.
LEMMA ImageIsFinite ==
  ASSUME NEW S, IsFiniteSet(S), NEW f, DOMAIN f = S, f = [x \in S |-> f[x]]
  PROVE  IsFiniteSet({f[x] : x \in S})
<1>1. f \in Surjection(S, {f[x] : x \in S})
  BY DEF Surjection
<1> QED
  BY <1>1, FS_Surjection

LEMMA PlacesAreFinite == IsFiniteSet(Places)
<1> DEFINE n == Len(Index)
           F == [i \in 1..n |-> {<<i, j>> : j \in 0..Len(Index[i].members)}]
<1>1. n \in Nat
  BY SearchAssumption
<1>2. ASSUME NEW i \in 1..n
      PROVE  IsFiniteSet(F[i])
  <2>1. Index[i] \in [full_name : Texts, doc : Texts, members : Seq(Members)]
    BY SearchAssumption, ElementOfSeq
  <2>2. Len(Index[i].members) \in Nat
    BY <2>1
  <2> DEFINE m == Len(Index[i].members)
             G == [j \in 0..m |-> <<i, j>>]
  <2>3. IsFiniteSet(0..m)
    <3>1. \A k \in Nat : IsFiniteSet(0..k)
      BY FS_Interval
    <3> QED
      BY <2>2, <3>1, Zenon
  <2>4. F[i] = {G[j] : j \in 0..m}
    OBVIOUS
  <2>5. IsFiniteSet({G[j] : j \in 0..m})
    <3>1. DOMAIN G = 0..m /\ G = [j \in 0..m |-> G[j]]
      OBVIOUS
    <3> HIDE DEF G
    <3> QED
      BY <2>3, <3>1, ImageIsFinite
  <2> QED
    BY <2>4, <2>5
<1>3. IsFiniteSet({F[i] : i \in 1..n})
  <2>1. DOMAIN F = 1..n /\ F = [i \in 1..n |-> F[i]] /\ IsFiniteSet(1..n)
    BY <1>1, FS_Interval
  <2> HIDE DEF F, n
  <2> QED
    BY <2>1, ImageIsFinite
<1>4. Places = UNION {F[i] : i \in 1..n}
  BY DEF Places
<1>5. \A T \in {F[i] : i \in 1..n} : IsFiniteSet(T)
  BY <1>2
<1> HIDE DEF F
<1> QED
  BY <1>3, <1>4, <1>5, FS_UNION

\* The terms of a query are finitely many, and lower case changes none of them.
LEMMA TermsAreFinite ==
  ASSUME NEW typed \in Seq(Texts \ {<<>>})
  PROVE  IsFiniteSet(NormalizedTerms(typed))
<1>1. Len(typed) \in Nat /\ DOMAIN typed = 1..Len(typed)
  BY LenProperties
<1> DEFINE S == 1..Len(typed)
           f == [i \in S |-> Lower(typed[i])]
<1>2. IsFiniteSet(S)
  BY <1>1, FS_Interval
<1>3. IsFiniteSet({f[i] : i \in S})
  <2>1. DOMAIN f = S /\ f = [i \in S |-> f[i]]
    OBVIOUS
  <2> HIDE DEF f, S
  <2> QED
    BY <1>2, <2>1, ImageIsFinite
<1>4. NormalizedTerms(typed) \subseteq {f[i] : i \in S}
  BY <1>1 DEF NormalizedTerms, ToSet
<1> HIDE DEF f
<1> QED
  BY <1>3, <1>4, FS_Subset

LEMMA TermsInCapitals ==
  ASSUME NEW typed \in Seq(Texts \ {<<>>})
  PROVE  NormalizedTerms([i \in 1..Len(typed) |-> Lower(typed[i])]) = NormalizedTerms(typed)
<1> DEFINE lowered == [i \in 1..Len(typed) |-> Lower(typed[i])]
<1>1. Len(typed) \in Nat /\ DOMAIN typed = 1..Len(typed)
  BY LenProperties
<1>2. ASSUME NEW i \in 1..Len(typed)
      PROVE  /\ IsTerm(Lower(typed[i])) <=> IsTerm(typed[i])
             /\ Lower(Lower(typed[i])) = Lower(typed[i])
  <2>1. typed[i] \in Texts /\ typed[i] # <<>>
    BY ElementOfSeq
  <2>2. Len(typed[i]) \in Nat \ {0}
    BY <2>1, EmptySeq DEF Texts
  <2>3. Len(Lower(typed[i])) = Len(typed[i]) /\ Lower(Lower(typed[i])) = Lower(typed[i])
    BY <2>1, LowerIs
  <2>4. \A m \in Modifiers : Lower(typed[i])[1] = m <=> typed[i][1] = m
    BY <2>1, <2>2, LowerIs
  <2>5. Lower(typed[i])[1] \in Modifiers <=> typed[i][1] \in Modifiers
    BY <2>4
  <2> QED
    BY <2>3, <2>5, Zenon DEF IsTerm
<1>3. ToSet(typed) = {typed[i] : i \in 1..Len(typed)}
  BY <1>1 DEF ToSet
<1>4. ToSet(lowered) = {Lower(typed[i]) : i \in 1..Len(typed)}
  BY DEF ToSet
<1>5. NormalizedTerms(typed) = {Lower(w) : w \in {v \in {typed[i] : i \in 1..Len(typed)} : IsTerm(v)}}
  BY <1>3 DEF NormalizedTerms
<1>6. NormalizedTerms(lowered)
        = {Lower(w) : w \in {v \in {Lower(typed[i]) : i \in 1..Len(typed)} : IsTerm(v)}}
  BY <1>4 DEF NormalizedTerms
<1> HIDE DEF lowered
<1>7. NormalizedTerms(lowered) = NormalizedTerms(typed)
  BY <1>2, <1>5, <1>6
<1> QED
  BY <1>7 DEF lowered

\* A further word adds terms.
LEMMA TermsGrow ==
  ASSUME NEW typed, NEW longer, ToSet(typed) \subseteq ToSet(longer)
  PROVE  NormalizedTerms(typed) \subseteq NormalizedTerms(longer)
BY DEF NormalizedTerms

\* What is found, and that more terms find more.
LEMMA FoundIs ==
  ASSUME NEW terms
  PROVE  /\ DOMAIN Found(terms) \subseteq Places
         /\ \A p \in Places : p \in DOMAIN Found(terms) <=> ResultAt(p, terms).terms # {}
         /\ \A p \in DOMAIN Found(terms) : Found(terms)[p] = ResultAt(p, terms)
BY DEF Found

LEMMA MoreTermsFindMore ==
  ASSUME NEW terms, NEW more, terms \subseteq more
  PROVE  DOMAIN Found(terms) \subseteq DOMAIN Found(more)
<1>1. ASSUME NEW p \in DOMAIN Found(terms)
      PROVE  p \in DOMAIN Found(more)
  <2>1. p \in Places /\ ResultAt(p, terms).terms # {}
    BY FoundIs
  <2>2. ResultAt(p, terms).terms \subseteq ResultAt(p, more).terms
    BY ResultGrows
  <2>3. ResultAt(p, more).terms # {}
    BY <2>1, <2>2
  <2> QED
    BY <2>1, <2>3, FoundIs
<1> QED
  BY <1>1

-----------------------------------------------------------------------------
(***************************************************************************)
(* What the search has shown and found.                                    *)
(***************************************************************************)

\* What is found belongs to the words searched, and those are still in the box.
SearchInv ==
  /\ words \in Seq(Words) /\ query \in Seq(Words)
  /\ ToSet(query) \subseteq ToSet(words)
  /\ found = Found(NormalizedTerms(query))

LEMMA NothingFound ==
  Found(NormalizedTerms(<<>>)) = [p \in {} |-> p]
<1>1. NormalizedTerms(<<>>) = {}
  BY DEF NormalizedTerms, ToSet
<1>2. \A p \in Places : ResultAt(p, {}).terms = {}
  <2>1. \A p : ResultAt(p, {}).terms \subseteq {}
    BY ResultGrows
  <2> QED
    BY <2>1
<1>3. {q \in Places : ResultAt(q, {}).terms # {}} = {}
  BY <1>2
<1> QED
  BY <1>1, <1>3 DEF Found

\* The words typed are words, and no word goes away.
LEMMA TypingAdds ==
  ASSUME words \in Seq(Words), NEW word \in Words, TypeWord(word)
  PROVE  words' \in Seq(Words) /\ ToSet(words) \subseteq ToSet(words')
<1>1. words' = Append(words, word)
  BY DEF TypeWord
<1>2. /\ Len(words) \in Nat /\ Append(words, word) \in Seq(Words)
      /\ Len(Append(words, word)) = Len(words) + 1
      /\ \A i \in 1..Len(words) : Append(words, word)[i] = words[i]
  BY LenProperties, AppendProperties
<1>3. DOMAIN words = 1..Len(words) /\ DOMAIN words' = 1..(Len(words) + 1)
  BY <1>1, <1>2, LenProperties
<1>4. \A i \in DOMAIN words : i \in DOMAIN words' /\ words'[i] = words[i]
  BY <1>1, <1>2, <1>3
<1> QED
  BY <1>1, <1>2, <1>4 DEF ToSet

THEOREM SearchInvariance == SearchSpec => []SearchInv
<1>1. SearchInit => SearchInv
  BY NothingFound, EmptySeq DEF SearchInit, SearchInv
<1>2. SearchInv /\ [SearchNext]_searchVars => SearchInv'
  <2> SUFFICES ASSUME SearchInv, [SearchNext]_searchVars
               PROVE  SearchInv'
    OBVIOUS
  <2>1. ASSUME NEW word \in Words, TypeWord(word)
        PROVE  SearchInv'
    <3>1. words' \in Seq(Words) /\ ToSet(words) \subseteq ToSet(words')
      BY <2>1, TypingAdds DEF SearchInv
    <3>2. query' = query /\ found' = found
      BY <2>1 DEF TypeWord
    <3> QED
      BY <3>1, <3>2 DEF SearchInv, ToSet
  <2>2. CASE SearchWords
    <3>1. query' = words /\ words' = words /\ found' = Found(NormalizedTerms(words))
      BY <2>2 DEF SearchWords
    <3> QED
      BY <3>1 DEF SearchInv
  <2>3. CASE UNCHANGED searchVars
    BY <2>3 DEF searchVars, SearchInv
  <2> QED
    BY <2>1, <2>2, <2>3 DEF SearchNext
<1> QED
  BY <1>1, <1>2, PTL DEF SearchSpec

\* Every word is a text.
LEMMA QueryIsTyped ==
  ASSUME SearchInv
  PROVE  query \in Seq(Texts \ {<<>>})
BY SearchAssumption, SeqMonotonic DEF SearchInv

\* Types compare with types, and the others with each other, in the opposite way
\* when they are swapped: the sort of rankResults can rely on it.
THEOREM SwappedComparison == SearchSpec => []ComparedEitherWay
<1>1. SearchInv => ComparedEitherWay
  <2> SUFFICES ASSUME SearchInv, NEW p \in DOMAIN found, NEW q \in DOMAIN found,
                      found[p].kind = "type" <=> found[q].kind = "type"
               PROVE  Compare(found[p], found[q], query) = -Compare(found[q], found[p], query)
    BY DEF ComparedEitherWay
  <2>1. query \in Seq(Texts \ {<<>>})
    BY QueryIsTyped
  <2> DEFINE terms == NormalizedTerms(query)
  <2>2. IsFiniteSet(terms) /\ found = Found(terms)
    BY <2>1, TermsAreFinite DEF SearchInv
  <2> HIDE DEF terms
  <2>3. \A r \in DOMAIN found : r \in Places /\ found[r] = ResultAt(r, terms)
    BY <2>2, FoundIs
  <2>4. IsResult(found[p]) /\ IsResult(found[q])
    BY <2>2, <2>3, ShapeIs
  <2> QED
    BY <2>1, <2>4, ComparisonTurns
<1> QED
  BY <1>1, SearchInvariance, PTL

\* A query finds the same in capitals.
THEOREM CapitalsFindTheSame == SearchSpec => []CaseIsIgnored
<1>1. SearchInv => CaseIsIgnored
  BY QueryIsTyped, TermsInCapitals DEF SearchInv, CaseIsIgnored
<1> QED
  BY <1>1, SearchInvariance, PTL

\* A further word never takes anything from what is found.
THEOREM WordsOnlyAdd == SearchSpec => FoundGrows
<1>1. SearchInv /\ [SearchNext]_searchVars => [DOMAIN found \subseteq DOMAIN found']_searchVars
  <2> SUFFICES ASSUME SearchInv, SearchNext
               PROVE  DOMAIN found \subseteq DOMAIN found'
    BY DEF SearchNext
  <2>1. ASSUME NEW word \in Words, TypeWord(word)
        PROVE  DOMAIN found \subseteq DOMAIN found'
    BY <2>1 DEF TypeWord
  <2>2. CASE SearchWords
    <3>1. /\ found = Found(NormalizedTerms(query)) /\ ToSet(query) \subseteq ToSet(words)
          /\ found' = Found(NormalizedTerms(words))
      BY <2>2 DEF SearchWords, SearchInv
    <3>2. NormalizedTerms(query) \subseteq NormalizedTerms(words)
      BY <3>1, TermsGrow
    <3> QED
      BY <3>1, <3>2, MoreTermsFindMore
  <2> QED
    BY <2>1, <2>2 DEF SearchNext
<1> QED
  BY <1>1, SearchInvariance, PTL DEF SearchSpec, FoundGrows

-----------------------------------------------------------------------------
(***************************************************************************)
(* The list of results.                                                    *)
(***************************************************************************)

\* Different places have different ranks.
IsRank(rank, S) ==
  \A p, q \in S : rank[p] \in Nat /\ (p # q => rank[p] # rank[q])

\* An order ranks a finite set: what goes before another has a smaller rank.
LEMMA OrderRanks ==
  ASSUME NEW S, IsFiniteSet(S), NEW before, IsOrder(before, S)
  PROVE  IsRank(RankBy(before, S), S)
<1> DEFINE Before(p) == {q \in S : <<q, p>> \in before}
<1>1. ASSUME NEW p \in S
      PROVE  IsFiniteSet(Before(p)) /\ Cardinality(Before(p)) \in Nat
  BY FS_Subset, FS_CardinalityType
<1>2. ASSUME NEW p \in S, NEW q \in S, <<p, q>> \in before
      PROVE  Cardinality(Before(p)) < Cardinality(Before(q))
  <2>1. \A r \in S : /\ <<r, p>> \in before => <<r, q>> \in before
                     /\ <<r, r>> \notin before
    BY <1>2 DEF IsOrder
  <2>2. Before(p) \subseteq Before(q) /\ p \in Before(q) /\ p \notin Before(p)
    BY <1>2, <2>1
  <2>3. IsFiniteSet(Before(q)) /\ Cardinality(Before(q)) \in Nat /\ Cardinality(Before(p)) \in Nat
    BY <1>1
  <2> HIDE DEF Before
  <2>4. /\ Cardinality(Before(p)) <= Cardinality(Before(q))
        /\ Cardinality(Before(q)) = Cardinality(Before(p)) => Before(q) = Before(p)
    BY <2>2, <2>3, FS_Subset
  <2> QED
    BY <2>2, <2>3, <2>4
<1>3. \A p \in S : RankBy(before, S)[p] = Cardinality(Before(p))
  BY DEF RankBy
<1>4. \A p, q \in S : p # q => <<p, q>> \in before \/ <<q, p>> \in before
  BY DEF IsOrder
<1> HIDE DEF Before
<1>5. ASSUME NEW p \in S, NEW q \in S, p # q
      PROVE  Cardinality(Before(p)) # Cardinality(Before(q))
  <2>1. Cardinality(Before(p)) \in Nat /\ Cardinality(Before(q)) \in Nat
    BY <1>1
  <2> QED
    <3>1. Cardinality(Before(p)) < Cardinality(Before(q))
          \/ Cardinality(Before(q)) < Cardinality(Before(p))
      BY <1>2, <1>4, <1>5, Zenon
    <3> QED
      BY <2>1, <3>1
<1> QED
  BY <1>1, <1>3, <1>5, Zenon DEF IsRank

\* Whatever the sort does, it gives no two results the same place in the list.
LEMMA SortRanks ==
  ASSUME NEW ranked, DOMAIN ranked \in SUBSET Places, NEW typed,
         NEW rank \in Rankings(ranked, typed)
  PROVE  IsRank(rank, DOMAIN ranked)
<1> DEFINE S == DOMAIN ranked
           before == {pq \in S \X S :
                        LET c == Compare(ranked[pq[1]], ranked[pq[2]], typed)
                        IN  c < 0 \/ (c = 0 /\ Earlier(pq[1], pq[2]))}
<1>1. rank \in IF IsOrder(before, S) THEN {RankBy(before, S)}
               ELSE Injection(S, 0..(Cardinality(S) - 1))
  BY DEF Rankings
<1>2. IsFiniteSet(S)
  BY PlacesAreFinite, FS_Subset
<1> HIDE DEF S, before
<1>3. CASE IsOrder(before, S)
  <2>1. rank = RankBy(before, S)
    BY <1>1, <1>3
  <2> QED
    BY <1>2, <1>3, <2>1, OrderRanks DEF S
<1>4. CASE ~IsOrder(before, S)
  <2> DEFINE T == 0..(Cardinality(S) - 1)
  <2>1. rank \in [S -> T] /\ \A p, q \in S : rank[p] = rank[q] => p = q
    BY <1>1, <1>4 DEF Injection, IsInjective
  <2>2. \A k \in T : k \in Nat
    OBVIOUS
  <2> HIDE DEF T
  <2>3. IsRank(rank, S)
    BY <2>1, <2>2 DEF IsRank
  <2> QED
    BY <2>3 DEF S
<1> QED
  BY <1>3, <1>4

\* Of a ranked set, exactly the first n are those with fewer than n before them.
LEMMA FirstOnes ==
  ASSUME NEW K, IsFiniteSet(K), NEW rank, IsRank(rank, K),
         NEW n \in Nat, n <= Cardinality(K)
  PROVE  Cardinality({p \in K : Cardinality({q \in K : rank[q] < rank[p]}) < n}) = n
<1> DEFINE Before(p) == {q \in K : rank[q] < rank[p]}
           size == Cardinality(K)
           place == [p \in K |-> Cardinality(Before(p))]
<1>1. size \in Nat
  BY FS_CardinalityType
<1>2. \A p, q \in K : rank[p] \in Nat /\ (p # q => rank[p] # rank[q])
  BY DEF IsRank
<1>3. \A p \in K : place[p] = Cardinality(Before(p))
  OBVIOUS
<1>4. ASSUME NEW p \in K
      PROVE  IsFiniteSet(Before(p)) /\ place[p] \in Nat /\ place[p] < size
  <2>1. p \notin Before(p) /\ Before(p) \subseteq K
    BY <1>2
  <2> HIDE DEF Before, place
  <2>2. /\ IsFiniteSet(Before(p)) /\ Cardinality(Before(p)) <= size
        /\ size = Cardinality(Before(p)) => K = Before(p)
    BY <2>1, FS_Subset
  <2>3. Cardinality(Before(p)) \in Nat
    BY <2>2, FS_CardinalityType
  <2> QED
    BY <1>1, <1>3, <2>1, <2>2, <2>3
<1>5. ASSUME NEW p \in K, NEW q \in K, rank[p] < rank[q]
      PROVE  place[p] < place[q]
  <2>1. Before(p) \subseteq Before(q) /\ p \in Before(q) /\ p \notin Before(p)
    BY <1>2, <1>5
  <2>2. IsFiniteSet(Before(q)) /\ place[p] \in Nat /\ place[q] \in Nat
    BY <1>4
  <2> HIDE DEF Before, place
  <2>3. /\ Cardinality(Before(p)) <= Cardinality(Before(q))
        /\ Cardinality(Before(q)) = Cardinality(Before(p)) => Before(q) = Before(p)
    BY <2>1, <2>2, FS_Subset
  <2> QED
    BY <1>3, <2>1, <2>2, <2>3
<1>6. \A p, q \in K : place[p] = place[q] => p = q
  <2> SUFFICES ASSUME NEW p \in K, NEW q \in K, p # q
               PROVE  place[p] # place[q]
    OBVIOUS
  <2>1. place[p] \in Nat /\ place[q] \in Nat
    BY <1>4
  <2> HIDE DEF place
  <2> QED
    BY <1>2, <1>5, <2>1
<1>7. \A p \in K : place[p] \in 0..(size - 1)
  <2> TAKE p \in K
  <2>1. place[p] \in Nat /\ place[p] < size
    BY <1>4
  <2> HIDE DEF place
  <2> QED
    BY <1>1, <2>1
<1>8. place = [p \in K |-> place[p]]
  OBVIOUS
<1> DEFINE first == {p \in K : place[p] < n}
<1>9. first = {p \in K : Cardinality({q \in K : rank[q] < rank[p]}) < n}
  BY <1>3
<1> HIDE DEF place
<1>10. place \in Injection(K, 0..(size - 1))
  BY <1>6, <1>7, <1>8 DEF Injection, IsInjective
<1>11. IsFiniteSet(0..(size - 1)) /\ Cardinality(0..(size - 1)) = size
  <2> HIDE DEF size
  <2> QED
    BY <1>1, FS_Interval
<1>12. place \in Surjection(K, 0..(size - 1))
  BY <1>10, <1>11, FS_Injection
<1>13. \A k \in 0..(size - 1) : \E p \in K : place[p] = k
  BY <1>12 DEF Surjection
<1>14. n <= size
  OBVIOUS
<1> HIDE DEF size
<1> DEFINE g == [p \in first |-> place[p]]
<1>15. g \in Bijection(first, 0..(n - 1))
  <2>1. g \in [first -> 0..(n - 1)]
    BY <1>1, <1>7
  <2>2. g \in Injection(first, 0..(n - 1))
    BY <1>6, <2>1 DEF Injection, IsInjective
  <2>3. ASSUME NEW k \in 0..(n - 1)
        PROVE  \E p \in first : g[p] = k
    <3>1. k \in 0..(size - 1)
      BY <1>1, <1>14
    <3>2. PICK p \in K : place[p] = k
      BY <1>13, <3>1
    <3>3. p \in first /\ g[p] = k
      BY <3>2
    <3> QED
      BY <3>3
  <2> HIDE DEF g, first
  <2> QED
    BY <2>1, <2>2, <2>3 DEF Bijection, Surjection
<1>16. IsFiniteSet(first)
  BY FS_Subset
<1>17. Cardinality(0..(n - 1)) = n
  BY FS_Interval
<1> HIDE DEF g, first
<1>18. Cardinality(first) = n
  <2>1. ExistsBijection(first, 0..(n - 1))
    BY <1>15 DEF ExistsBijection
  <2> QED
    BY <1>16, <1>17, <2>1, FS_Bijection
<1> QED
  BY <1>9, <1>18

\* No result with as many terms as any is dropped unless the list is full, in
\* whatever order the sort leaves them.
LEMMA MostAreDisplayed ==
  ASSUME NEW ranked, DOMAIN ranked \in SUBSET Places, NEW typed,
         NEW rank \in Rankings(ranked, typed),
         \A q \in DOMAIN ranked : Cardinality(ranked[q].terms) \in Nat,
         NEW p \in DOMAIN ranked,
         \A q \in DOMAIN ranked :
           Cardinality(ranked[q].terms) <= Cardinality(ranked[p].terms)
  PROVE  LET list == Displayed(Kept(ranked, rank), rank)
         IN  p \in list \/ Cardinality(list) = MaxResults
<1> DEFINE S == DOMAIN ranked
           K == Kept(ranked, rank)
           Before(q) == {r \in K : rank[r] < rank[q]}
<1>1. IsFiniteSet(S) /\ IsRank(rank, S)
  BY PlacesAreFinite, SortRanks, FS_Subset
<1>2. K \subseteq S /\ p \in K
  <2>1. \A q \in S : Cardinality(ranked[p].terms) + 1 >= Cardinality(ranked[q].terms)
    OBVIOUS
  <2> QED
    BY <2>1 DEF Kept
<1>3. IsFiniteSet(K) /\ IsRank(rank, K)
  <2> HIDE DEF K
  <2>1. IsFiniteSet(K)
    BY <1>1, <1>2, FS_Subset
  <2>2. IsRank(rank, K)
    BY <1>1, <1>2 DEF IsRank
  <2> QED
    BY <2>1, <2>2
<1>4. Displayed(K, rank) = {q \in K : Cardinality({r \in K : rank[r] < rank[q]}) < MaxResults}
  BY DEF Displayed
<1> HIDE DEF K, S
<1>5. ASSUME p \notin Displayed(K, rank)
      PROVE  Cardinality(Displayed(K, rank)) = MaxResults
  <2>1. ~(Cardinality(Before(p)) < MaxResults)
    BY <1>2, <1>4, <1>5
  <2>2. Before(p) \subseteq K
    OBVIOUS
  <2> HIDE DEF Before
  <2>3. /\ Cardinality(Before(p)) <= Cardinality(K) /\ Cardinality(Before(p)) \in Nat
        /\ Cardinality(K) \in Nat
    BY <1>3, <2>2, FS_Subset, FS_CardinalityType
  <2>4. MaxResults \in Nat
    BY SearchAssumption, Zenon
  <2>5. MaxResults <= Cardinality(K)
    BY <2>1, <2>3, <2>4
  <2>6. Cardinality({q \in K : Cardinality({r \in K : rank[r] < rank[q]}) < MaxResults})
          = MaxResults
    BY <1>3, <2>4, <2>5, FirstOnes
  <2> QED
    BY <1>4, <2>6, Zenon
<1> QED
  BY <1>5 DEF K

\* The list is one that the sort may leave.
ListInv ==
  DOMAIN found = {} \/ \E rank \in Rankings(found, query) :
                         shown = Displayed(Kept(found, rank), rank)

\* The results with the most matched terms are in the list or it is full.
THEOREM MostMatchesStay == SearchSpec => []MostMatchesAreShown
<1>1. SearchInit => ListInv
  BY DEF SearchInit, ListInv
<1>2. ListInv /\ [SearchNext]_searchVars => ListInv'
  <2> SUFFICES ASSUME ListInv, [SearchNext]_searchVars
               PROVE  ListInv'
    OBVIOUS
  <2>1. ASSUME NEW word \in Words, TypeWord(word)
        PROVE  ListInv'
    BY <2>1 DEF TypeWord, ListInv
  <2>2. CASE SearchWords
    BY <2>2, Zenon DEF SearchWords, ListInv
  <2>3. CASE UNCHANGED searchVars
    BY <2>3 DEF searchVars, ListInv
  <2> QED
    BY <2>1, <2>2, <2>3 DEF SearchNext
<1>3. SearchInv /\ ListInv => MostMatchesAreShown
  <2> SUFFICES ASSUME SearchInv, ListInv, NEW p \in DOMAIN found,
                      \A q \in DOMAIN found :
                        Cardinality(found[q].terms) <= Cardinality(found[p].terms)
               PROVE  p \in shown \/ Cardinality(shown) = MaxResults
    BY DEF MostMatchesAreShown, CutOff
  <2>1. PICK rank \in Rankings(found, query) : shown = Displayed(Kept(found, rank), rank)
    BY DEF ListInv
  <2> DEFINE terms == NormalizedTerms(query)
  <2>2. IsFiniteSet(terms) /\ found = Found(terms)
    BY QueryIsTyped, TermsAreFinite DEF SearchInv
  <2> HIDE DEF terms
  <2>3. \A q \in DOMAIN found : q \in Places /\ found[q] = ResultAt(q, terms)
    BY <2>2, FoundIs
  <2>4. ASSUME NEW q \in DOMAIN found
        PROVE  Cardinality(found[q].terms) \in Nat
    <3>1. IsResult(found[q])
      BY <2>2, <2>3, ShapeIs
    <3> QED
      BY <3>1, FS_CardinalityType DEF IsResult
  <2>5. DOMAIN found \in SUBSET Places
    BY <2>3
  <2> QED
    BY <2>1, <2>4, <2>5, MostAreDisplayed
<1>4. SearchSpec => []ListInv
  BY <1>1, <1>2, PTL DEF SearchSpec
<1> QED
  BY <1>3, <1>4, SearchInvariance, PTL

-----------------------------------------------------------------------------
(***************************************************************************)
(* What is searched by its name.                                           *)
(***************************************************************************)

\* A name as a term: it stays one in lower case, and no modifier is in it or
\* none at its ends.
LEMMA NameIs ==
  ASSUME NEW name, IsName(name)
  PROVE  /\ name \in Texts /\ Len(name) \in Nat \ {0} /\ IsTerm(name)
         /\ Lower(name) \in Texts /\ Len(Lower(name)) = Len(name) /\ Lower(name) # <<>>
         /\ \A i \in 1..Len(name) : Lower(name)[i] \notin {"#", "."}
         /\ Lower(name)[1] # ":" /\ Lower(name)[Len(name)] # ":"
         /\ name # <<>>
<1>1. /\ name \in Texts /\ name # <<>>
      /\ \A i \in 1..Len(name) : name[i] \notin {"#", "."}
      /\ name[1] # ":" /\ name[Len(name)] # ":"
  BY DEF IsName
<1>2. Len(name) \in Nat \ {0}
  BY <1>1, EmptySeq DEF Texts
<1>3. /\ Lower(name) \in Texts /\ Len(Lower(name)) = Len(name)
      /\ \A i \in 1..Len(name) : \A m \in Modifiers : Lower(name)[i] = m <=> name[i] = m
  BY <1>1, LowerIs
<1>4. \A i \in 1..Len(name) : Lower(name)[i] \notin {"#", "."}
  BY <1>1, <1>3 DEF Modifiers
<1>5. 1 \in 1..Len(name) /\ Len(name) \in 1..Len(name)
  BY <1>2
<1>6. Lower(name)[1] # ":" /\ Lower(name)[Len(name)] # ":"
  BY <1>1, <1>3, <1>5 DEF Modifiers
<1>7. name[1] \notin Modifiers
  BY <1>1, <1>5 DEF Modifiers
<1>8. IsTerm(name)
  BY <1>2, <1>7 DEF IsTerm
<1>9. Lower(name) # <<>>
  <2>1. Len(Lower(name)) # 0
    BY <1>2, <1>3
  <2> QED
    BY <2>1, EmptySeq
<1> QED
  BY <1>1, <1>2, <1>3, <1>4, <1>6, <1>8, <1>9

\* A word of a query that is a term is looked for in lower case.
LEMMA WordIsSought ==
  ASSUME NEW typed, NEW word \in ToSet(typed), IsTerm(word)
  PROVE  Lower(word) \in NormalizedTerms(typed)
BY DEF NormalizedTerms

\* A name matches itself.
LEMMA NameMatchesText ==
  ASSUME NEW name, IsName(name), NEW terms, Lower(name) \in terms
  PROVE  Lower(name) \in MatchingText(name, terms)
<1>1. /\ name # <<>> /\ Lower(name) \in Texts /\ Len(name) \in Nat \ {0}
      /\ \A i \in 1..Len(name) : Lower(name)[i] \notin {"#", "."}
  BY NameIs
<1>2. IndexOf(Lower(name), Lower(name)) = 1
  BY <1>1, IndexOfItself
<1>3. Lower(name)[1] \notin {"#", "."}
  BY <1>1
<1> QED
  BY <1>1, <1>2, <1>3 DEF MatchingText, InText

\* A name with a colon matches itself as a namespace.
LEMMA NameMatchesNamespace ==
  ASSUME NEW name, IsName(name), NEW terms, Lower(name) \in terms,
         NEW i \in 1..Len(name), name[i] = ":"
  PROVE  Lower(name) \in MatchingNamespace(name, terms)
<1> DEFINE term == Lower(name)
           n == Len(term)
<1>1. /\ name # <<>> /\ term \in Texts /\ n \in Nat \ {0} /\ n = Len(name)
      /\ term[1] # ":" /\ term[n] # ":" /\ name \in Texts
  BY NameIs
<1>2. ":" \in Modifiers /\ ":" \in Tokens
  BY RankingAssumption DEF Modifiers
<1>3. term[i] = ":"
  BY <1>1, <1>2, LowerIs
<1>4. IndexOf(term, <<":">>) > 0
  <2> HIDE DEF term
  <2>1. i \in 1..Len(term)
    BY <1>1
  <2>2. IndexOf(term, <<":">>) \in 1..i
    BY <1>1, <1>2, <1>3, <2>1, IndexOfToken
  <2> QED
    BY <2>2
<1>5. StripColons(term) = term
  <2> HIDE DEF term
  <2>1. StripColons(term) = SubSeq(term, 1, n - 0)
    BY <1>1, Zenon DEF StripColons
  <2>2. SubSeq(term, 1, n) = term
    BY <1>1, SubSeqFull DEF Texts
  <2>3. n - 0 = n
    BY <1>1
  <2> QED
    BY <2>1, <2>2, <2>3
<1>6. IndexOf(term, StripColons(term)) = 1
  BY <1>1, <1>5, IndexOfItself
<1> QED
  BY <1>1, <1>4, <1>6 DEF MatchingNamespace, InNamespace

\* A type without a colon in its name has no namespace.
LEMMA NoNamespace ==
  ASSUME NEW type, type.full_name \in Texts,
         \A i \in 1..Len(type.full_name) : type.full_name[i] # ":"
  PROVE  TypeName(type) = type.full_name
<1>1. Len(type.full_name) \in Nat
  BY DEF Texts
<1>2. {i \in 2..(Len(type.full_name) - 1) :
         type.full_name[i] = ":" /\ type.full_name[i + 1] = ":"} = {}
  BY <1>1
<1> QED
  BY <1>2 DEF TypeName

\* A type is found by its full name and by the last part of it.
LEMMA NamedTypeMatches ==
  ASSUME NEW type, IsName(type.full_name), IsName(TypeName(type)), NEW terms,
         Lower(type.full_name) \in terms \/ Lower(TypeName(type)) \in terms
  PROVE  TypeResult(type, terms).terms # {}
<1>1. CASE Lower(TypeName(type)) \in terms
  BY <1>1, NameMatchesText, TypeTerms, Zenon
<1>2. ASSUME Lower(type.full_name) \in terms,
             NEW i \in 1..Len(type.full_name), type.full_name[i] = ":"
      PROVE  TypeResult(type, terms).terms # {}
  <2>1. Lower(type.full_name) \in MatchingNamespace(type.full_name, terms)
    BY <1>2, NameMatchesNamespace
  <2> QED
    BY <2>1, TypeTerms, Zenon
<1>3. ASSUME Lower(type.full_name) \in terms,
             \A i \in 1..Len(type.full_name) : type.full_name[i] # ":"
      PROVE  TypeResult(type, terms).terms # {}
  <2>1. TypeName(type) = type.full_name
    BY <1>3, NameIs, NoNamespace
  <2> QED
    BY <1>1, <1>3, <2>1
<1> QED
  BY <1>1, <1>2, <1>3

\* A text in lower case, from its parts.
LEMMA LowerOfParts ==
  ASSUME NEW front \in Texts, NEW back \in Texts
  PROVE  Lower(front \o back) = Lower(front) \o Lower(back)
<1> DEFINE n == Len(front)
           m == Len(back)
           both == front \o back
<1>1. n \in Nat /\ m \in Nat
  BY DEF Texts
<1>2. /\ both \in Texts /\ Len(both) = n + m
      /\ \A i \in 1..(n + m) : both[i] = IF i <= n THEN front[i] ELSE back[i - n]
  BY ConcatProperties DEF Texts
<1>3. /\ Lower(front) \in Texts /\ Len(Lower(front)) = n
      /\ \A i \in 1..n : Lower(front)[i] = LowerOf[front[i]]
  BY LowerIs
<1>4. /\ Lower(back) \in Texts /\ Len(Lower(back)) = m
      /\ \A i \in 1..m : Lower(back)[i] = LowerOf[back[i]]
  BY LowerIs
<1> HIDE DEF both
<1>5. /\ Lower(both) \in Texts /\ Len(Lower(both)) = n + m
      /\ \A i \in 1..(n + m) : Lower(both)[i] = LowerOf[both[i]]
  BY <1>2, LowerIs
<1> DEFINE lowered == Lower(front) \o Lower(back)
<1>6. /\ lowered \in Texts /\ Len(lowered) = n + m
      /\ \A i \in 1..(n + m) :
           lowered[i] = IF i <= n THEN Lower(front)[i] ELSE Lower(back)[i - n]
  <2>1. Lower(front) \in Seq(Tokens) /\ Lower(back) \in Seq(Tokens)
    BY <1>3, <1>4 DEF Texts
  <2>2. /\ lowered \in Seq(Tokens)
        /\ Len(lowered) = Len(Lower(front)) + Len(Lower(back))
        /\ \A i \in 1..Len(Lower(front)) + Len(Lower(back)) :
             lowered[i] = IF i <= Len(Lower(front)) THEN Lower(front)[i]
                          ELSE Lower(back)[i - Len(Lower(front))]
    BY <2>1, ConcatProperties
  <2> HIDE DEF lowered, n, m
  <2> QED
    BY <1>3, <1>4, <2>2 DEF Texts
<1> HIDE DEF lowered, n, m
<1>7. \A i \in 1..(n + m) : Lower(both)[i] = lowered[i]
  <2> TAKE i \in 1..(n + m)
  <2>1. CASE i <= n
    <3>1. i \in 1..n
      BY <1>1, <2>1
    <3> QED
      BY <1>2, <1>3, <1>5, <1>6, <2>1, <3>1
  <2>2. CASE ~(i <= n)
    <3>1. i - n \in 1..m
      BY <1>1, <2>2
    <3> QED
      BY <1>2, <1>4, <1>5, <1>6, <2>2, <3>1
  <2> QED
    BY <2>1, <2>2
<1>8. Lower(both) = lowered
  BY <1>5, <1>6, <1>7, SeqEqual DEF Texts
<1> QED
  BY <1>8 DEF lowered, both

\* What is asked of a method: the sign after the name of its type, if that is
\* given, and before its own name.
LEMMA SignedMethodMatches ==
  ASSUME NEW front \in Texts, NEW name \in Texts, NEW full_name \in Texts,
         NEW sign \in {"#", "."}, NEW kind \in Methods,
         sign = "#" <=> kind = "instance_method",
         \A i \in 1..Len(front) : front[i] \notin {"#", "."},
         \A i \in 1..Len(name) : name[i] \notin {"#", "."},
         front = <<>> \/ front = Lower(full_name)
  PROVE  InMethod(name, kind, full_name, (front \o <<sign>>) \o name)
<1> DEFINE n == Len(front)
           m == Len(name)
           signed == front \o <<sign>>
           term == signed \o name
<1>1. /\ n \in Nat /\ m \in Nat /\ <<sign>> \in Texts /\ Len(<<sign>>) = 1
      /\ "#" \in Tokens /\ "." \in Tokens
  BY RankingAssumption DEF Texts, Modifiers
<1>2. /\ signed \in Texts /\ Len(signed) = n + 1
      /\ \A i \in 1..(n + 1) : signed[i] = IF i <= n THEN front[i] ELSE <<sign>>[i - n]
  BY <1>1, ConcatProperties DEF Texts
<1>3. \A i \in 1..n : signed[i] = front[i]
  BY <1>1, <1>2
<1>4. signed[n + 1] = sign
  <2>1. n + 1 \in 1..(n + 1) /\ ~(n + 1 <= n) /\ (n + 1) - n = 1
    BY <1>1
  <2>2. <<sign>>[1] = sign
    OBVIOUS
  <2> QED
    BY <1>2, <2>1, <2>2
<1> HIDE DEF signed
<1>5. /\ term \in Texts /\ Len(term) = n + 1 + m
      /\ \A i \in 1..(n + 1 + m) :
           term[i] = IF i <= n + 1 THEN signed[i] ELSE name[i - (n + 1)]
  <2>1. /\ term \in Seq(Tokens) /\ Len(term) = Len(signed) + Len(name)
        /\ \A i \in 1..Len(signed) + Len(name) :
             term[i] = IF i <= Len(signed) THEN signed[i] ELSE name[i - Len(signed)]
    BY <1>2, ConcatProperties DEF Texts
  <2> HIDE DEF term
  <2> QED
    BY <1>2, <2>1 DEF Texts
<1>6. SubSeq(term, 1, (n + 1) - 1) = front
  <2>1. /\ SubSeq(term, 1, n) \in Seq(Tokens) /\ Len(SubSeq(term, 1, n)) = n
        /\ \A i \in 1..n : SubSeq(term, 1, n)[i] = term[i]
    <3>1. \A i \in 1..n : term[i] \in Tokens
      BY <1>1, <1>5, ElementOfSeq DEF Texts
    <3> HIDE DEF term
    <3> QED
      BY <1>1, <3>1, SubSeqProperties
  <2>2. \A i \in 1..n : term[i] = front[i]
    BY <1>1, <1>3, <1>5
  <2>3. (n + 1) - 1 = n
    BY <1>1
  <2> HIDE DEF term
  <2> QED
    BY <2>1, <2>2, <2>3, SeqEqual DEF Texts
<1>7. SubSeq(term, (n + 1) + 1, Len(term)) = name
  <2> DEFINE k == n + 2
             l == n + 1 + m
  <2>1. \A i \in k..l : term[i] \in Tokens
    BY <1>1, <1>5, ElementOfSeq DEF Texts
  <2>2. /\ SubSeq(term, k, l) \in Seq(Tokens)
        /\ Len(SubSeq(term, k, l)) = m
        /\ \A i \in 1..m : SubSeq(term, k, l)[i] = term[i + (n + 1)]
    <3> HIDE DEF term
    <3>1. k \in Int /\ l \in Int /\ l - k + 1 = m /\ (k <= l <=> 1 <= m)
          /\ \A i \in 1..m : k + i - 1 = i + (n + 1)
      BY <1>1
    <3> HIDE DEF k, l
    <3>2. /\ SubSeq(term, k, l) \in Seq(Tokens)
          /\ Len(SubSeq(term, k, l)) = IF k <= l THEN l - k + 1 ELSE 0
          /\ \A i \in 1..(l - k + 1) : SubSeq(term, k, l)[i] = term[k + i - 1]
      BY <2>1, <3>1, SubSeqProperties
    <3>3. Len(SubSeq(term, k, l)) = m
      BY <1>1, <3>1, <3>2
    <3>4. \A i \in 1..m : SubSeq(term, k, l)[i] = term[i + (n + 1)]
      BY <3>1, <3>2
    <3> QED
      BY <3>2, <3>3, <3>4
  <2>3. \A i \in 1..m : term[i + (n + 1)] = name[i]
    <3> TAKE i \in 1..m
    <3>1. /\ i + (n + 1) \in 1..(n + 1 + m) /\ ~(i + (n + 1) <= n + 1)
          /\ (i + (n + 1)) - (n + 1) = i
      BY <1>1
    <3> QED
      BY <1>5, <3>1
  <2>4. SubSeq(term, k, l) = name
    <3> HIDE DEF k, l, term
    <3> QED
      BY <1>1, <2>2, <2>3, SeqEqual DEF Texts
  <2>5. (n + 1) + 1 = k /\ Len(term) = l
    BY <1>1, <1>5
  <2> HIDE DEF k, l, term
  <2> QED
    BY <2>4, <2>5
<1>8. term[n + 1] = sign /\ \A i \in 1..n : term[i] \notin {"#", "."}
  BY <1>1, <1>3, <1>4, <1>5
<1>9. n + 1 \in 1..Len(term) /\ (n + 1) - 1 = n
  BY <1>1, <1>5
<1> HIDE DEF term
<1>10. IndexOf(term, <<sign>>) = n + 1
  <2>1. \A j \in 1..((n + 1) - 1) : term[j] # sign
    BY <1>8, <1>9
  <2>2. sign \in Tokens
    BY <1>1
  <2> QED
    BY <1>5, <1>8, <1>9, <2>1, <2>2, IndexOfToken
<1>11. sign # "#" => IndexOf(term, <<"#">>) = 0
  <2> SUFFICES ASSUME sign = "."
               PROVE  IndexOf(term, <<"#">>) = 0
    OBVIOUS
  <2>1. ASSUME NEW i \in 1..Len(term)
        PROVE  term[i] # "#"
    <3>1. CASE i \in 1..n
      BY <1>8, <3>1
    <3>2. CASE i = n + 1
      BY <1>8, <3>2
    <3>3. CASE i \notin 1..(n + 1)
      <4>1. i \in 1..(n + 1 + m) /\ ~(i <= n + 1) /\ i - (n + 1) \in 1..m
        BY <1>1, <1>5, <3>3
      <4>2. term[i] = name[i - (n + 1)]
        BY <1>5, <4>1
      <4> QED
        BY <4>1, <4>2
    <3> QED
      BY <1>1, <3>1, <3>2, <3>3
  <2> QED
    BY <1>1, <1>5, <2>1, IndexOfToken
<1> DEFINE hash == IndexOf(term, <<"#">>)
           dot == IndexOf(term, <<".">>)
           at == IF hash > 0 THEN hash ELSE dot
<1>12. at = n + 1 /\ (hash > 0 <=> sign = "#")
  BY <1>1, <1>10, <1>11
<1>13. kind \in (IF hash > 0 THEN {"instance_method"} ELSE Methods \ {"instance_method"})
  BY <1>12
<1>14. IndexOf(name, SubSeq(term, at + 1, Len(term))) > 0
  <2>1. IndexOf(name, name) = 1
    BY IndexOfItself
  <2>2. SubSeq(term, at + 1, Len(term)) = name
    BY <1>7, <1>12
  <2>3. IndexOf(name, SubSeq(term, at + 1, Len(term))) = 1
    BY <2>1, <2>2, Zenon
  <2> HIDE DEF at
  <2> QED
    BY <2>3
<1>15. SubSeq(term, 1, at - 1) = <<>> \/ IndexOf(Lower(full_name), SubSeq(term, 1, at - 1)) > 0
  <2>1. SubSeq(term, 1, at - 1) = front
    BY <1>6, <1>12
  <2>2. front = Lower(full_name) => IndexOf(Lower(full_name), front) = 1
    <3>1. full_name \in Texts /\ Lower(full_name) \in Texts
      BY LowerIs
    <3> QED
      BY <3>1, IndexOfItself
  <2>3. SubSeq(term, 1, at - 1) = <<>> \/ IndexOf(Lower(full_name), SubSeq(term, 1, at - 1)) = 1
    BY <2>1, <2>2, Zenon
  <2> HIDE DEF at
  <2> QED
    BY <2>3
<1>16. at > 0
  BY <1>1, <1>12
<1>17. InMethod(name, kind, full_name, term)
  <2> HIDE DEF term
  <2> QED
    BY <1>13, <1>14, <1>15, <1>16 DEF InMethod
<1> QED
  BY <1>17 DEF term, signed

\* A method is found by its name alone.
LEMMA PlainMethodMatches ==
  ASSUME NEW name, IsName(name), NEW kind, NEW full_name
  PROVE  InMethod(Lower(name), kind, full_name, Lower(name))
<1> DEFINE term == Lower(name)
<1>1. /\ term \in Texts /\ \A i \in 1..Len(term) : term[i] \notin {"#", "."}
      /\ "#" \in Tokens /\ "." \in Tokens
  BY NameIs, RankingAssumption DEF Modifiers
<1> HIDE DEF term
<1>2. IndexOf(term, <<"#">>) = 0 /\ IndexOf(term, <<".">>) = 0
  <2>1. (\A i \in 1..Len(term) : term[i] # "#") /\ (\A i \in 1..Len(term) : term[i] # ".")
    BY <1>1
  <2> QED
    BY <1>1, <2>1, IndexOfToken
<1>3. IndexOf(term, term) = 1
  BY <1>1, IndexOfItself
<1>4. InMethod(term, kind, full_name, term)
  BY <1>2, <1>3 DEF InMethod
<1> QED
  BY <1>4 DEF term

\* What a user may write before the name of a method.
LEMMA SignedNameMatches ==
  ASSUME NEW front \in Texts, NEW name, IsName(name),
         NEW full_name, IsName(full_name),
         NEW sign \in {"#", "."}, NEW kind \in Methods,
         sign = "#" <=> kind = "instance_method",
         front = <<>> \/ front = full_name
  PROVE  LET word == (front \o <<sign>>) \o name
         IN  /\ IsTerm(word)
             /\ InMethod(Lower(name), kind, full_name, Lower(word))
<1> DEFINE signed == front \o <<sign>>
           word == signed \o name
<1>1. /\ name \in Texts /\ Len(name) \in Nat \ {0}
      /\ Lower(name) \in Texts /\ Len(Lower(name)) = Len(name)
      /\ \A i \in 1..Len(name) : Lower(name)[i] \notin {"#", "."}
  BY NameIs
<1>2. /\ full_name \in Texts /\ Lower(full_name) \in Texts
      /\ Len(Lower(full_name)) = Len(full_name)
      /\ \A i \in 1..Len(full_name) : Lower(full_name)[i] \notin {"#", "."}
  BY NameIs
<1>3. sign \in Tokens /\ sign \in Modifiers /\ LowerOf[sign] = sign
  BY RankingAssumption DEF Modifiers
<1>4. <<sign>> \in Texts /\ Len(<<sign>>) = 1
  BY <1>3 DEF Texts
<1>5. Lower(<<sign>>) = <<sign>>
  <2>1. /\ Lower(<<sign>>) \in Texts /\ Len(Lower(<<sign>>)) = 1
        /\ Lower(<<sign>>)[1] = LowerOf[<<sign>>[1]]
    BY <1>4, LowerIs
  <2>2. <<sign>>[1] = sign
    OBVIOUS
  <2>3. \A i \in 1..1 : Lower(<<sign>>)[i] = <<sign>>[i]
    BY <1>3, <2>1, <2>2
  <2> QED
    BY <1>4, <2>1, <2>3, SeqEqual DEF Texts
<1>6. /\ signed \in Texts /\ Len(signed) = Len(front) + 1
      /\ Lower(signed) = Lower(front) \o <<sign>>
  <2>1. signed \in Texts /\ Len(signed) = Len(front) + 1
    BY <1>4, ConcatProperties DEF Texts
  <2>2. Lower(signed) = Lower(front) \o Lower(<<sign>>)
    BY <1>4, LowerOfParts
  <2> QED
    BY <1>5, <2>1, <2>2
<1> HIDE DEF signed
<1>7. /\ word \in Texts /\ Len(word) = Len(signed) + Len(name)
      /\ Lower(word) = (Lower(front) \o <<sign>>) \o Lower(name)
  <2>1. word \in Texts /\ Len(word) = Len(signed) + Len(name)
    BY <1>1, <1>6, ConcatProperties DEF Texts
  <2>2. Lower(word) = Lower(signed) \o Lower(name)
    BY <1>1, <1>6, LowerOfParts
  <2> QED
    BY <1>6, <2>1, <2>2
<1> HIDE DEF word
<1>8. IsTerm(word)
  <2>1. Len(front) \in Nat
    BY DEF Texts
  <2>2. Len(word) > 1
    BY <1>1, <1>6, <1>7, <2>1
  <2> QED
    BY <2>2 DEF IsTerm
<1>9. /\ Lower(front) \in Texts
      /\ Lower(front) = <<>> \/ Lower(front) = Lower(full_name)
      /\ \A i \in 1..Len(Lower(front)) : Lower(front)[i] \notin {"#", "."}
  <2>1. CASE front = <<>>
    <3>1. Lower(front) = <<>>
      BY <2>1 DEF Lower
    <3> QED
      BY <3>1 DEF Texts
  <2>2. CASE front = full_name
    BY <1>2, <2>2
  <2> QED
    BY <2>1, <2>2
<1>10. InMethod(Lower(name), kind, full_name, (Lower(front) \o <<sign>>) \o Lower(name))
  BY <1>1, <1>2, <1>9, SignedMethodMatches
<1> QED
  BY <1>7, <1>8, <1>10 DEF word, signed

\* A constant or a method is found by each of its names.
LEMMA NamedMemberMatches ==
  ASSUME NEW m \in Members, IsName(m.name), NEW type, IsName(type.full_name),
         NEW terms, NEW word, IsTerm(word) => Lower(word) \in terms,
         LET sign == IF m.kind = "instance_method" THEN <<"#">> ELSE <<".">>
         IN  word \in IF m.kind = "constant" THEN {m.name}
                      ELSE {m.name, sign \o m.name, type.full_name \o sign \o m.name}
  PROVE  MemberResult(m, type, terms).terms # {}
<1> DEFINE asked == {t \in terms : InMethod(Lower(m.name), m.kind, type.full_name, t)}
<1>1. m.kind \in Methods \cup {"constant"}
  BY DEF Members
<1>2. OwnTerms(m, type, terms) # {} => MemberResult(m, type, terms).terms # {}
  BY MemberTerms, Zenon
<1>3. CASE m.kind = "constant"
  <2>1. word = m.name
    BY <1>3
  <2>2. Lower(m.name) \in MatchingText(m.name, terms)
    BY <2>1, NameIs, NameMatchesText
  <2>3. MatchingText(m.name, terms) \subseteq OwnTerms(m, type, terms)
    BY <1>3 DEF OwnTerms
  <2> QED
    BY <1>2, <2>2, <2>3
<1>4. CASE m.kind # "constant"
  <2>1. asked \subseteq OwnTerms(m, type, terms)
    BY <1>4, Zenon DEF OwnTerms
  <2>2. CASE word = m.name
    <3>1. Lower(word) \in asked
      BY <2>2, NameIs, PlainMethodMatches
    <3> QED
      BY <1>2, <2>1, <3>1
  <2>3. CASE word # m.name
    <3>1. PICK sign \in {"#", "."} :
            /\ sign = "#" <=> m.kind = "instance_method"
            /\ word \in {<<sign>> \o m.name, type.full_name \o <<sign>> \o m.name}
      <4>1. CASE m.kind = "instance_method"
        BY <1>4, <2>3, <4>1
      <4>2. CASE m.kind # "instance_method"
        BY <1>4, <2>3, <4>2
      <4> QED
        BY <4>1, <4>2
    <3>2. /\ <<>> \in Texts /\ type.full_name \in Texts /\ m.kind \in Methods
          /\ <<sign>> \in Seq({"#", "."})
      BY <1>1, <1>4, NameIs DEF Texts
    <3>3. <<>> \o <<sign>> = <<sign>>
      BY <3>2, ConcatEmptySeq
    <3>4. PICK front \in {<<>>, type.full_name} : word = (front \o <<sign>>) \o m.name
      BY <3>1, <3>3
    <3>5. IsTerm(word) /\ InMethod(Lower(m.name), m.kind, type.full_name, Lower(word))
      BY <3>1, <3>2, <3>4, SignedNameMatches
    <3>6. Lower(word) \in asked
      BY <3>5
    <3> QED
      BY <1>2, <2>1, <3>6
  <2> QED
    BY <2>2, <2>3
<1> QED
  BY <1>3, <1>4

\* A search for one of its names finds a type, a method or a constant.
THEOREM NamesAreFound == SearchSpec => []NamedIsFound
<1>1. SearchInv => NamedIsFound
  <2> SUFFICES ASSUME SearchInv, NEW p \in Places,
                      NEW word \in NamesAt(p), word \in ToSet(query)
               PROVE  p \in DOMAIN found
    BY DEF NamedIsFound
  <2> DEFINE terms == NormalizedTerms(query)
             type == Index[p[1]]
             m == type.members[p[2]]
  <2>1. IsTerm(word) => Lower(word) \in terms
    BY WordIsSought
  <2>2. /\ IsName(type.full_name) /\ IsName(TypeName(type))
        /\ p[2] # 0 => m \in Members /\ IsName(m.name)
    BY PlaceIs
  <2>3. found = Found(terms)
    BY DEF SearchInv
  <2> HIDE DEF terms
  <2>4. CASE p[2] = 0
    <3>1. word \in {type.full_name, TypeName(type)}
      BY <2>4 DEF NamesAt
    <3>2. ResultAt(p, terms) = TypeResult(type, terms)
      BY <2>4 DEF ResultAt
    <3> HIDE DEF type
    <3>3. Lower(type.full_name) \in terms \/ Lower(TypeName(type)) \in terms
      BY <2>1, <2>2, <3>1, NameIs
    <3>4. ResultAt(p, terms).terms # {}
      BY <2>2, <3>2, <3>3, NamedTypeMatches
    <3> QED
      BY <2>3, <3>4, FoundIs
  <2>5. CASE p[2] # 0
    <3>1. LET sign == IF m.kind = "instance_method" THEN <<"#">> ELSE <<".">>
          IN  word \in IF m.kind = "constant" THEN {m.name}
                       ELSE {m.name, sign \o m.name, type.full_name \o sign \o m.name}
      BY <2>5 DEF NamesAt
    <3>2. ResultAt(p, terms) = MemberResult(m, type, terms)
      BY <2>5 DEF ResultAt
    <3> HIDE DEF type, m
    <3>3. ResultAt(p, terms).terms # {}
      BY <2>1, <2>2, <2>5, <3>1, <3>2, NamedMemberMatches
    <3> QED
      BY <2>3, <3>3, FoundIs
  <2> QED
    BY <2>4, <2>5
<1> QED
  BY <1>1, SearchInvariance, PTL

=============================================================================
