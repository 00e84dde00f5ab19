------------------------------- MODULE DocPage -------------------------------
(***************************************************************************)
(* A page of depwatcher's API documentation as its script runs it          *)
(* (dockerfiles/depwatcher/docs/js/doc.js): the search box with its delay, *)
(* the index that arrives some time after the page, searches and Enter     *)
(* keys that wait for it, the highlighted result, the types list, the      *)
(* usage dialog, and what sessionStorage keeps from one page to the next.  *)
(* What a search finds is DocSearch; here it is how many results a query   *)
(* has.                                                                    *)
(*                                                                         *)
(* A browser runs one event handler at a time, to its end: every action is *)
(* a handler.  External: the user, the timers and the arrival of the       *)
(* index.  Scrolling and what the results look like are left out.          *)
(***************************************************************************)
EXTENDS Integers, Sequences

CONSTANTS
  Queries,     \* texts a user may type, the empty one aside
  Hits,        \* [Queries -> how many results are displayed]
  Parents,     \* types that have types of their own
  Empty, NoText, NoResult, NoKey,
  MaxDelayed,  \* bound: searches that wait for the index
  MaxEnters    \* bound: Enter keys that wait for a search

Inputs == Queries \cup {Empty}

\* A result is a query whose search displayed it and its place in the list.
Results == UNION {{q} \X (1..Hits[q]) : q \in Queries}

ASSUME DocPageAssumption ==
  /\ Hits \in [Queries -> Nat]
  /\ Empty \notin Queries /\ NoText \notin Queries /\ Empty # NoText
  /\ NoResult \notin Results
  /\ MaxDelayed \in Nat /\ MaxEnters \in Nat

Shortcuts == {"s", "?"}      \* "s" also stands for "/"

\* The arrows also stand for the letters with Ctrl that do the same.
Keys == {"Enter", "Escape", "ArrowUp", "ArrowDown"} \cup Shortcuts

VARIABLES
  text,        \* searchInput.value
  last,        \* lastSearchText
  debounce,    \* searchTimeout is running
  performing,  \* performingSearch
  loaded,      \* searchIndex has arrived
  onLoad,      \* performSearch listens to CrystalDoc:loaded (a #q= link)
  delayed,     \* searches that listen to it, in order
  enters,      \* Enter keys that listen to searchPerformed
  due,         \* Enter keys whose 100 ms are running
  listed,      \* the query of .search-list, NoText when nothing was searched
  visible,     \* .search-results is shown in place of .types-list
  current,     \* navigator.current
  pressed,     \* the key that is down
  focus,       \* where key events go: input, sidebar or the rest of the page
  modal,       \* the usage dialog is shown
  openTypes,   \* parents with class open
  savedText,   \* sessionStorage: search-input:value
  savedTypes   \* sessionStorage: the parents with an entry

search   == <<text, last, debounce, performing>>
index    == <<loaded, onLoad, delayed>>
waiting  == <<enters, due>>
results  == <<listed, visible>>
keyboard == <<pressed, focus>>
types    == <<openTypes, savedTypes>>
vars == <<search, index, waiting, results, current, keyboard, modal, types,
          savedText>>

TypeOK ==
  /\ text \in Inputs
  /\ last \in Inputs \cup {NoText}
  /\ debounce \in BOOLEAN /\ performing \in BOOLEAN
  /\ loaded \in BOOLEAN /\ onLoad \in BOOLEAN
  /\ delayed \in Seq(Queries)
  /\ enters \in 0..MaxEnters /\ due \in 0..MaxEnters
  /\ listed \in Queries \cup {NoText}
  /\ visible \in BOOLEAN
  /\ current \in Results \cup {NoResult}
  /\ pressed \in Keys \cup {NoKey}
  /\ focus \in {"input", "sidebar", "page"}
  /\ modal \in BOOLEAN
  /\ openTypes \subseteq Parents
  /\ savedText \in Inputs
  /\ savedTypes \subseteq Parents

\* DOMContentLoaded.  The script of the page of a type finds the type and those
\* around it open, and opens what the storage has.
Init ==
  /\ text \in Inputs /\ savedText = Empty
  /\ onLoad = (text # Empty)
  /\ last = NoText /\ debounce = FALSE /\ performing = FALSE
  /\ loaded = FALSE /\ delayed = <<>>
  /\ enters = 0 /\ due = 0
  /\ listed = NoText /\ visible = FALSE /\ current = NoResult
  /\ pressed = NoKey /\ focus = "page" /\ modal = FALSE
  /\ openTypes \in SUBSET Parents /\ savedTypes = {}

\* A result on another page is opened: its page loads, with the text and the
\* types that the storage has, and no search yet.
LoadPage ==
  /\ text' = savedText
  /\ last' = NoText /\ debounce' = FALSE /\ performing' = FALSE
  /\ loaded' = FALSE /\ onLoad' = FALSE /\ delayed' = <<>>
  /\ enters' = 0 /\ due' = 0
  /\ listed' = NoText /\ visible' = FALSE /\ current' = NoResult
  /\ pressed' = NoKey /\ focus' = "page" /\ modal' = FALSE
  /\ \E own \in SUBSET Parents : openTypes' = own \cup savedTypes
  /\ UNCHANGED <<savedText, savedTypes>>

-----------------------------------------------------------------------------
(***************************************************************************)
(* Searching.                                                              *)
(***************************************************************************)

\* Mutant: a highlight that is there stays.
FirstOrCurrent(query) ==
  IF query # NoText /\ Hits[query] > 0 /\ current = NoResult
  THEN <<query, 1>> ELSE current

\* highlightFirst: nothing changes when the list is empty.
FirstOf(query) ==
  IF query # NoText /\ Hits[query] > 0 THEN <<query, 1>> ELSE current

\* performSearch: announces a search and starts the 200 ms over.
PerformSearch == debounce' = TRUE /\ performing' = TRUE

\* Search events reach the navigator: Enter keys that waited get their 100 ms.
SearchPerformed(query) ==
  /\ listed' = query /\ visible' = TRUE
  /\ performing' = FALSE
  /\ due' = due + enters /\ enters' = 0

\* Mutant: a search before the index is there is forgotten.
ForgetSearch(query) ==
  IF loaded THEN SearchPerformed(query) /\ UNCHANGED delayed
  ELSE UNCHANGED <<delayed, listed, visible, performing, enters, due>>

\* CrystalDoc.search, from the debounce timer.
Search(query) ==
  IF loaded THEN SearchPerformed(query) /\ UNCHANGED delayed
  ELSE /\ Len(delayed) < MaxDelayed
       /\ delayed' = Append(delayed, query)
       /\ UNCHANGED <<listed, visible, performing, enters, due>>

\* What the handler of the debounce timer does with a new text, with the one
\* searched last and with none.
SearchNew ==
  /\ text # Empty /\ text # last
  /\ Search(text)
  /\ current' = FirstOf(listed')
  /\ focus' = "input"

SearchAgain ==
  /\ text # Empty /\ text = last
  /\ performing' = FALSE
  /\ UNCHANGED <<delayed, results, waiting, current, focus>>

SearchNothing ==
  /\ text = Empty
  /\ visible' = FALSE
  /\ UNCHANGED <<delayed, performing, listed, waiting, current, focus>>

\* Mutant: the text is not stored.
DebounceNotStored ==
  /\ debounce
  /\ debounce' = FALSE
  /\ SearchNew \/ SearchAgain \/ SearchNothing
  /\ last' = text
  /\ UNCHANGED <<text, loaded, onLoad, pressed, modal, types, savedText>>

Debounce ==
  /\ debounce
  /\ debounce' = FALSE
  /\ SearchNew \/ SearchAgain \/ SearchNothing
  /\ last' = text /\ savedText' = text
  /\ UNCHANGED <<text, loaded, onLoad, pressed, modal, types>>

\* Mutant: the listeners run in the opposite order.
RunFirstDelayed ==
  IF delayed = <<>>
  THEN /\ performing' = (performing \/ onLoad)
       /\ UNCHANGED <<results, waiting>>
  ELSE SearchPerformed(delayed[1])

\* The searches that waited run one after the other, each replacing the list of
\* the one before.  The listener of a #q= link was there before them.
RunDelayed ==
  IF delayed = <<>>
  THEN /\ performing' = (performing \/ onLoad)
       /\ UNCHANGED <<results, waiting>>
  ELSE SearchPerformed(delayed[Len(delayed)])

\* initializeIndex.  The types list, which takes the key events of the sidebar,
\* is hidden with a list of results in its place.
LoadIndex ==
  /\ ~loaded
  /\ loaded' = TRUE
  /\ RunDelayed
  /\ delayed' = <<>>
  /\ debounce' = (debounce \/ onLoad)
  /\ focus' = IF visible' /\ focus = "sidebar" THEN "page" ELSE focus
  /\ UNCHANGED <<text, last, onLoad, current, pressed, modal, types, savedText>>

-----------------------------------------------------------------------------
(***************************************************************************)
(* The navigator.                                                          *)
(***************************************************************************)

\* An element of a list that was replaced has no siblings.
Attached(result) == result # NoResult /\ result[1] = listed

\* Mutant: the end of the list is not looked at.
MovedOut(upwards) ==
  LET next == IF upwards THEN current[2] - 1 ELSE current[2] + 1
  IN  IF current = NoResult THEN FirstOf(listed)
      ELSE IF Attached(current) THEN <<listed, next>> ELSE current

\* move
Moved(upwards) ==
  LET next == IF upwards THEN current[2] - 1 ELSE current[2] + 1
  IN  IF current = NoResult THEN FirstOf(listed)
      ELSE IF Attached(current) /\ next \in 1..Hits[listed]
           THEN <<listed, next>> ELSE current

\* openSelectedResult when the result is on another page.
OpenElsewhere ==
  /\ current # NoResult
  /\ LoadPage

\* openSelectedResult, when there is nothing to open or it is on this page, and
\* leaveSearchScope.
OpenHere ==
  /\ visible' = FALSE
  /\ UNCHANGED <<search, index, listed, current, modal, types, savedText>>

\* The callback of delayWhileSearching, 100 ms after the search.
EnterIsDue ==
  /\ due > 0
  /\ \/ OpenElsewhere
     \/ OpenHere /\ due' = due - 1 /\ UNCHANGED <<enters, keyboard>>

PressEnter ==
  /\ pressed = NoKey
  /\ focus = "sidebar" \/ (focus = "input" /\ ~performing)
  /\ \/ OpenElsewhere
     \/ OpenHere /\ pressed' = "Enter" /\ UNCHANGED <<waiting, focus>>

\* Enter in the search box while a search is announced.
PressEnterEarly ==
  /\ pressed = NoKey /\ focus = "input" /\ performing
  /\ enters + due < MaxEnters
  /\ enters' = enters + 1
  /\ pressed' = "Enter"
  /\ UNCHANGED <<search, index, due, results, current, focus, modal, types,
                 savedText>>

PressEscape ==
  /\ pressed = NoKey /\ focus # "page"
  /\ visible' = FALSE
  /\ focus' = "sidebar"
  /\ pressed' = "Escape"
  /\ UNCHANGED <<search, index, waiting, listed, current, modal, types,
                 savedText>>

PressArrow(key) ==
  /\ pressed = NoKey /\ focus # "page"
  /\ current' = Moved(key = "ArrowUp")
  /\ pressed' = key
  /\ UNCHANGED <<search, index, waiting, results, focus, modal, types,
                 savedText>>

\* A key that writes into the search box, or the same without a key (a paste).
Type(key, new) ==
  /\ pressed = NoKey /\ focus = "input"
  /\ new # text /\ text' = new
  /\ PerformSearch
  /\ pressed' = key
  /\ UNCHANGED <<last, index, waiting, results, current, focus, modal, types,
                 savedText>>

\* A key that no handler of keydown looks at.
PressElsewhere(key) ==
  /\ pressed = NoKey
  /\ focus = "page" \/ (focus = "sidebar" /\ key \in Shortcuts)
  /\ pressed' = key
  /\ UNCHANGED <<search, index, waiting, results, current, focus, modal, types,
                 savedText>>

\* Any key released in the search box starts the delay of a search.
ReleaseInInput ==
  /\ pressed # NoKey /\ focus = "input"
  /\ PerformSearch
  /\ pressed' = NoKey
  /\ UNCHANGED <<text, last, index, waiting, results, current, focus, modal,
                 types, savedText>>

\* handleShortkeys
ReleaseElsewhere ==
  /\ pressed # NoKey /\ focus # "input"
  /\ IF pressed = "s" /\ ~modal
     THEN /\ focus' = "input"
          /\ current' = FirstOf(listed)
          /\ PerformSearch
     ELSE UNCHANGED <<focus, current, debounce, performing>>
  /\ modal' = (pressed = "?" \/ (modal /\ pressed # "Escape"))
  /\ pressed' = NoKey
  /\ UNCHANGED <<text, last, index, waiting, results, types, savedText>>

-----------------------------------------------------------------------------
(***************************************************************************)
(* The mouse.                                                              *)
(***************************************************************************)

\* A result in the list is a link.
ClickResult(result) ==
  /\ visible /\ Attached(result)
  /\ \/ LoadPage
     \/ UNCHANGED vars       \* it is on this page

\* Another link of the page.
ClickLink == LoadPage

MoveFocus(place) ==
  /\ focus # place /\ (place = "sidebar" => ~visible)
  /\ focus' = place
  /\ UNCHANGED <<search, index, waiting, results, current, pressed, modal,
                 types, savedText>>

CloseModal ==
  /\ modal
  /\ modal' = FALSE
  /\ UNCHANGED <<search, index, waiting, results, current, keyboard, types,
                 savedText>>

\* Mutant: the entry in the storage outlives the class.
ToggleTypeOnly(p) ==
  /\ ~visible
  /\ openTypes' = IF p \in openTypes THEN openTypes \ {p} ELSE openTypes \cup {p}
  /\ savedTypes' = savedTypes \cup {p}
  /\ UNCHANGED <<search, index, waiting, results, current, keyboard, modal,
                 savedText>>

\* The handler of a click on a parent in the types list.
ToggleType(p) ==
  /\ ~visible
  /\ openTypes' = IF p \in openTypes THEN openTypes \ {p} ELSE openTypes \cup {p}
  /\ savedTypes' = IF p \in openTypes THEN savedTypes \ {p} ELSE savedTypes \cup {p}
  /\ UNCHANGED <<search, index, waiting, results, current, keyboard, modal,
                 savedText>>

-----------------------------------------------------------------------------

Press ==
  \/ PressEnter \/ PressEnterEarly \/ PressEscape
  \/ \E key \in {"ArrowUp", "ArrowDown"} : PressArrow(key)
  \/ \E key \in Shortcuts \cup {NoKey}, new \in Inputs : Type(key, new)
  \/ \E key \in Keys : PressElsewhere(key)

Mouse ==
  \/ \E result \in Results : ClickResult(result)
  \/ ClickLink
  \/ \E place \in {"input", "sidebar", "page"} : MoveFocus(place)
  \/ CloseModal
  \/ \E p \in Parents : ToggleType(p)

Next ==
  \/ Debounce \/ LoadIndex \/ EnterIsDue
  \/ Press \/ ReleaseInInput \/ ReleaseElsewhere
  \/ Mouse

Spec == Init /\ [][Next]_vars

\* Timers run out and the index arrives.  The user need not do anything.
Fairness == WF_vars(Debounce) /\ WF_vars(LoadIndex) /\ WF_vars(EnterIsDue)

FairSpec == Spec /\ Fairness

-----------------------------------------------------------------------------
(***************************************************************************)
(* Properties.                                                             *)
(***************************************************************************)

\* Once the delay is over, a list that is shown is the one of the text in the
\* search box, whatever was typed while the index was on its way and however
\* the searches that waited for it ran.  The exception is a box that was emptied
\* meanwhile: the searches that wait are not called off (search, performSearch).
ListedIsTyped ==
  visible /\ ~debounce => listed = text \/ text = Empty

\* The text that the next page starts with is the one in the box, once the delay
\* is over (setPersistentSearchQuery).
SavedIsTyped ==
  ~debounce /\ last # NoText => savedText = text

\* The highlighted result is in the list, unless the list has none: then the
\* highlight stays on an element of the list before (highlightFirst).
HighlightIsListed ==
  current # NoResult =>
    listed # NoText /\ (Attached(current) \/ Hits[listed] = 0)

\* A parent that was opened is open, on this page and on the next ones.
RememberedIsOpen == savedTypes \subseteq openTypes

\* A page that just loaded, on which nothing was searched.
Fresh == ~debounce /\ last = NoText

\* A search for a text that stays in the box is performed, although the index
\* may come later than the search and the delay may start over, unless the user
\* goes on to another page (performSearch, search, initializeIndex).
SearchIsShown ==
  \A q \in Queries : (text = q /\ debounce) ~> (listed = q \/ text # q \/ Fresh)

=============================================================================
