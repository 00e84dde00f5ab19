---------------------------- MODULE VersionLines ----------------------------
(***************************************************************************)
(* How an upstream version of ONE dependency reaches the pipeline:         *)
(* depwatcher's check (one resource per version line and one, `latest`,    *)
(* without a filter), the job that asks for a new version line, and the    *)
(* check that the lines of dependency-builds.yml do not overlap.           *)
(*                                                                         *)
(* What DependencyBuilds calls Discover is a version being reported by the *)
(* resource of its line here.  Upstream and the developers who edit        *)
(* dependency-builds.yml are external.                                     *)
(***************************************************************************)
EXTENDS Integers, FiniteSets, SequencesExt

CONSTANTS
  Upstream,     \* versions upstream may publish, in any order
  FirstLines,   \* the lines of dependency-builds.yml at the start
  MoreLines,    \* lines that developers may add
  Window        \* how many versions a watcher returns: last(10)

\* Version lines are texts: digits, dots and the wildcard X, as numbers.
Dot == 10
X == 11
Latest == <<>>     \* the resource without a version_filter

Segments == 0..999

ASSUME LinesAssumption ==
  /\ Upstream \subseteq [major : Segments, minor : Segments, patch : Segments,
                         suffix : Seq(0..9)]
  /\ FirstLines \cup MoreLines \subseteq Seq(0..11) \ {Latest}
  /\ Window \in Nat \ {0}

Resources == FirstLines \cup MoreLines \cup {Latest}

VARIABLES
  sorts,      \* whether the dependency's watcher sorts what it finds
  lines,      \* the lines in dependency-builds.yml
  published,  \* what upstream offers, the newest publication last
  reported,   \* [Resources -> versions the resource has reported]
  last,       \* [Resources -> the version the next check is given, if any]
  handled,    \* versions create-<dep>-new-line-story has run for
  stories,    \* versions it has created a story for
  late        \* history: published below what their resource is given

vars == <<sorts, lines, published, reported, last, handled, stories, late>>

-----------------------------------------------------------------------------
(***************************************************************************)
(* SemanticVersion and SemanticVersionFilter.                              *)
(***************************************************************************)

Digits(n) ==
  IF n < 10 THEN <<n>>
  ELSE IF n < 100 THEN <<n \div 10, n % 10>>
  ELSE <<n \div 100, (n \div 10) % 10, n % 10>>

Text(v) ==
  Digits(v.major) \o <<Dot>> \o Digits(v.minor) \o <<Dot>> \o Digits(v.patch)

\* What follows the third segment is compared as a string.
TextLess(s, t) ==
  \/ s # t /\ IsPrefix(s, t)
  \/ \E i \in DOMAIN s \cap DOMAIN t :
       s[i] < t[i] /\ SubSeq(s, 1, i - 1) = SubSeq(t, 1, i - 1)

\* <=>
Less(v, w) ==
  \/ v.major < w.major
  \/ v.major = w.major /\ v.minor < w.minor
  \/ v.major = w.major /\ v.minor = w.minor /\ v.patch < w.patch
  \/ v.major = w.major /\ v.minor = w.minor /\ v.patch = w.patch
       /\ TextLess(v.suffix, w.suffix)

XCount(line) == Cardinality({i \in DOMAIN line : line[i] = X})

BeforeX(line) == SubSeq(line, 1, SelectInSeq(line, LAMBDA c : c = X) - 1)

\* match
Matches(line, v) ==
  IF XCount(line) = 0
  THEN Text(v) = line
  ELSE IsPrefix(BeforeX(line), Text(v)) /\ Len(line) <= Len(Text(v))

\* Mutant: no two lines are found to overlap.
NeverOverlap(L) == FALSE

\* check_for_lines_overlap: lines with different numbers of wildcards that
\* have a common prefix.
LinesOverlap(L) ==
  \E l, m \in L : XCount(l) # XCount(m) /\ Head(l) = Head(m)

Relevant(r, v) == r = Latest \/ Matches(r, v)

-----------------------------------------------------------------------------

Published == ToSet(published)

TypeOK ==
  /\ sorts \in BOOLEAN
  /\ FirstLines \subseteq lines /\ lines \subseteq FirstLines \cup MoreLines
  /\ published \in Seq(Upstream)
  /\ reported \in [Resources -> SUBSET Published]
  /\ last \in [Resources -> {{}} \cup {{v} : v \in Published}]
  /\ stories \subseteq handled /\ handled \subseteq reported[Latest]
  /\ late \subseteq Published

\* Most watchers sort (httpd.cr); python.cr, rubygems.cr and dotnet.cr do not.
Init ==
  /\ sorts \in BOOLEAN
  /\ lines = FirstLines /\ ~LinesOverlap(FirstLines)
  /\ published = <<>>
  /\ reported = [r \in Resources |-> {}]
  /\ last = [r \in Resources |-> {}]
  /\ handled = {} /\ stories = {} /\ late = {}

\* The resources that would report v now.
Watching(v) ==
  LET matching == {l \in lines : Matches(l, v)}
  IN  IF matching = {} THEN {Latest} ELSE matching

\* Upstream lists the newest publication first, whatever its number.
Publish(v) ==
  /\ v \notin Published
  /\ published' = Append(published, v)
  /\ late' = IF \A r \in Watching(v) : \E w \in last[r] : Less(v, w)
             THEN late \cup {v} ELSE late
  /\ UNCHANGED <<sorts, lines, reported, last, handled, stories>>

\* What upstream lists, reversed (python.cr, rubygems.cr, dotnet.cr).
PublishedBefore(v, w) ==
  \E i, j \in DOMAIN published : i < j /\ published[i] = v /\ published[j] = w

\* The order of the list that a watcher returns.
Before(v, w) == IF sorts THEN Less(v, w) ELSE PublishedBefore(v, w)

\* The end of that list: last(10), or first(10) before it is reversed.
Offered ==
  {v \in Published : Cardinality({w \in Published : Before(v, w)}) < Window}

\* Mutant of the filter of check.cr: only the newest version is returned.
NewestOnly(r) ==
  {v \in Offered : /\ Relevant(r, v)
                   /\ \A w \in Offered : Relevant(r, w) => ~Less(v, w)}

\* Those the version_filter lets through and that are not below the one version
\* Concourse passes; they are not compared with each other.
Unknown(r) ==
  {v \in Offered : Relevant(r, v) /\ \A w \in last[r] : ~Less(v, w)}

\* Concourse keeps the versions of a check and, when one of them is new, takes the
\* last of the list for the next check.
Store(r, versions) ==
  \/ /\ versions \subseteq reported[r]
     /\ UNCHANGED <<reported, last>>
  \/ /\ ~(versions \subseteq reported[r])
     /\ reported' = [reported EXCEPT ![r] = @ \cup versions]
     /\ \E v \in versions : /\ \A w \in versions \ {v} : Before(w, v)
                            /\ last' = [last EXCEPT ![r] = {v}]

\* check.cr for the resource r.
Check(r) ==
  /\ r \in lines \cup {Latest}
  /\ Store(r, Unknown(r))
  /\ UNCHANGED <<sorts, lines, published, handled, stories, late>>

\* Mutant: the job runs for versions that have not been reported.
NewLineJobTooEarly(v) ==
  /\ v \in Published \ handled
  /\ handled' = handled \cup {v}
  /\ stories' = IF \E l \in lines : Matches(l, v) THEN stories
                ELSE stories \cup {v}
  /\ UNCHANGED <<sorts, lines, published, reported, last, late>>

\* create-new-version-line-story.rb
NewLineJob(v) ==
  /\ v \in reported[Latest] \ handled
  /\ handled' = handled \cup {v}
  /\ stories' = IF \E l \in lines : Matches(l, v) THEN stories
                ELSE stories \cup {v}
  /\ UNCHANGED <<sorts, lines, published, reported, last, late>>

\* dependency-builds.yml gets a line; the template refuses lines that overlap.
AddLine(l) ==
  /\ l \notin lines
  /\ ~LinesOverlap(lines \cup {l})
  /\ lines' = lines \cup {l}
  /\ UNCHANGED <<sorts, published, reported, last, handled, stories, late>>

Next ==
  \/ \E v \in Upstream : Publish(v) \/ NewLineJob(v)
  \/ \E r \in Resources : Check(r)
  \/ \E l \in MoreLines : AddLine(l)

\* Concourse checks every resource each hour and starts what that triggers.
Fairness ==
  /\ \A r \in Resources : WF_vars(Check(r))
  /\ \A v \in Upstream : WF_vars(NewLineJob(v))

Spec == Init /\ [][Next]_vars

FairSpec == Spec /\ Fairness

-----------------------------------------------------------------------------
(***************************************************************************)
(* Properties.                                                             *)
(***************************************************************************)

\* Where the watcher sorts, a resource brings up versions in ascending order,
\* whatever order upstream publishes them in and however many a check finds: what
\* a check adds is above everything the resource ever reported, although check.cr
\* compares with a single version.  Watchers that do not sort are exempt: of 1.3.0
\* and 1.2.9 in one list, 1.2.9 may come last and is passed to the next check, which
\* then reports 1.2.10 after 1.3.0.  What becomes of versions that are reported like
\* that is the subject of DependencyBuilds, which assumes no order.
ReportedInOrder ==
  [][sorts =>
       \A r \in Resources : \A v \in reported'[r] \ reported[r] :
         \A w \in reported[r] : Less(w, v)]_vars

\* A version is built by the jobs of one line: two resources with a filter never
\* report the same version.  The error message says that "overlapping version
\* lines are not supported (e.g. 1.X.X and 1.2.X)" (dependency-builds.yml.erb).
OneLinePerVersion ==
  \A l, m \in lines : l # m => reported[l] \cap reported[m] = {}

\* What OneLinePerVersion needs to hold of the lines, because the check of the
\* template only compares lines with different numbers of wildcards, and by their
\* first character only: no line starts with the wildcard, and no line has what
\* stands before the wildcards of another one at its start (2.1.X and 2.1.4X).
LinesStandApart ==
  \A l, m \in FirstLines \cup MoreLines :
    /\ Head(l) # X
    /\ XCount(l) = XCount(m) /\ XCount(l) # 0 /\ IsPrefix(BeforeX(l), BeforeX(m))
         => l = m

\* A version that is published is reported by the resource of a line, or there
\* is a story for a new line, however checks, publications and new lines
\* interleave: unless newer versions pushed it out of what the watcher returns,
\* or it came below the version its resource is given (check.cr,
\* create-new-version-line-story.rb).  This goes for watchers that sort and for
\* those that do not.
EveryVersionIsNoticed ==
  \A v \in Upstream :
    (v \in Published) ~> (\/ \E l \in lines : v \in reported[l]
                          \/ v \in stories
                          \/ v \notin Offered
                          \/ v \in late)

=============================================================================
