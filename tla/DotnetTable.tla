---------------------------- MODULE DotnetTable ----------------------------
(***************************************************************************)
(* The .NET SDKs of the dotnet-core-sdk buildpack: for each new SDK the    *)
(* task update-dotnet-sdks-and-compat-table keeps a table from runtimes to *)
(* the SDK to use with each, for the two newest runtimes of a channel, and *)
(* takes an SDK that is replaced out of the dependencies.                  *)
(*                                                                         *)
(* There is a job for each line of SDKs and each handles its versions in   *)
(* order; between lines there is no order.  A pull request is taken to be  *)
(* merged before the next one is made (see CnbUpdate for what happens when *)
(* they overlap).                                                          *)
(***************************************************************************)
EXTENDS Integers, FiniteSets

CONSTANTS
  Sdks,      \* SDKs there will be: [channel, line, number, patch], where patch
             \* is the last part of the version of the runtime in it
  Contains,  \* <<channel, patch, other>>: the version of the runtime contains
             \* the name of another channel
  MaxReruns  \* bound: SDKs that are handled again

ASSUME SdksAssumption ==
  /\ Sdks \subseteq [channel : Nat, line : Nat, number : Nat, patch : Nat]
  /\ IsFiniteSet(Sdks)
ASSUME ContainsAssumption == \A c \in Contains : c[3] # c[1]
ASSUME BoundsAssumption == MaxReruns \in Nat

VARIABLES
  published,  \* releases.json of each channel: the SDKs with a runtime in it
  bare,       \* channels whose newest entry in it has no runtime
  hidden,     \* channels with such an entry before the second latest runtime
  handled,    \* SDKs an update job has been through
  deps,       \* the SDKs among the dependencies in buildpack.toml
  table,      \* runtime-to-sdks in buildpack.toml: a row for the runtime of
              \* each SDK that is in it
  reruns

vars == <<published, bare, hidden, handled, deps, table, reruns>>

Channels == {s.channel : s \in Sdks}

TypeOK ==
  /\ published \subseteq Sdks
  /\ bare \subseteq Channels /\ hidden \subseteq Channels
  /\ handled \subseteq published
  /\ deps \subseteq handled
  /\ table \subseteq handled
  /\ reruns \in 0..MaxReruns

-----------------------------------------------------------------------------
(***************************************************************************)
(* Versions                                                                *)
(***************************************************************************)

SameRuntime(s, t) == s.channel = t.channel /\ s.patch = t.patch

\* Of two SDKs of a channel.
Newer(s, t) ==
  \/ s.line > t.line
  \/ s.line = t.line /\ s.number > t.number

\* The runtimes of a channel after the one of s.
Later(s) ==
  {t.patch : t \in {u \in published :
                      u.channel = s.channel /\ u.patch > s.patch}}

\* The runtime is the latest or the second latest of its channel; for the second
\* the first entry counts that is not the latest, even one without a runtime.
Supported(s) ==
  \/ Later(s) = {}
  \/ Cardinality(Later(s)) = 1 /\ s.channel \notin hidden

\* strings.Contains(runtime version, channel version)
OfChannel(s, channel) ==
  s.channel = channel \/ <<s.channel, s.patch, channel>> \in Contains

\* removeUnsupportedRuntime: the rows that are not kept.
Dropped(channel) ==
  {s \in table : OfChannel(s, channel) /\ ~(s.channel = channel /\ Supported(s))}

\* The SDK of the last row that was dropped; rows are sorted by runtime.
LastOf(rows) ==
  {s \in rows : \A t \in rows :
     \/ t.channel < s.channel
     \/ t.channel = s.channel /\ t.patch <= s.patch}

Row(rows, s) == {t \in rows : SameRuntime(t, s)}

\* Mutant: the SDK in the table is always the one to remove.
RemoveExisting(rows, s) == {t \in Row(rows, s) : t # s}

\* Mutant: only an SDK that is in the table is removed.
ReplacedInTable(rows, s) == {t \in Row(rows, s) : Newer(s, t)}

\* checkSDK: of the SDK in the table and the new one the older.
Replaced(rows, s) ==
  {t \in Row(rows, s) : Newer(s, t)}
    \cup {t \in {s} : \E u \in Row(rows, s) : Newer(u, t)}

-----------------------------------------------------------------------------
(***************************************************************************)
(* The job                                                                 *)
(***************************************************************************)

Init ==
  /\ published = {} /\ bare = {} /\ hidden = {}
  /\ handled = {}
  /\ deps = {} /\ table = {}
  /\ reruns = 0

\* Upstream releases an SDK: in a line in order, and in a channel the runtimes
\* in order.  With a new latest runtime, the second latest is looked for from
\* what was the newest entry on.
Publish(s) ==
  /\ s \notin published
  /\ \A t \in Sdks : t.channel = s.channel /\ t.line = s.line
                      /\ t.number < s.number => t \in published
  /\ \A t \in published : t.channel = s.channel => t.patch <= s.patch
  /\ published' = published \cup {s}
  /\ bare' = bare \ {s.channel}
  /\ hidden' = IF \A t \in published : t.channel = s.channel => t.patch < s.patch
               THEN (hidden \ {s.channel}) \cup (bare \cap {s.channel})
               ELSE hidden
  /\ UNCHANGED <<handled, deps, table, reruns>>

\* Upstream's list gets an entry without a runtime.  Its SDK, if it has one, has
\* no job: fetching it needs the version of its runtime.
PublishBare(channel) ==
  /\ bare' = bare \cup {channel}
  /\ hidden' = hidden \cup {channel}
  /\ UNCHANGED <<published, handled, deps, table, reruns>>

\* Mutant: the job has a version before releases.json has it.
TakeEarly(s) ==
  /\ \A t \in published : t.channel = s.channel /\ t.line = s.line
                          /\ t.number < s.number => t \in handled
  /\ handled' = handled \cup {s}
  /\ IF s \in handled THEN reruns < MaxReruns /\ reruns' = reruns + 1
     ELSE UNCHANGED reruns
  /\ UNCHANGED <<published, bare, hidden>>

\* The job of a line takes every version in order (`version: every`), or one it
\* had again.  update-cnb-dependency has added the SDK.
Take(s) ==
  /\ s \in published
  /\ \A t \in published : t.channel = s.channel /\ t.line = s.line
                          /\ t.number < s.number => t \in handled
  /\ handled' = handled \cup {s}
  /\ IF s \in handled THEN reruns < MaxReruns /\ reruns' = reruns + 1
     ELSE UNCHANGED reruns
  /\ UNCHANGED <<published, bare, hidden>>

\* addSDKToRuntime, and removeUnusedSDK for the one version it returns.
AddToTable(s) ==
  LET kept == table \ Dropped(s.channel)
  IN  /\ Take(s)
      /\ Supported(s)
      /\ table' = (kept \cup {s}) \ Replaced(kept, s)
      /\ deps' = (deps \cup {s}) \
           (IF Row(kept, s) = {} THEN LastOf(Dropped(s.channel))
            ELSE Replaced(kept, s))

\* "only the two latest versions are supported"
Refuse(s) ==
  /\ Take(s)
  /\ ~Supported(s)
  /\ deps' = deps \ {s}
  /\ UNCHANGED table

Next ==
  \/ \E s \in Sdks : Publish(s) \/ AddToTable(s) \/ Refuse(s)
  \/ \E channel \in Channels : PublishBare(channel)

Spec == Init /\ [][Next]_vars

-----------------------------------------------------------------------------
(***************************************************************************)
(* Properties                                                              *)
(***************************************************************************)

\* The runtime is not taken for one of another channel.
Unmistakable(s) == \A c \in Contains : <<s.channel, s.patch>> # <<c[1], c[2]>>

\* Whatever the order in which lines are handled, an SDK that was handled has a
\* row for its runtime, with this SDK or a newer one, which is a dependency; as
\* long as the runtime is supported and contains no name of another channel.
SupportedSdkIsOffered ==
  \A s \in handled : Supported(s) /\ Unmistakable(s) =>
    \E t \in table \cap deps : SameRuntime(t, s) /\ ~Newer(s, t)

\* There is one SDK for a runtime that is supported: the task takes out what it
\* replaces, although it remembers a single version to remove.
SupportedHasOneSdk ==
  \A s, t \in deps :
    Supported(s) /\ Unmistakable(s) /\ SameRuntime(s, t) => s = t

=============================================================================
