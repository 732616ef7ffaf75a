----------------------------- MODULE Workspace -----------------------------
(***************************************************************************)
(* From a directory to a candidate: the walk of packages/workspace/src/    *)
(* snapshot.ts and the manifest it yields, onboarding (onboard.ts), the    *)
(* sealing of a candidate (integrate.ts), the composite verdict over its   *)
(* components (packages/verification-targets) and the disposal of a        *)
(* workspace (cleanup.ts).  The walk looks at one name at a time, in any   *)
(* order, and opens it later by the same name; whoever works in the tree   *)
(* goes on in between.                                                     *)
(***************************************************************************)
EXTENDS Naturals, FiniteSets, SequencesExt

CONSTANTS
  Paths, DirOf, FoldOf, \* places for a file, the directory of each, its NFC lower case
  NamesOf, ExcludedNames, \* the single names on a path, DEFAULT_EXCLUDED_DIRECTORIES and _FILES
  Nodes, NoEntry,          \* [kind, escapes, bytes], and no file at all
  Committed, Ignored,   \* the tree of HEAD, the paths a .gitignore names
  Indexes, Intended,    \* what may be staged, and a path of which only the name is (add -N)
  Components, TargetOf, TargetKinds, \* components of a candidate, the target each must run on
  Places, Inside,       \* workspaces and roots, and what each lies in (itself included)
  OwnedRoot, RegisteredRoots, \* the controller's workspace root, the registered roots
  NoWalk, MaxChanges, MaxCandidates \* bounds: of changes to the tree, of candidates and onboardings

ASSUME WorkspaceConstantsOK ==
  /\ DOMAIN DirOf = Paths /\ DOMAIN FoldOf = Paths /\ DOMAIN NamesOf = Paths
  /\ Nodes \subseteq [kind : {"file", "symlink"}, escapes : BOOLEAN, bytes : Nat]
  /\ NoEntry \notin Nodes /\ Intended \notin Nodes \cup {NoEntry}
  /\ Committed \in [Paths -> Nodes \cup {NoEntry}]
  /\ Indexes \subseteq [Paths -> Nodes \cup {NoEntry, Intended}]
  /\ TargetOf \in [Components -> TargetKinds]
  /\ OwnedRoot \in Places /\ RegisteredRoots \subseteq Places \ {OwnedRoot}
  /\ \A p \in Places : p \in Inside[p]

VARIABLES
  tree, changes,     \* what is where, and how often it was changed
  walk,              \* the snapshot being taken
  quiet,             \* nothing was changed since it began
  sealed, onboarded, \* candidates, and onboarding results
  observations,      \* the last observation of each component
  composites,        \* VERIFIED_FOR_SCOPE verdicts
  dirs,              \* workspaces and roots that exist
  disposed           \* those disposeWorkspace removed

workspaceVars == <<tree, changes, walk, quiet, sealed, onboarded, observations, composites, dirs, disposed>>

Entry(p, node) == [path |-> p, node |-> node]

\* line 84 compares the single name of a directory, line 88 that of a file.
Excluded == {p \in Paths : NamesOf[p] \cap ExcludedNames # {}}

WorkspaceTypeOK ==
  /\ tree \in [Paths -> Nodes \cup {NoEntry}] /\ changes \in 0 .. MaxChanges
  /\ walk = NoWalk \/ (walk.todo \subseteq Paths \ Excluded /\ Cardinality(walk.looked) <= 1)
  /\ quiet \in BOOLEAN /\ Cardinality(sealed) <= MaxCandidates
  /\ \A v \in composites : v.candidate \in sealed /\ v.observed \subseteq sealed
  /\ dirs \subseteq Places /\ disposed \subseteq Places

WorkspaceInit ==
  /\ tree = Committed /\ changes = 0 /\ walk = NoWalk /\ quiet = TRUE
  /\ sealed = {} /\ onboarded = {}
  /\ observations = [k \in Components |-> NoEntry] /\ composites = {}
  /\ dirs = Places /\ disposed = {}

-----------------------------------------------------------------------------
(* git status *)

TreeFiles == {p \in Paths : tree[p] # NoEntry}

\* What the columns of the short format say of a path: its first letter, and M or
\* D as its second.  A T (file for link) or an A (add -N) there is passed over.
Staged(index, p) == (IF index[p] = Intended THEN NoEntry ELSE index[p]) # Committed[p]

Rewritten(index, p) ==
  /\ index[p] \notin {NoEntry, Intended} /\ tree[p] # NoEntry
  /\ tree[p] # index[p] /\ tree[p].kind = index[p].kind

ModifiedTracked(index, p) ==
  Rewritten(index, p) \/ (index[p] # NoEntry /\ tree[p] = NoEntry)

Untracked(index, p) == index[p] = NoEntry /\ tree[p] # NoEntry /\ p \notin Ignored

\* Which staged deletions git pairs with which additions is its own choice: one
\* line 'old -> new' for the two.
Renames(index) ==
  LET gone == {p \in Paths : Committed[p] # NoEntry /\ index[p] = NoEntry}
      come == {p \in Paths : Committed[p] = NoEntry /\ index[p] \in Nodes}
  IN  {pairs \in SUBSET {<<p, q>> : p \in gone, q \in come} : \A r, s \in pairs : r[2] = s[2] => r = s}

Named(lines) == UNION {ToSet(l) : l \in lines}

\* A line is the sequence of the paths in it.
StatusLines(index, pairs) ==
  pairs \cup {<<p>> : p \in {q \in Paths : Untracked(index, q)}}
        \cup {<<p>> : p \in {q \in Paths \ Named(pairs) : Staged(index, q) \/ ModifiedTracked(index, q)}}

\* readGitState: no work tree, a git status that fails and is taken for an empty
\* one, or its lines.
GitStates ==
  {[available |-> a, answered |-> FALSE, index |-> Committed, lines |-> {}] : a \in BOOLEAN}
  \cup UNION {{[available |-> TRUE, answered |-> TRUE, index |-> i, lines |-> StatusLines(i, pairs)] :
                 pairs \in Renames(i)} : i \in Indexes}

-----------------------------------------------------------------------------
(* The walk *)

Directories == {DirOf[p] : p \in Paths}

\* A file outside the root that is reached by a path of the tree: its directory is
\* a link by now.
Astray(p) == tree[p] # NoEntry /\ tree[p].kind = "file" /\ tree[p].escapes

\* Only onboarding asks git, and before it walks.
BeginWalk(purpose, git) ==
  /\ walk = NoWalk /\ Cardinality(sealed) + Cardinality(onboarded) < MaxCandidates
  /\ walk' = [purpose |-> purpose, git |-> git, unseen |-> Directories, unlisted |-> {},
              todo |-> {}, looked |-> {}, entries |-> <<>>]
  /\ quiet' = TRUE
  /\ UNCHANGED <<tree, changes, sealed, onboarded, observations, composites, dirs, disposed>>

\* What lstat said of one name is acted on before the next is looked at.
Opening == walk.unlisted # {} \/ walk.looked # {}

\* lstat of a directory: a link that leaves the root is refused.
SeeDirectory(d) ==
  /\ walk # NoWalk /\ ~Opening /\ d \in walk.unseen
  /\ walk' = IF \E p \in Paths : DirOf[p] = d /\ Astray(p)
             THEN NoWalk
             ELSE [walk EXCEPT !.unseen = @ \ {d}, !.unlisted = {d}]
  /\ UNCHANGED <<tree, changes, quiet, sealed, onboarded, observations, composites, dirs, disposed>>

ListDirectory(d) ==
  /\ walk # NoWalk /\ d \in walk.unlisted
  /\ walk' = [walk EXCEPT !.unlisted = @ \ {d},
                          !.todo = @ \cup {p \in TreeFiles \ Excluded : DirOf[p] = d}]
  /\ UNCHANGED <<tree, changes, quiet, sealed, onboarded, observations, composites, dirs, disposed>>

\* Two names that differ in case or in normalisation only.
Collides(p) == \E i \in DOMAIN walk.entries : FoldOf[walk.entries[i].path] = FoldOf[p]

\* lstat of an entry.  One that is gone by now, or a name that collides with one
\* before it: the walk throws, and there is no snapshot.
LookAt(p) ==
  /\ walk # NoWalk /\ ~Opening /\ p \in walk.todo
  /\ walk' = IF tree[p] = NoEntry \/ Collides(p)
             THEN NoWalk
             ELSE [walk EXCEPT !.todo = @ \ {p}, !.looked = {[path |-> p, kind |-> tree[p].kind]}]
  /\ UNCHANGED <<tree, changes, quiet, sealed, onboarded, observations, composites, dirs, disposed>>

\* readFile follows a link that took the file's place; readlink of what is no link
\* throws, and so does a link that leaves the root.
Unreadable(p, kind) ==
  \/ tree[p] = NoEntry
  \/ kind = "symlink" /\ (tree[p].kind # "symlink" \/ tree[p].escapes)

ReadEntry(p, kind) ==
  /\ walk # NoWalk /\ [path |-> p, kind |-> kind] \in walk.looked
  /\ walk' = IF Unreadable(p, kind)
             THEN NoWalk
             ELSE [walk EXCEPT !.looked = {}, !.entries = Append(@, Entry(p, [tree[p] EXCEPT !.kind = kind]))]
  /\ UNCHANGED <<tree, changes, quiet, sealed, onboarded, observations, composites, dirs, disposed>>

\* A socket or a pipe, a name no manifest may hold, a call that fails.
WalkThrows ==
  /\ walk # NoWalk /\ walk' = NoWalk
  /\ UNCHANGED <<tree, changes, quiet, sealed, onboarded, observations, composites, dirs, disposed>>

\* buildManifest sorts them, so the order of the walk is not part of it.
BuildManifest(entries) == ToSet(entries)

Walked(purpose) ==
  /\ walk # NoWalk /\ walk.purpose = purpose
  /\ walk.unseen = {} /\ ~Opening /\ walk.todo = {}
  /\ walk' = NoWalk

Onboard ==
  /\ Walked("onboard")
  /\ onboarded' = onboarded \cup
       {[git |-> walk.git, source |-> BuildManifest(walk.entries), quiet |-> quiet]}
  /\ UNCHANGED <<tree, changes, quiet, sealed, observations, composites, dirs, disposed>>

-----------------------------------------------------------------------------
(* Sealing and observing a candidate *)

\* The builder reads the tree once more.
BuildTree == {Entry(p, tree[p]) : p \in TreeFiles \ Excluded}

SealCandidate ==
  /\ Walked("seal")
  /\ sealed' = sealed \cup
       {[source |-> BuildManifest(walk.entries), artifact |-> BuildTree, quiet |-> quiet]}
  /\ UNCHANGED <<tree, changes, quiet, onboarded, observations, composites, dirs, disposed>>

\* An observation names a component and not what was observed of it; of two the
\* later counts.
Observe(k, target, status, c) ==
  /\ c \in sealed
  /\ observations' = [observations EXCEPT ![k] = [target |-> target, status |-> status, of |-> c]]
  /\ UNCHANGED <<tree, changes, walk, quiet, sealed, onboarded, composites, dirs, disposed>>

Covered(k) ==
  /\ observations[k] # NoEntry
  /\ observations[k].target = TargetOf[k] /\ observations[k].status = "PASSED"

\* evaluateComposite for the manifest of a candidate.
EvaluateComposite(c) ==
  /\ c \in sealed /\ \A k \in Components : Covered(k)
  /\ composites' = composites \cup
       {[candidate |-> c, observed |-> {observations[k].of : k \in Components}]}
  /\ UNCHANGED <<tree, changes, walk, quiet, sealed, onboarded, observations, dirs, disposed>>

-----------------------------------------------------------------------------
(* Disposing, and what else goes on *)

\* Strictly inside the owned root; every registered root must be there to be
\* looked up, and none may be the target or lie in it.
DisposeWorkspace(w) ==
  /\ w \in dirs \ {OwnedRoot} /\ OwnedRoot \in dirs /\ OwnedRoot \in Inside[w]
  /\ RegisteredRoots \subseteq dirs
  /\ \A r \in RegisteredRoots : w \notin Inside[r]
  /\ dirs' = {d \in dirs : w \notin Inside[d]}
  /\ disposed' = disposed \cup (dirs \ dirs')
  /\ UNCHANGED <<tree, changes, walk, quiet, sealed, onboarded, observations, composites>>

\* A worker, an editor or the client's own git.
Change(p, node) ==
  /\ changes < MaxChanges /\ tree[p] # node
  /\ tree' = [tree EXCEPT ![p] = node]
  /\ changes' = changes + 1 /\ quiet' = FALSE
  /\ UNCHANGED <<walk, sealed, onboarded, observations, composites, dirs, disposed>>

WorkspaceNext ==
  \/ \E git \in GitStates : BeginWalk("onboard", git)
  \/ BeginWalk("seal", NoEntry)
  \/ \E d \in Directories : SeeDirectory(d) \/ ListDirectory(d)
  \/ \E p \in Paths :
       \/ LookAt(p) \/ \E kind \in {"file", "symlink"} : ReadEntry(p, kind)
       \/ \E node \in Nodes \cup {NoEntry} : Change(p, node)
  \/ WalkThrows
  \/ \E w \in Places : DisposeWorkspace(w)
  \/ Onboard \/ SealCandidate
  \/ \E c \in sealed :
       \/ EvaluateComposite(c)
       \/ \E k \in Components, t \in TargetKinds, s \in {"PASSED", "FAILED", "UNVERIFIED"} : Observe(k, t, s, c)

WorkspaceSpec == WorkspaceInit /\ [][WorkspaceNext]_workspaceVars

-----------------------------------------------------------------------------
(* Properties *)

\* A source has of a path what HEAD has.
AsCommitted(p, source) ==
  IF Committed[p] = NoEntry THEN \A e \in source : e.path # p
  ELSE Entry(p, Committed[p]) \in source

\* In whatever order directories and entries were looked at and read: a source
\* digest taken while nothing changed is that of the tree and leads nowhere else, so
\* the candidate was built from what it names, and an onboarding whose git status
\* answered names every difference from HEAD but a link for a file, a name staged
\* without its content and what git ignores.  No snapshot, of a moving tree either,
\* has a link that leaves the root, a path with an excluded name or two that a file
\* system may take for one (snapshot.ts:1-4), and no registered root was ever
\* disposed of (cleanup.ts:1-3).
SnapshotIsTheTree ==
  /\ \A c \in sealed : c.quiet => c.source = c.artifact
  /\ \A s \in sealed \cup onboarded : \A e \in s.source :
       /\ e.path \notin Excluded /\ (s.quiet \/ e.node.kind = "symlink" => ~e.node.escapes)
       /\ \A f \in s.source : FoldOf[e.path] = FoldOf[f.path] => e = f
  /\ \A o \in onboarded : o.quiet /\ o.git.answered =>
       \A p \in Paths \ (Named(o.git.lines) \cup Excluded) :
         \/ AsCommitted(p, o.source)
         \/ o.git.index[p] = Intended
         \/ o.git.index[p] = NoEntry /\ p \in Ignored
         \/ Committed[p] # NoEntry /\ \E e \in o.source : e.path = p /\ e.node.kind # Committed[p].kind
  /\ disposed \cap RegisteredRoots = {}

\* Uncommitted and untracked work is inventory (onboard.ts:2).  A git status that
\* failed is taken for one without a line.
UncommittedIsInventory ==
  \A o \in onboarded : o.quiet /\ o.git.available =>
    \A p \in Paths \ (Named(o.git.lines) \cup Excluded) : AsCommitted(p, o.source)

\* Refuse anything that would leave the root (snapshot.ts:69).  A link that takes
\* the place of a file between lstat and readFile is followed.
NothingLeavesTheRoot == \A s \in sealed \cup onboarded : \A e \in s.source : ~e.node.escapes

\* Generated output is excluded (snapshot.ts:12-17).  'bin/Debug' is compared with
\* single names and found in none.
GeneratedIsLeftOut ==
  \A s \in sealed \cup onboarded : \A e \in s.source : DirOf[e.path] \notin ExcludedNames

\* snapshot -> build -> candidate (integrate.ts:63).  Nothing keeps the tree still
\* in between, so the artifact of a candidate may be of other bytes than its source.
SourceIsWhatWasBuilt == \A c \in sealed : c.source = c.artifact

\* A composite verdict is about one manifest (composite.ts:19-20), but an observation
\* made of an earlier candidate counts for the next.
CompositeIsOfItsCandidate ==
  \A v \in composites : v.observed \subseteq {v.candidate}
=============================================================================
