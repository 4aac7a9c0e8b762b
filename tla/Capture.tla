------------------------------ MODULE Capture -------------------------------
(***************************************************************************)
(* A capture of the target: GitTargetAdapter.capture ("clean"), and        *)
(* CaptureCoordinator.capture_stable over the Git adapter ("live") and     *)
(* over FilesystemTargetAdapter ("files"), or a read of the target's       *)
(* policy file alone, GitTargetAdapter.read_target_policy ("policy"),      *)
(* while somebody edits, stages and commits.                               *)
(*                                                                         *)
(* The target is a set of objects: files, directories, the branch HEAD     *)
(* names as a loose ref and as an entry of packed-refs, the index, the     *)
(* files that configure Git, and the Git directory as such. Each has a     *)
(* value and a stamp, which stands for its stat identity (device, inode,   *)
(* mode, links, size, mtime, ctime): every change of an object gives it a  *)
(* stamp nothing had before. Refs and index are trees, a map from tracked  *)
(* paths to contents; Git objects are immutable and appear as contents.    *)
(*                                                                         *)
(* What reads between two equal identities is one step here: a change in   *)
(* between makes the code raise, then or when it leaves the directory.     *)
(***************************************************************************)
EXTENDS Naturals, Sequences

CONSTANTS
  File,        \* paths of files
  Dir,         \* paths of directories, Root included
  Root,        \* the target root
  Policy,      \* acg.toml, a file at the root
  Parent,      \* the directory of a path
  Depth,       \* how far below the root a path is
  Git,         \* the Git directory
  HEAD,        \* the HEAD file and the loose ref it names
  Packed,      \* packed-refs, if it has an entry for that ref
  Index,
  Config,      \* the config file: does it list nothing unsupported
  Content,
  Nothing,     \* not read, not there, no answer
  Targets,     \* targets a capture may find
  Requests,    \* sets of instruction or required paths a caller may ask for
  MaxChanges   \* bound: changes of the target

Node   == File \cup Dir
Source == {Root, Git, Policy, HEAD, Packed, Index, Config}
Object == Node \cup Source
Tree   == UNION {[S -> Content] : S \in SUBSET File}

\* What one reading of an object yields.
Reading(o) ==
  [value : CASE o \in File           -> Content
             [] o \in Dir            -> SUBSET Node
             [] o = Index            -> Tree
             [] o \in {HEAD, Packed} -> Tree \cup {Nothing}
             [] o = Config           -> BOOLEAN
             [] o = Git              -> {{}},
   stamp : Nat]

Present(d, n) == n \in d[Parent[n]].value
FilesIn(d)    == {p \in File : Present(d, p)}
DirsIn(d)     == {a \in Dir \ {Root} : Present(d, a)}

\* The directories above a path: all that is in every set that holds the
\* directory of the path and, with a directory, the one it is in.
Above(n) ==
  {a \in Dir : \A S \in SUBSET Dir :
     Parent[n] \in S /\ (\A b \in S \ {Root} : Parent[b] \in S) => a \in S}

\* Directories with a path of S in them.
DirsOf(S) == UNION {Above(p) : p \in S}

ASSUME CaptureAssumption ==
  /\ Root \in Dir
  /\ Parent \in [Node \ {Root} -> Dir]
  /\ Policy \in File /\ Parent[Policy] = Root
  /\ Depth \in [Node -> Nat]
  /\ Depth[Root] = 0
  /\ \A n \in Node \ {Root} : Depth[n] = Depth[Parent[n]] + 1
  /\ File \cap Dir = {}
  /\ Node \cap {Git, HEAD, Packed, Index, Config} = {}
  /\ LET s == <<Git, HEAD, Packed, Index, Config>>
     IN  \A i, j \in 1..5 : s[i] = s[j] => i = j
  /\ Nothing \notin Content /\ Nothing \notin Tree /\ Nothing \notin {TRUE, FALSE}
  /\ \A S \in SUBSET Node : Nothing # S
  /\ \A o \in Object : Nothing \notin Reading(o)
  /\ Requests \subseteq SUBSET File
  /\ MaxChanges \in Nat

\* Targets start with stamp 0 everywhere and hold no path without its parent.
ASSUME TargetsAssumption ==
  \A d \in Targets :
    /\ d = [o \in Object |-> d[o]]
    /\ \A o \in Object : d[o] \in Reading(o) /\ d[o].stamp = 0
    /\ \A a \in Dir : d[a].value \subseteq {n \in Node \ {Root} : Parent[n] = a}
    /\ \A a \in Dir \ {Root} : d[a].value # {} => Present(d, a)

VARIABLES
  disk,      \* the target
  clock,     \* how often it changed; the last stamp given out
  mode,      \* which capture runs
  required,  \* the paths it was asked for
  phase,     \* where it is
  attempt,   \* of capture_stable
  admitted,  \* identity of the root when the adapter was opened
  first,     \* the first observation of a pair, once complete
  at,        \* the source to read next
  before,    \* the sources, as read before the walk
  census,    \* paths ls-files gave before the walk
  ids,       \* identity an entry had in the listing of its directory
  seen,      \* what the walk read
  closed,    \* directories the walk has left
  answer,    \* what the capture returned
  reason,    \* why it was refused
  copy,      \* the copies of required files
  pivot,     \* history: the target when the second observation read the branch,
             \* or a plain root, or when the policy file was first read
  since      \* history: clock when this attempt began

target      == <<disk, clock>>
observation == <<at, before, census, ids, seen, closed>>
outcome     == <<answer, reason, copy>>
call        == <<mode, required, admitted>>
vars == <<target, call, phase, attempt, first, observation, outcome, pivot, since>>

Modes   == {"clean", "live", "files", "policy"}
Running == {"before", "admit", "list", "deleted", "untracked", "walk", "redeleted",
            "reuntracked", "after", "copy"}

FilesOf(d) == [p \in FilesIn(d) |-> d[p].value]

PolicyIn(d) == IF Present(d, Policy) THEN d[Policy].value ELSE Nothing

\* Which tree the branch is at: its loose ref, else its entry in packed-refs.
HeadOf(loose, packed) == IF loose = Nothing THEN packed ELSE loose

View(d) == [head   |-> HeadOf(d[HEAD].value, d[Packed].value),
            index  |-> d[Index].value,
            config |-> d[Config].value,
            policy |-> PolicyIn(d),
            files  |-> FilesOf(d),
            dirs   |-> DirsIn(d)]

\* Nothing to commit and nothing untracked, empty directories included.
Clean(v) ==
  /\ v.files = v.index
  /\ v.index = v.head
  /\ v.dirs \subseteq DirsOf(DOMAIN v.index)

-----------------------------------------------------------------------------
(* Whoever works in the target (external).                                 *)

\* The objects of new change, in one system call.
Change(new) ==
  /\ clock < MaxChanges
  /\ clock' = clock + 1
  /\ disk' = [o \in Object |-> IF o \in DOMAIN new
                               THEN [value |-> new[o], stamp |-> clock + 1]
                               ELSE disk[o]]
  /\ UNCHANGED <<call, phase, attempt, first, observation, outcome, pivot, since>>

Edit(p, c) ==
  /\ Present(disk, p)
  /\ c # disk[p].value
  /\ Change([o \in {p} |-> c])

Add(n, v) ==
  /\ ~Present(disk, n)
  /\ Parent[n] # Root => Present(disk, Parent[n])
  /\ v \in IF n \in File THEN Content ELSE {{}}
  /\ Change([o \in {n, Parent[n]} |->
              IF o = n THEN v ELSE disk[Parent[n]].value \cup {n}])

Remove(n) ==
  /\ Present(disk, n)
  /\ n \in Dir => disk[n].value = {}
  /\ Change([o \in {Parent[n]} |-> disk[o].value \ {n}])

\* git add or git rm --cached of one path: a new index file by rename.
Stage(p) ==
  LET old  == disk[Index].value
      keep == [q \in DOMAIN old \ {p} |-> old[q]]
      new  == IF Present(disk, p)
              THEN [q \in DOMAIN old \cup {p} |->
                      IF q = p THEN disk[p].value ELSE old[q]]
              ELSE keep
  IN  /\ \E tree \in {new, keep} \ {old} :
           Change([o \in {Index, Git} |-> IF o = Index THEN tree ELSE {}])

\* git commit writes the loose ref; an entry of packed-refs stays behind it.
CommitIndex ==
  /\ View(disk).head # disk[Index].value
  /\ Change([o \in {HEAD} |-> disk[Index].value])

\* git pack-refs: packed-refs by rename, and then the loose ref is removed.
Pack ==
  /\ disk[HEAD].value \notin {Nothing, disk[Packed].value}
  /\ Change([o \in {Packed} |-> disk[HEAD].value])

Prune ==
  /\ disk[HEAD].value # Nothing /\ disk[HEAD].value = disk[Packed].value
  /\ Change([o \in {HEAD} |-> Nothing])

Configure == Change([o \in {Config} |-> ~disk[Config].value])

-----------------------------------------------------------------------------
(* One observation.                                                        *)

Sources ==
  CASE mode = "files"  -> <<Root>>
    [] mode = "policy" -> <<Policy>>
    [] OTHER           -> <<Root, Git, Policy, Config, Packed, HEAD, Index>>
FirstSourceZero == 0 \* mutant: positions count from zero
FirstSource == 1
LastSource == Len(Sources)

\* A source as it is now; the policy file and either form of the ref need not
\* be there.
Now(o) ==
  IF (o = Policy /\ ~Present(disk, o)) \/ disk[o].value = Nothing
  THEN Nothing
  ELSE disk[o]

ValueOf(r) == IF r = Nothing THEN Nothing ELSE r.value

HeadTree    == HeadOf(ValueOf(before[HEAD]), ValueOf(before[Packed]))
Tracked == before[Index].value

\* ls-files: tracked paths without the deleted ones, and untracked paths.
Names(deleted, untracked) == (DOMAIN Tracked \ deleted) \cup untracked
Census == Names(census.deleted, census.untracked)

\* What the walk goes into or reads among the entries of a directory.
Selected ==
  CASE mode = "clean" -> Node
    [] mode = "live"  -> Census \cup DirsOf(Census)
    [] mode = "files" -> Node

StartObservation ==
  /\ phase' = "before"
  /\ at' = FirstSource
  /\ before' = [o \in Source |-> Nothing]
  /\ census' = [deleted |-> {}, untracked |-> {}]
  /\ ids' = [n \in Node \cup {Git} |-> Nothing]
  /\ seen' = [n \in Node |-> Nothing]
  /\ closed' = {}

\* The capture is over.
Finish(p, why, what) ==
  /\ phase' = p
  /\ reason' = why
  /\ answer' = what
  /\ UNCHANGED <<call, copy, attempt, first, observation, pivot, since>>

\* capture_stable, which repeats its pair.
Repeated == mode \in {"live", "files"}

\* mutant: the retry goes on with the first observation it has
RetryKeepsFirst(why) ==
  IF Repeated /\ attempt = 1
  THEN /\ attempt' = 2
       /\ since' = clock
       /\ StartObservation
       /\ UNCHANGED <<call, first, outcome, pivot>>
  ELSE Finish("refused", why, Nothing)

\* mutant: every refusal is retried
RetryForEver(why) ==
  /\ StartObservation
  /\ first' = Nothing
  /\ pivot' = Nothing
  /\ since' = clock
  /\ UNCHANGED <<call, attempt, outcome>>

\* CaptureRequestError: the caller asked for what is not there; never retried.
Deny == Finish("refused", "request", Nothing)

\* CaptureUnknownError: capture_stable begins a second pair, once.
Raise(why) ==
  IF Repeated /\ attempt = 1
  THEN /\ attempt' = 2
       /\ since' = clock
       /\ first' = Nothing
       /\ pivot' = Nothing
       /\ StartObservation
       /\ UNCHANGED <<call, outcome>>
  ELSE Finish("refused", why, Nothing)

Continue(p) ==
  /\ phase' = p
  /\ UNCHANGED <<call, attempt, first, outcome, pivot, since>>

\* The root of a plain directory is no longer as it was admitted.
RootMoved == mode = "files" /\ disk[Root].stamp # admitted

\* The source whose second reading is the instant a capture reports.
Decisive == IF mode = "files" THEN Root ELSE HEAD

ReadBefore ==
  /\ phase = "before" /\ mode # "policy"
  /\ LET s == Sources[at]
     IN  IF RootMoved
         THEN Raise("root")
         ELSE IF s = HEAD /\ (Now(HEAD) = Nothing <=> before[Packed] = Nothing)
         THEN Raise(IF Now(HEAD) = Nothing THEN "unborn" ELSE "ambiguous")
         ELSE /\ before' = [before EXCEPT ![s] = Now(s)]
              /\ IF at < LastSource
                 THEN at' = at + 1 /\ phase' = "before"
                 ELSE /\ at' = FirstSource
                      /\ phase' = IF mode = "files" THEN "walk" ELSE "admit"
              /\ pivot' = IF first # Nothing /\ s = Decisive THEN disk ELSE pivot
              /\ UNCHANGED <<call, attempt, first, outcome, since>>
              /\ UNCHANGED <<census, ids, seen, closed>>
  /\ UNCHANGED target

\* git config --list reads the config file anew.
Admit ==
  /\ phase = "admit"
  /\ IF disk[Config].value
     THEN Continue("list") /\ UNCHANGED observation
     ELSE Raise("unsupported")
  /\ UNCHANGED target

\* The first read of the policy file alone.
ReadPolicy ==
  /\ phase = "before" /\ mode = "policy"
  /\ before' = [before EXCEPT ![Policy] = Now(Policy)]
  /\ phase' = "after"
  /\ pivot' = disk
  /\ UNCHANGED <<target, call, attempt, first, outcome, since>>
  /\ UNCHANGED <<at, census, ids, seen, closed>>

\* mutant: HEAD need not be the index.
ListIndexOnly ==
  /\ phase = "list"
  /\ IF disk[Index].value # Tracked
     THEN Raise("changed")
     ELSE /\ Continue(IF mode = "clean" THEN "walk" ELSE "deleted")
          /\ UNCHANGED observation
  /\ UNCHANGED target

\* HEAD's tree and the index list the same.
HeadIsIndex == HeadTree = Tracked

\* ls-files --stage must list the raw index, and HEAD be the index.
ListIndex ==
  /\ phase = "list"
  /\ IF disk[Index].value # Tracked
     THEN Raise("changed")
     ELSE IF mode = "clean" /\ ~HeadIsIndex
     THEN Raise("dirty")
     ELSE /\ Continue(IF mode = "clean" THEN "walk" ELSE "deleted")
          /\ UNCHANGED observation
  /\ UNCHANGED target

\* ls-files --deleted and --others read the index and the target anew.
DeletedNow   == DOMAIN disk[Index].value \ FilesIn(disk)
UntrackedNow == FilesIn(disk) \ DOMAIN disk[Index].value

ListDeleted ==
  /\ phase \in {"deleted", "redeleted"}
  /\ IF phase = "deleted"
     THEN IF DeletedNow \subseteq DOMAIN Tracked
          THEN /\ census' = [census EXCEPT !.deleted = DeletedNow]
               /\ Continue("untracked")
               /\ UNCHANGED <<at, before, ids, seen, closed>>
          ELSE Raise("changed")
     ELSE IF DeletedNow = census.deleted
          THEN Continue("reuntracked") /\ UNCHANGED observation
          ELSE Raise("changed")
  /\ UNCHANGED target

ListUntracked ==
  /\ phase \in {"untracked", "reuntracked"}
  /\ IF phase = "untracked"
     THEN IF UntrackedNow \cap DOMAIN Tracked # {}
          THEN Raise("changed")
          ELSE IF ~(required \subseteq Names(census.deleted, UntrackedNow))
          THEN Deny
          ELSE /\ census' = [census EXCEPT !.untracked = UntrackedNow]
               /\ Continue("walk")
               /\ UNCHANGED <<at, before, ids, seen, closed>>
     ELSE IF UntrackedNow = census.untracked
          THEN Continue("after") /\ UNCHANGED observation
          ELSE Raise("changed")
  /\ UNCHANGED target

\* A Git root lists its .git entry with the others; the walk does not enter it.
Entries(a) ==
  disk[a].value \cup IF a = Root /\ mode # "files" THEN {Git} ELSE {}

Unchanged(n) == disk[n].stamp = ids[n]

\* What is opened by a name listed before is what was listed, until it is read.
Pinned(n) == Present(disk, n) /\ Unchanged(n)

\* The walk is in directory a: of those it has not left, the deepest.
Inside(a) ==
  /\ phase = "walk"
  /\ seen[a] # Nothing /\ a \notin closed
  /\ \A b \in Dir : seen[b] # Nothing /\ b \notin closed => Depth[b] <= Depth[a]

ToVisit(a) == {n \in seen[a].value \cap Selected : seen[n] = Nothing}

\* A directory no tracked path is in.
Stray(a) == a \notin DirsOf(DOMAIN Tracked) \cup {Root}

\* The walk lists a directory, with the identity of each entry.
Enter(a) ==
  /\ phase = "walk"
  /\ seen[a] = Nothing
  /\ a # Root => Inside(Parent[a]) /\ a \in ToVisit(Parent[a])
  /\ IF a # Root /\ ~Pinned(a)
     THEN Raise("changed")
     ELSE IF mode = "clean" /\ Stray(a)
     THEN Raise("dirty")
     ELSE /\ seen' = [seen EXCEPT ![a] = disk[a]]
          /\ ids' = [n \in Node \cup {Git} |->
                       IF n \in Entries(a) THEN disk[n].stamp ELSE ids[n]]
          /\ Continue("walk")
          /\ UNCHANGED <<at, before, census, closed>>
  /\ UNCHANGED target

\* A clean capture requires that the file is tracked, with these bytes.
ReadLeaf(p) ==
  /\ Inside(Parent[p])
  /\ p \in ToVisit(Parent[p])
  /\ IF ~Pinned(p)
     THEN Raise("changed")
     ELSE IF mode = "clean" /\ (p \in DOMAIN Tracked => disk[p].value # Tracked[p])
     THEN Raise("dirty")
     ELSE /\ seen' = [seen EXCEPT ![p] = disk[p]]
          /\ Continue("walk")
          /\ UNCHANGED <<at, before, census, ids, closed>>
  /\ UNCHANGED target

FilesSeen == {p \in File : seen[p] # Nothing}

\* Every path that was to be there has been read.
WalkComplete ==
  CASE mode = "clean" -> FilesSeen = DOMAIN Tracked
    [] mode = "live"  -> FilesSeen = Census
    [] mode = "files" -> TRUE

\* A second listing of a directory is like the first, identities included.
ListedAlike(a) ==
  /\ disk[a].stamp = seen[a].stamp
  /\ \A n \in Entries(a) : Unchanged(n)

\* Where the files a caller asks for are looked for: a clean capture takes them
\* from HEAD.
Available == IF mode = "clean" THEN DOMAIN HeadTree ELSE FilesSeen

\* The walk lists the directory again and leaves it; leaving the root ends it.
Leave(a) ==
  /\ Inside(a)
  /\ ToVisit(a) = {}
  /\ IF ~ListedAlike(a)
     THEN Raise("changed")
     ELSE IF a # Root
     THEN Continue("walk") /\ closed' = closed \cup {a}
          /\ UNCHANGED <<at, before, census, ids, seen>>
     ELSE IF ~WalkComplete
     THEN Raise(IF mode = "clean" THEN "dirty" ELSE "changed")
     ELSE IF ~(required \subseteq Available)
     THEN Deny
     ELSE /\ Continue(IF mode = "live" THEN "redeleted" ELSE "after")
          /\ closed' = closed \cup {a}
          /\ UNCHANGED <<at, before, census, ids, seen>>
  /\ UNCHANGED target

-----------------------------------------------------------------------------
(* A pair of observations.                                                 *)

\* The identities of all sources but the policy file.
SourcesDigest == [before EXCEPT ![Policy] = ValueOf(before[Policy])]

\* What two observations are compared by: for a clean capture identities, for a
\* live one only values.
Observation ==
  [sources |-> IF mode = "clean"
               THEN SourcesDigest
               ELSE [policy |-> ValueOf(before[Policy]),
                     head   |-> HeadTree,
                     index  |-> ValueOf(before[Index])],
   census  |-> census,
   walked  |-> seen]

\* The plain adapter takes the policy file from its walk.
PolicyRead == ValueOf(IF mode = "files" THEN seen[Policy] ELSE before[Policy])

Reported ==
  [head   |-> HeadTree,
   index  |-> ValueOf(before[Index]),
   policy |-> PolicyRead,
   files  |-> [p \in FilesSeen |-> seen[p].value]]

\* mutant: only what the two observations saw is compared, not its state
SamePaths(a, b) == \A n \in Node : a.walked[n] = Nothing <=> b.walked[n] = Nothing
Same(a, b) == a = b

\* The copies of the required files go into a new directory.
StartCopy ==
  /\ phase' = "copy"
  /\ copy' = [q \in {} |-> Nothing]
  /\ UNCHANGED <<call, attempt, first, observation, answer, reason, pivot, since>>

\* A source is read again and is as it was.
Unmoved(s) == Now(s) = before[s]

\* The sources are read again; then the observation is complete.
ReadAfter ==
  /\ phase = "after"
  /\ LET s == Sources[at]
     IN  IF ~Unmoved(s)
         THEN Raise(IF mode = "files" THEN "root" ELSE "changed")
         ELSE IF at < LastSource
         THEN /\ at' = at + 1
              /\ Continue("after")
              /\ UNCHANGED <<before, census, ids, seen, closed>>
         ELSE IF mode = "policy"
         THEN Finish("returned", "none", Reported)
         ELSE IF first = Nothing
         THEN /\ first' = Observation
              /\ StartObservation
              /\ UNCHANGED <<call, attempt, outcome, pivot, since>>
         ELSE IF Same(first, Observation)
         THEN IF Repeated /\ required # {}
              THEN StartCopy
              ELSE Finish("returned", "none", Reported)
         ELSE Raise("changed")
  /\ UNCHANGED target

\* mutant: the copy is made from the target
CopyFromTarget(p) ==
  /\ phase = "copy"
  /\ p \in required \ DOMAIN copy /\ Present(disk, p)
  /\ copy' = [q \in DOMAIN copy \cup {p} |-> IF q = p THEN disk[p].value ELSE copy[q]]
  /\ UNCHANGED <<target, call, phase, attempt, first, observation, answer, reason>>
  /\ UNCHANGED <<pivot, since>>

CopyFile(p) ==
  /\ phase = "copy"
  /\ p \in required \ DOMAIN copy
  /\ copy' = [q \in DOMAIN copy \cup {p} |-> IF q = p THEN seen[p].value ELSE copy[q]]
  /\ UNCHANGED <<target, call, phase, attempt, first, observation, answer, reason>>
  /\ UNCHANGED <<pivot, since>>

CopyDone ==
  /\ phase = "copy"
  /\ DOMAIN copy = required
  /\ Finish("returned", "none", Reported)
  /\ UNCHANGED target

\* Making, writing or closing a copy fails: outside the retry. The directory of
\* the copies is removed; a failure to remove it is suppressed.
CopyFails ==
  /\ phase = "copy"
  /\ phase' = "refused"
  /\ reason' = "copy"
  /\ copy' \in {Nothing, copy}
  /\ UNCHANGED <<target, call, attempt, first, observation, answer, pivot, since>>

\* The 30 s of a Git capture are over; a plain directory has no deadline.
Late ==
  /\ phase \in Running \ {"copy"}
  /\ mode # "files"
  /\ Raise("late")
  /\ UNCHANGED target

\* A caller asks for a capture, of an adapter it has or opens now.
Call(m) ==
  /\ phase \notin Running
  /\ mode' = m
  /\ required' \in IF m = "policy" THEN {{}} ELSE Requests
  /\ admitted' \in {admitted, disk[Root].stamp}
  /\ attempt' = 1
  /\ since' = clock
  /\ first' = Nothing
  /\ pivot' = Nothing
  /\ answer' = Nothing
  /\ reason' = "none"
  /\ copy' = Nothing
  /\ StartObservation
  /\ UNCHANGED target

-----------------------------------------------------------------------------
Init ==
  /\ disk \in Targets
  /\ clock = 0
  /\ mode = "clean"
  /\ required = {}
  /\ phase = "idle"
  /\ attempt = 1
  /\ admitted = 0
  /\ first = Nothing
  /\ at = 1
  /\ before = [o \in Source |-> Nothing]
  /\ census = [deleted |-> {}, untracked |-> {}]
  /\ ids = [n \in Node \cup {Git} |-> Nothing]
  /\ seen = [n \in Node |-> Nothing]
  /\ closed = {}
  /\ answer = Nothing
  /\ reason = "none"
  /\ copy = Nothing
  /\ pivot = Nothing
  /\ since = 0

Observe ==
  \/ ReadBefore \/ ReadPolicy \/ Admit \/ ListIndex \/ ListDeleted \/ ListUntracked
  \/ \E a \in Dir : Enter(a) \/ Leave(a)
  \/ \E p \in File : ReadLeaf(p)
  \/ ReadAfter \/ Late
  \/ \E p \in File : CopyFile(p)
  \/ CopyDone \/ CopyFails

Work ==
  \/ \E p \in File, c \in Content : Edit(p, c)
  \/ \E n \in Node \ {Root}, v \in Content \cup {{}} : Add(n, v)
  \/ \E n \in Node \ {Root} : Remove(n)
  \/ \E p \in File : Stage(p)
  \/ CommitIndex \/ Pack \/ Prune \/ Configure

Next == Observe \/ Work \/ \E m \in Modes : Call(m)

Spec == Init /\ [][Next]_vars

\* Reads and Git children end (30 s at most), so a capture goes on. That it leaves
\* the target alone is said first because TLC then decides faster.
FairSpec == Spec /\ WF_vars(UNCHANGED target /\ Observe)

-----------------------------------------------------------------------------
(* Properties.                                                             *)

\* Every variable has its type: readings carry the values of their objects,
\* stamps and history lie within the clock, a position within the sources.
TypeOK ==
  /\ disk = [o \in Object |-> disk[o]] /\ \A o \in Object : disk[o] \in Reading(o)
  /\ clock \in 0..MaxChanges
  /\ mode \in Modes /\ required \in Requests \cup {{}}
  /\ phase \in Running \cup {"idle", "returned", "refused"}
  /\ attempt \in 1..2
  /\ admitted \in 0..clock /\ since \in 0..clock
  /\ at \in 1..LastSource
  /\ \A o \in DOMAIN before : before[o] \in Reading(o) \cup {Nothing}
  /\ census \in [deleted : SUBSET File, untracked : SUBSET File]
  /\ ids \in [Node \cup {Git} -> 0..clock \cup {Nothing}]
  /\ \A n \in Node : seen[n] \in Reading(n) \cup {Nothing}
  /\ closed \subseteq Dir
  /\ reason \in {"none", "root", "changed", "dirty", "late", "unborn", "ambiguous",
                "unsupported", "request", "copy"}
  /\ copy \in Tree \cup {Nothing}

\* What a capture returns is the target of one instant, the one at which its
\* second observation read the branch (a plain directory: its root): what HEAD
\* led to, the index, the policy file, and every file it reports; except in a
\* live capture, no other file was there. A capture of a Git target is of one
\* whose config is supported.
CaptureIsAnInstant ==
  phase = "returned" =>
    LET was == View(pivot)
    IN  /\ mode \in {"clean", "live"} => /\ answer.head = was.head
                                        /\ answer.index = was.index
                                        /\ was.config
        /\ answer.policy = was.policy
        /\ DOMAIN answer.files \subseteq DOMAIN was.files
        /\ mode \in {"clean", "files"} => DOMAIN answer.files = DOMAIN was.files
        /\ \A p \in DOMAIN answer.files : answer.files[p] = was.files[p]

\* The copies a capture leaves are of the files it was asked for, as they were at
\* the instant it reports, however the target changes while they are made.
CopiesAreOfTheInstant ==
  /\ copy # Nothing /\ pivot # Nothing =>
       \A p \in DOMAIN copy : p \in FilesIn(pivot) /\ copy[p] = pivot[p].value
  /\ phase = "returned" /\ Repeated /\ required # {} =>
       copy # Nothing /\ DOMAIN copy = required

\* When a clean capture returns, there was an instant during it at which work
\* tree, index and HEAD agreed in everything and no other directory was there.
CleanWasClean ==
  phase = "returned" /\ mode = "clean" =>
    Clean(View(pivot))

\* A capture is refused only if the target changed during its last attempt,
\* or its time was over, or the clean capture found an unclean target, or the
\* root of a plain directory is not as it was when the adapter was opened, or a
\* file it was asked for is not there, or the branch has no ref or has two, or
\* the config is not supported, or the copies could not be made.
QuietIsAnswered ==
  phase = "refused" =>
    \/ clock > since
    \/ reason = "late"
    \/ reason = "dirty" /\ ~Clean(View(disk))
    \/ reason = "root" /\ disk[Root].stamp # admitted
    \/ reason = "request" /\ ~(required \subseteq FilesIn(disk))
    \/ reason = "unborn" /\ View(disk).head = Nothing
    \/ reason = "ambiguous" /\ Nothing \notin {disk[HEAD].value, disk[Packed].value}
    \/ reason = "unsupported" /\ ~View(disk).config
    \/ reason = "copy"

\* Every capture returns or raises, whatever happens in the target.
CapturesEnd == phase \in Running ~> phase \notin Running
=============================================================================
