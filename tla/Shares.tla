------------------------------- MODULE Shares -------------------------------
(***************************************************************************)
(* The index of the shared directories (src/src/shares.rs): three trees of *)
(* an embedded database, written one entry at a time while a directory is  *)
(* scanned or taken out of the index.                                      *)
(*                                                                         *)
(* A string is the sequence of its parts: the share "foobar" is            *)
(* <<"foo", "bar">>, its file a is <<"foo", "bar", "/", "a">>.  That one   *)
(* string begins with another is then IsPrefix.  Paths on disk are below   *)
(* the root of the file system.                                            *)
(***************************************************************************)
EXTENDS Integers, Sequences, FiniteSets, SequencesExt, FiniteSetsExt, Functions, TLC

CONSTANTS
    Slot,        \* calls that may be under way at once
    Directories, \* paths of directories on disk
    Trees,       \* Trees[d]: what a walk of d may find
    TokenRank,   \* the parts of strings, each with its place in their order
    Numerals,    \* the numbers that may end a name, from 2: a bound
    SizeMod,     \* sizes are u64: 2^64
    None

Token == DOMAIN TokenRank
Root == <<>>
Sep == <<"/">>

\* The part of the index for file path of share name, and the directories that hold
\* it, up to the root.
FileKey(name, path) == name \o Sep \o path
Ancestors(k) == {SubSeq(k, 1, i - 1) : i \in {j \in 1..Len(k) : k[j] = "/"}} \cup {Root}

\* Keys are walked through in the order of their bytes.
Before(k, l) ==
    \/ IsStrictPrefix(k, l)
    \/ \E i \in 1..Len(k) : /\ i <= Len(l) /\ TokenRank[k[i]] < TokenRank[l[i]]
                            /\ \A j \in 1..(i - 1) : k[j] = l[j]
IsFirst(k, K) == k \in K /\ \A l \in K \ {k} : Before(k, l)

\* A name is one component of a path.
IsName(n) == n \in Seq(Token) /\ n # <<>> /\ ~Contains(n, "/")
IsPath(k) == k \in Seq(Token) /\ k # <<>> /\ k[Len(k)] # "/"
\* A walk meets a file once.
IsTree(t) ==
    /\ IsFiniteSet(t) /\ \A f \in t : f \in [path : Seq(Token), size : Nat] /\ IsPath(f.path)
    /\ \A f, g \in t : f.path = g.path => f = g

ASSUME SharesAssumption ==
    /\ IsFiniteSet(Slot) /\ None \notin Slot /\ None \notin Directories /\ None \notin Seq(Token)
    /\ \A d \in Directories : IsPath(d) /\ \A t \in Trees[d] : IsTree(t)
    /\ {"/", " - "} \subseteq Token /\ \A t \in Token : TokenRank[t] \in Nat
    /\ \A t, u \in Token : TokenRank[t] = TokenRank[u] => t = u
    /\ Numerals \in Seq(Token \ {"/"})
    /\ SizeMod \in Nat \ {0}

VARIABLES
    files,      \* tree: path of a file -> its size
    dirs,       \* tree: path of a directory -> size of all in it
    shareNames, \* tree: name of a share -> its directory
    op,         \* op[s]: the call under way
    cut,        \* shares that a call was about when the program ended
    torn,       \* shares that two calls were about at once
    calls       \* scans and removals that may still be begun, a bound

trees == <<files, dirs, shareNames>>
indexVars == <<trees, op, cut, torn, calls>>

Put(f, k, v) == [x \in DOMAIN f \cup {k} |-> IF x = k THEN v ELSE f[x]]
Drop(f, k) == Restrict(f, DOMAIN f \ {k})

NoOp == [phase |-> "idle", scan |-> FALSE, name |-> Root, dir |-> None, existing |-> 0,
         last |-> None, todo |-> {}, file |-> None, merges |-> {}]
Busy == \E s \in Slot : op[s].phase # "idle"
At(s, phase) == op[s].phase = phase

\* A file lies beneath a directory.
Beneath(k, d) == IF d = Root THEN k # Root ELSE IsStrictPrefix(d \o Sep, k)
SizeBeneath(fs, d) == MapThenSumSet(LAMBDA k : fs[k], {k \in DOMAIN fs : Beneath(k, d)})

\* The index of some shares, each with the tree found in it.
IndexedFiles(shared) ==
    LET keys == UNION {{<<FileKey(n, f.path), f.size>> : f \in shared[n].tree} : n \in DOMAIN shared}
    IN  [k \in {x[1] : x \in keys} |-> (CHOOSE x \in keys : x[1] = k)[2]]
IndexedDirs(shared) ==
    LET fs == IndexedFiles(shared)
        keys == UNION {Ancestors(k) : k \in DOMAIN fs}
    IN  [d \in keys |-> SizeBeneath(fs, d)]

IndexInit(shared) ==
    /\ files = IndexedFiles(shared)
    /\ dirs = IndexedDirs(shared)
    /\ shareNames = [n \in DOMAIN shared |-> shared[n].dir]
    /\ op = [s \in Slot |-> NoOp] /\ cut = {} /\ torn = {}

-----------------------------------------------------------------------------
\* The name of a share: the one it has, else the first free one of the ends of the
\* directory's path, joined by dashes, the shortest first, and of the shortest one with
\* a number.
Starts(d) == {0} \cup {i \in DOMAIN d : d[i] = "/"}
EndOf(d, p) == [i \in 1..(Len(d) - p) |-> IF d[p + i] = "/" THEN " - " ELSE d[p + i]]
Numbered(d, p, i) == EndOf(d, p) \o <<" - ", Numerals[i]>>
Taken(n) == n \in DOMAIN shareNames
FreeEnd(d, n) ==
    \E p \in Starts(d) : /\ n = EndOf(d, p) /\ ~Taken(n)
                          /\ \A q \in Starts(d) : q > p => Taken(EndOf(d, q))
FreeNumber(d, n) ==
    \E p \in Starts(d), i \in DOMAIN Numerals :
        /\ n = Numbered(d, p, i) /\ ~Taken(n)
        /\ \A q \in Starts(d) : q <= p /\ Taken(EndOf(d, q))
        /\ \A j \in 1..(i - 1) : Taken(Numbered(d, p, j))
Owned(d) == {n \in DOMAIN shareNames : shareNames[n] = d}
Candidates(d) == {EndOf(d, p) : p \in Starts(d)}
                 \cup {Numbered(d, p, i) : p \in Starts(d), i \in DOMAIN Numerals}
ShareNameFor(d, n) ==
    IF Owned(d) # {} THEN IsFirst(n, Owned(d)) ELSE FreeEnd(d, n) \/ FreeNumber(d, n)

\* A call begins by asking for the size of what it will remove: a share that has none
\* is taken for one that does not exist.  A scan then goes on, a removal fails.
Begin(s, scan, d, n) ==
    /\ At(s, "idle") /\ calls > 0 /\ calls' = calls - 1
    /\ LET o == [NoOp EXCEPT !.scan = scan, !.dir = d, !.name = n]
       IN  op' = [op EXCEPT ![s] =
             IF n \in DOMAIN dirs THEN [o EXCEPT !.phase = "subtract", !.existing = dirs[n]]
             ELSE IF scan THEN [o EXCEPT !.phase = "insert"] ELSE NoOp]
    /\ torn' = IF \E o \in Slot : ~At(o, "idle") /\ op[o].name = n THEN torn \cup {n} ELSE torn
    /\ UNCHANGED <<trees, cut>>

Scan(s) ==
    \E d \in Directories : \E n \in Owned(d) \cup Candidates(d) :
        ShareNameFor(d, n) /\ Begin(s, TRUE, d, n)
RemoveShareDir(s) == \E n \in DOMAIN shareNames : Begin(s, FALSE, shareNames[n], n)

\* Mutant: the size of the root is left as it was.
RootKept(size) == IF Root \in DOMAIN dirs THEN dirs[Root] ELSE 0

\* The size of the root is updated in one step with the size read before.
RootWithout(size) == IF Root \in DOMAIN dirs THEN (dirs[Root] - size) % SizeMod ELSE 0
SubtractRoot(s) ==
    /\ At(s, "subtract")
    /\ dirs' = Put(dirs, Root, RootWithout(op[s].existing))
    /\ op' = [op EXCEPT ![s].phase = "dirs", ![s].last = None]
    /\ UNCHANGED <<files, shareNames, cut, torn, calls>>

\* Mutant: whatever begins with the name is taken for part of the share.
BareMatches(k, n) == IsPrefix(n, k)

\* The entries are removed one by one, in the order of the keys.
KeyMatches(k, n) == k = n \/ IsPrefix(n \o Sep, k)
Matching(s, tree) == {k \in DOMAIN tree : /\ KeyMatches(k, op[s].name)
                                          /\ op[s].last = None \/ Before(op[s].last, k)}
\* Mutant: the files of a share outlive its name.
DirsThenName(s) ==
    /\ At(s, "dirs")
    /\ IF Matching(s, dirs) = {}
       THEN dirs' = dirs /\ op' = [op EXCEPT ![s].phase = "name", ![s].last = None]
       ELSE \E k \in Matching(s, dirs) :
              /\ IsFirst(k, Matching(s, dirs))
              /\ dirs' = Drop(dirs, k) /\ op' = [op EXCEPT ![s].last = k]
    /\ UNCHANGED <<files, shareNames, cut, torn, calls>>

RemoveDirs(s) ==
    /\ At(s, "dirs")
    /\ IF Matching(s, dirs) = {}
       THEN dirs' = dirs /\ op' = [op EXCEPT ![s].phase = "files", ![s].last = None]
       ELSE \E k \in Matching(s, dirs) :
              /\ IsFirst(k, Matching(s, dirs))
              /\ dirs' = Drop(dirs, k) /\ op' = [op EXCEPT ![s].last = k]
    /\ UNCHANGED <<files, shareNames, cut, torn, calls>>

RemoveFiles(s) ==
    /\ At(s, "files")
    /\ IF Matching(s, files) = {}
       THEN files' = files /\ op' = [op EXCEPT ![s].phase = "name", ![s].last = None]
       ELSE \E k \in Matching(s, files) :
              /\ IsFirst(k, Matching(s, files))
              /\ files' = Drop(files, k) /\ op' = [op EXCEPT ![s].last = k]
    /\ UNCHANGED <<dirs, shareNames, cut, torn, calls>>

RemoveName(s) ==
    /\ At(s, "name")
    /\ shareNames' = Drop(shareNames, op[s].name)
    /\ op' = [op EXCEPT ![s] = IF op[s].scan THEN [@ EXCEPT !.phase = "insert"] ELSE NoOp]
    /\ UNCHANGED <<files, dirs, cut, torn, calls>>

\* A scan enters the name, then adds each file it meets to the sizes of all
\* directories that hold it, the deepest first, and then to the files.
InsertName(s) ==
    /\ At(s, "insert")
    /\ shareNames' = Put(shareNames, op[s].name, op[s].dir)
    /\ \E t \in Trees[op[s].dir] : op' = [op EXCEPT ![s].phase = "walk", ![s].todo = t]
    /\ UNCHANGED <<files, dirs, cut, torn, calls>>

WalkTo(s) ==
    /\ At(s, "walk")
    /\ \E f \in op[s].todo :
         op' = [op EXCEPT ![s].phase = "merge", ![s].file = f, ![s].todo = @ \ {f},
                          ![s].merges = Ancestors(FileKey(op[s].name, f.path))]
    /\ UNCHANGED <<trees, cut, torn, calls>>

\* addition_merge: a directory seen for the first time starts at nothing.
SizeOf(d) == IF d \in DOMAIN dirs THEN dirs[d] ELSE 0
Merge(s) ==
    /\ At(s, "merge")
    /\ \E d \in op[s].merges :
         /\ \A e \in op[s].merges : Len(e) <= Len(d)
         /\ dirs' = Put(dirs, d, (SizeOf(d) + op[s].file.size) % SizeMod)
         /\ op' = [op EXCEPT ![s].merges = @ \ {d}]
    /\ UNCHANGED <<files, shareNames, cut, torn, calls>>

InsertFile(s) ==
    /\ At(s, "merge") /\ op[s].merges = {}
    /\ files' = Put(files, FileKey(op[s].name, op[s].file.path), op[s].file.size)
    /\ op' = [op EXCEPT ![s].phase = "walk", ![s].file = None]
    /\ UNCHANGED <<dirs, shareNames, cut, torn, calls>>

\* The walk ends, or an entry cannot be read, or the caller goes away between two
\* files: what has been indexed stays.
WalkEnds(s) ==
    /\ At(s, "walk")
    /\ op' = [op EXCEPT ![s] = NoOp]
    /\ UNCHANGED <<trees, cut, torn, calls>>

\* The program ends, perhaps in the middle of a call; the database keeps every entry
\* written so far.
Crash ==
    /\ op' = [s \in Slot |-> NoOp]
    /\ cut' = cut \cup {op[s].name : s \in {x \in Slot : ~At(x, "idle")}}
    /\ UNCHANGED <<trees, torn, calls>>

IndexStep(s) ==
    \/ SubtractRoot(s) \/ RemoveDirs(s) \/ RemoveFiles(s) \/ RemoveName(s)
    \/ InsertName(s) \/ WalkTo(s) \/ Merge(s) \/ InsertFile(s) \/ WalkEnds(s)
IndexNext == \E s \in Slot : Scan(s) \/ RemoveShareDir(s) \/ IndexStep(s)

-----------------------------------------------------------------------------
\* The file a path stands for: the share's directory and the path within it.
ShareOf(k) == SubSeq(k, 1, IF Contains(k, "/") THEN SelectInSeq(k, LAMBDA t : t = "/") - 1 ELSE Len(k))
Resolves(k) == k \in DOMAIN files /\ ShareOf(k) \in DOMAIN shareNames

-----------------------------------------------------------------------------
\* Properties.

\* Whenever no call is under way the size of every directory is the sum of the sizes
\* of the files beneath it, in u64, and all directories of a file have one: what each
\* scan adds in parts and each removal takes away in parts cancels out, also when a walk
\* breaks off or calls about different shares overlap (Shares::scan,
\* Shares::remove_share_dir).
\* A share that is torn or was cut stays wrong, and with it the root; the others stay right.
Right(k) == IF k = Root THEN cut \cup torn = {} ELSE ShareOf(k) \notin cut \cup torn
SizesAddUp ==
    ~Busy => /\ \A d \in DOMAIN dirs : Right(d) => dirs[d] = SizeBeneath(files, d) % SizeMod
             /\ \A k \in DOMAIN files : \A i \in 1..(Len(k) - 1) :
                    Right(k) /\ k[i + 1] = "/" => SubSeq(k, 1, i) \in DOMAIN dirs

\* Every file that can be listed can be looked up, at each point of a scan or a removal
\* and wherever one ended early, unless two calls about its share overlapped: the one
\* may take away the name that the other has entered (Shares::resolve_path).
FilesResolve == \A k \in DOMAIN files : ShareOf(k) \notin torn => Resolves(k)

\* A call about one directory leaves the share of every other as it is: its name and
\* its entries, also when one name is the beginning of the other or both directories
\* are called the same (Shares::share_name_for_path, share_key_matches).  Two scans at
\* once may choose the same name, which is then torn.
Entries(tree, n) == {<<k, tree[k]>> : k \in {x \in DOMAIN tree : x = n \/ Beneath(x, n)}}
OthersUntouched ==
    [][\A n \in DOMAIN shareNames :
         n \notin torn /\ (\A s \in Slot : At(s, "idle") \/ op[s].dir # shareNames[n])
           => /\ n \in DOMAIN shareNames' /\ shareNames'[n] = shareNames[n]
              /\ Entries(files', n) = Entries(files, n)
              /\ Entries(dirs', n) = Entries(dirs, n)]_indexVars
=============================================================================
