--------------------------- MODULE InterfaceProofs ---------------------------
(***************************************************************************)
(* What the web interface shows, for any peers, trees, requests and        *)
(* sessions.                                                               *)
(***************************************************************************)
EXTENDS Interface, FiniteSetTheorems, SequenceTheorems, Sums, TLAPS

-----------------------------------------------------------------------------
(* The inductive invariant *)

Kinds == {"Nothing", "Requested", "Downloading", "Downloaded"}
Statuses == [kind : Kinds, req : 0..MaxReq]
Entries == [size : Int, status : Statuses, req : 0..MaxReq]
ClickKinds == {"connect", "disconnect", "download", "add", "remove"}
Clicks ==
    [kind : ClickKinds, peer : DOMAIN Tree, path : Path \cup {Root}, answer : {"asked", "ok", "error"},
     req : 0..MaxReq]
Listings ==
    [peer : DOMAIN Tree \cup {None}, path : Path \cup {Root}, search : BOOLEAN,
     answer : {"asked", "ok", "error", "item"}, found : SUBSET Key]
Lines == [req : Req, path : Path, done : BOOLEAN]
Snapshots == [req : 0..MaxReq, answer : {"asked", "ok"}, rows : SUBSET Lines]
EventKinds == {"connected", "disconnected", "failed", "downloading", "completed"}
Events ==
    [kind : EventKinds, peer : Peer, req : 0..MaxReq, path : Path \cup {Root}, bytes : Nat, total : Nat]
Workers == [req : Req, file : Path, bytes : Nat, since : Nat, total : Nat]
Wishes == [peer : Peer, path : Path, got : UNION {[D -> Nat] : D \in SUBSET Path}, done : SUBSET Path]

WishTyped == wish \in Seq(Wishes) /\ Len(wish) <= MaxReq
Typed ==
    /\ listed \subseteq Peer /\ closing \subseteq listed /\ dialling \subseteq Peer /\ waiting \subseteq Peer
    /\ mine \subseteq DOMAIN Tree[Self]
    /\ WishTyped
    /\ worker \in [Peer -> {None} \cup Workers]
    /\ events \in Seq(Events) /\ Len(events) <= MaxQueue /\ socket \in BOOLEAN
    /\ clicks \subseteq Clicks /\ listings \subseteq Listings /\ snapshots \subseteq Snapshots
    /\ peers \subseteq Peer /\ pending \subseteq Peer /\ results \subseteq Key
    /\ requests \subseteq {0, 1} \X Req
    /\ DOMAIN files \subseteq Key /\ files \in [DOMAIN files -> Entries]

\* A request wants all files within its path, has of each at most its size, and of
\* those that are done all of it.
RequestsTrue ==
    \A r \in DOMAIN wish :
        LET w == wish[r]
        IN  /\ w.path \in DOMAIN Tree[w.peer] /\ DOMAIN w.got = FilesOf(w.peer, w.path)
            /\ w.done \subseteq DOMAIN w.got
            /\ \A k \in DOMAIN w.got : w.got[k] <= Tree[w.peer][k]
            /\ \A k \in w.done : w.got[k] = Tree[w.peer][k]
Received(r) == \A k \in DOMAIN wish[r].got : wish[r].got[k] = Tree[wish[r].peer][k]
Read(r) == SumOf(wish[r].got, DOMAIN wish[r].got)

\* A worker is at a request to its peer; it counts what there is of its file, and of the
\* request no more than there is.
WorkerTrue(p, w) ==
    /\ w.req \in DOMAIN wish /\ wish[w.req].peer = p /\ w.file \in DOMAIN wish[w.req].got
    /\ w.bytes + w.since = wish[w.req].got[w.file] /\ w.total + w.since <= Read(w.req)
WorkersTrue == \A p \in Peer : \A w \in {worker[p]} \ {None} : WorkerTrue(p, w)

\* What an event on its way says has happened.
EventTrue(e) ==
    /\ e.kind = "downloading" =>
         /\ e.req \in DOMAIN wish /\ wish[e.req].peer = e.peer /\ e.path \in DOMAIN wish[e.req].got
         /\ e.bytes <= wish[e.req].got[e.path] /\ e.total <= Read(e.req)
    /\ e.kind = "completed" =>
         /\ e.req \in DOMAIN wish /\ wish[e.req].peer = e.peer /\ wish[e.req].path = e.path
         /\ Received(e.req)
\* What an answer on its way says was so.
ClickTrue(c) ==
    /\ c.kind \in {"connect", "disconnect", "download"} => c.peer \in Peer
    /\ c.kind = "download" => c.path \in DOMAIN Tree[c.peer]
    /\ c.kind = "download" /\ c.answer = "ok" =>
         c.req \in DOMAIN wish /\ wish[c.req].peer = c.peer /\ wish[c.req].path = c.path
    /\ c.kind \in {"add", "remove"} => c.path \in DOMAIN Tree[Self]
ListingTrue(l) == l.answer = "item" => l.peer \in DOMAIN Tree /\ \A k \in l.found : k[1] = l.peer
RowTrue(s, row) ==
    /\ row.req \in DOMAIN wish
    /\ s.req = 0 => row.path = wish[row.req].path /\ (row.done => Received(row.req))
    /\ s.req # 0 =>
         /\ row.req = s.req /\ row.path \in DOMAIN wish[s.req].got
         /\ row.done => wish[s.req].got[row.path] = Tree[wish[s.req].peer][row.path]
SnapshotTrue(s) == (s.req # 0 => s.req \in DOMAIN wish) /\ \A row \in s.rows : RowTrue(s, row)

\* An entry has no size or the right one; the request it is the root of is for its path
\* and listed; the request its status is of covers it; and if that says it is
\* downloaded, it is.  U are the requests whose size may be unknown, I those listed.
SizeTrue(k, x) == x.size \in {Unknown, SizeAt(k)}
RootOf(k, r) == r \in DOMAIN wish /\ k = <<wish[r].peer, wish[r].path>>
StatusTrue(k, st, U) ==
    /\ st.kind # "Nothing" => st.req \in Covering(k)
    /\ st.kind = "Downloaded" /\ st.req \notin U /\ Within(wish[st.req].path, k[2]) =>
         \A f \in FilesOf(k[1], k[2]) : wish[st.req].got[f] = Tree[k[1]][f]
EntryTrue(k, x, U) ==
    /\ SizeTrue(k, x) /\ StatusTrue(k, x.status, U)
    /\ x.req # 0 => RootOf(k, x.req) /\ (x.size = Unknown => x.req \in U)
Fits(k, x, U, I) == x \in Entries /\ EntryTrue(k, x, U) /\ x.req \in I
FilesFit(fs, U, I) ==
    /\ DOMAIN fs \subseteq Key /\ fs \in [DOMAIN fs -> Entries]
    /\ \A k \in DOMAIN fs : \A x \in {fs[k]} : Fits(k, x, U, I)
FilesTrue == \A k \in DOMAIN files : \A x \in {files[k]} : EntryTrue(k, x, unsized)

Truth ==
    /\ Typed /\ RequestsTrue /\ WorkersTrue
    /\ \A e \in Range(events) : EventTrue(e)
    /\ \A c \in clicks : ClickTrue(c)
    /\ \A l \in listings : ListingTrue(l)
    /\ \A s \in snapshots : SnapshotTrue(s)
    /\ FilesTrue /\ ListsShown

\* A peer that is shown as being connected to is waited for, or an answer or an event
\* that ends this is on its way, or the dial it comes from is under way.
On(kind, p, i) == i \in DOMAIN events /\ events[i].kind = kind /\ events[i].peer = p
After(kind, p, i) == \E j \in DOMAIN events : j > i /\ On(kind, p, j)
Ends(p) ==
    \/ p \in waiting \/ p \in dialling \ listed
    \/ \E c \in clicks : c.kind = "connect" /\ c.peer = p /\ c.answer \in {"asked", "error"}
    \/ After("connected", p, 0) \/ After("failed", p, 0)
DialsTrue == ~missed => \A p \in pending : Ends(p)

\* The last event on its way about a peer says what is so; what is connected and not
\* shown will be, and what is shown and not connected will not be.
EventsAgree ==
    \A p \in Peer : \A i \in DOMAIN events :
        /\ On("disconnected", p, i) /\ p \in listed => After("connected", p, i)
        /\ On("connected", p, i) /\ p \notin listed => After("disconnected", p, i)
Brings(l, p) ==
    /\ ~l.search
    /\ \/ l.answer = "asked" /\ l.path = Root /\ l.peer \in {p, None} /\ Root \in DOMAIN Tree[p]
       \/ l.answer \in {"ok", "item"} /\ \E k \in l.found : k[1] = p
Appears(p) == After("connected", p, 0) \/ \E l \in listings : Brings(l, p)
PeersAgree ==
    \A p \in Peer \ excused :
        /\ p \in (listed \ closing) \ peers => Appears(p)
        /\ p \in peers \ listed => After("disconnected", p, 0)
BringsOwn(l, path) ==
    \/ l.answer = "asked" /\ l.peer = Self /\ l.path = Root
    \/ l.answer \in {"ok", "item"} /\ <<Self, path>> \in l.found
OwnAgree ==
    \A path \in mine :
        \/ <<Self, path>> \in DOMAIN files
        \/ \E c \in clicks : c.kind \in {"add", "remove"} /\ c.answer = "ok"
        \/ \E l \in listings : BringsOwn(l, path)
ViewTrue == (~missed => EventsAgree /\ PeersAgree) /\ OwnAgree

-----------------------------------------------------------------------------
(* Paths and trees *)

Part == (UNION {Range(path) : path \in Path}) \cup {"/"}

\* Every path is a sequence of parts.
LEMMA PathTyped == \A path \in Path \cup {Root} : path \in Seq(Part)
<1>1. ASSUME NEW path \in Path PROVE path \in Seq(Part)
  <2>1. path \in Seq(Range(path))
        BY InterfaceAssumption DEF Path
  <2>2. Range(path) \subseteq Part
        BY DEF Part
  <2> QED BY <2>1, <2>2
<1>2. Root \in Seq(Part)
      BY EmptySeq DEF Root
<1> QED BY <1>1, <1>2

LEMMA Longer ==
    ASSUME NEW S, NEW s \in Seq(S), NEW x
    PROVE  /\ s \o <<x>> \in Seq(S \cup {x}) /\ Len(s \o <<x>>) = Len(s) + 1
           /\ \A i \in 1..Len(s) : (s \o <<x>>)[i] = s[i]
<1>1. s \in Seq(S \cup {x}) /\ <<x>> \in Seq(S \cup {x})
      OBVIOUS
<1>2. s \o <<x>> = Append(s, x)
      BY <1>1
<1> QED BY <1>1, <1>2

LEMMA SlashAdded ==
    ASSUME NEW path \in Path \cup {Root}
    PROVE  /\ path \o <<"/">> \in Seq(Part) /\ Len(path \o <<"/">>) = Len(path) + 1
           /\ \A i \in 1..Len(path) : (path \o <<"/">>)[i] = path[i]
<1>1. Part \cup {"/"} = Part
  <2> DEFINE R == UNION {Range(q) : q \in Path}
  <2>1. Part = R \cup {"/"}
        BY DEF Part
  <2> HIDE DEF R
  <2> QED BY <2>1
<1> QED BY <1>1, PathTyped, Longer

LEMMA PrefixIs ==
    ASSUME NEW S, NEW s \in Seq(S), NEW t \in Seq(S)
    PROVE  IsPrefix(s, t) <=> Len(s) <= Len(t) /\ \A i \in 1..Len(s) : s[i] = t[i]
<1>1. ASSUME IsPrefix(s, t) PROVE Len(s) <= Len(t) /\ \A i \in 1..Len(s) : s[i] = t[i]
      BY <1>1 DEF IsPrefix
<1>2. ASSUME Len(s) <= Len(t), \A i \in 1..Len(s) : s[i] = t[i] PROVE IsPrefix(s, t)
  <2>1. SubSeq(s, 1, Len(s)) = SubSeq(t, 1, Len(s))
        BY <1>2
  <2> QED BY <1>2, <2>1 DEF IsPrefix
<1> QED BY <1>1, <1>2

\* What is within a path begins with it.
LEMMA WithinBegins ==
    ASSUME NEW path \in Path \cup {Root}, NEW k \in Path \cup {Root}, Within(path, k)
    PROVE  IsPrefix(path, k)
<1>1. path \in Seq(Part) /\ k \in Seq(Part)
      BY PathTyped
<1>2. CASE k = path \/ path = Root
  <2>1. path = Root => Len(path) = 0 /\ Len(k) \in Nat
        BY <1>1 DEF Root
  <2> QED BY <1>1, <1>2, <2>1, PrefixIs
<1>3. CASE k # path /\ path # Root
  <2>1. PICK h \in Seq(Part) : h = path \o <<"/">> /\ Len(h) = Len(path) + 1
                               /\ \A i \in 1..Len(path) : h[i] = path[i]
        BY SlashAdded
  <2>2. IsPrefix(h, k)
        BY <1>3, <2>1 DEF Within, IsStrictPrefix
  <2>3. Len(h) <= Len(k) /\ \A i \in 1..Len(h) : h[i] = k[i]
        BY <1>1, <2>2, PrefixIs
  <2>4. Len(path) <= Len(k) /\ \A i \in 1..Len(path) : path[i] = k[i]
    <3>1. Len(path) \in Nat /\ Len(k) \in Nat
          BY <1>1
    <3> QED BY <2>1, <2>3, <3>1
  <2> QED BY <1>1, <2>4, PrefixIs
<1> QED BY <1>2, <1>3

LEMMA PrefixOfPrefix ==
    ASSUME NEW S, NEW s \in Seq(S), NEW t \in Seq(S), NEW u \in Seq(S), IsPrefix(s, t), IsPrefix(t, u)
    PROVE  IsPrefix(s, u)
<1>1. Len(s) <= Len(t) /\ \A i \in 1..Len(s) : s[i] = t[i]
      BY PrefixIs
<1>2. Len(t) <= Len(u) /\ \A i \in 1..Len(t) : t[i] = u[i]
      BY PrefixIs
<1>3. Len(s) <= Len(u) /\ \A i \in 1..Len(s) : s[i] = u[i]
      BY <1>1, <1>2
<1> QED BY <1>3, PrefixIs

\* What is within something within a path is within the path.
LEMMA WithinWithin ==
    ASSUME NEW path \in Path \cup {Root}, NEW k \in Path \cup {Root}, NEW f \in Path \cup {Root},
           Within(path, k), Within(k, f)
    PROVE  Within(path, f)
<1>1. path \in Seq(Part) /\ k \in Seq(Part) /\ f \in Seq(Part)
      BY PathTyped
<1>2. CASE k = path \/ f = k
      BY <1>2
<1>3. CASE k # path /\ f # k /\ path = Root
  <2>1. IsPrefix(Root, f)
    <3>1. Len(Root) = 0 /\ Len(f) \in Nat /\ Root \in Seq(Part)
          BY <1>1, EmptySeq DEF Root
    <3>2. Len(Root) <= Len(f) /\ \A i \in 1..Len(Root) : Root[i] = f[i]
          BY <3>1
    <3> QED BY <1>1, <3>1, <3>2, PrefixIs
  <2>2. f # Root
    <3>1. k # Root /\ IsPrefix(k, f)
          BY <1>3, WithinBegins
    <3>2. Len(k) <= Len(f) /\ Len(k) # 0
          BY <1>1, <3>1, PrefixIs DEF Root
    <3> QED BY <1>1, <3>2 DEF Root
  <2> QED BY <1>3, <2>1, <2>2 DEF Within, IsStrictPrefix
<1>4. CASE k # path /\ f # k /\ path # Root
  <2>1. PICK h \in Seq(Part) : h = path \o <<"/">>
        BY SlashAdded
  <2>2. IsPrefix(h, k) /\ h # k
        BY <1>4, <2>1 DEF Within, IsStrictPrefix
  <2>3. IsPrefix(k, f)
        BY WithinBegins
  <2>4. IsPrefix(h, f)
        BY <1>1, <2>2, <2>3, PrefixOfPrefix
  <2>5. h # f
    <3>1. Len(h) <= Len(k) /\ Len(k) <= Len(f) /\ \A i \in 1..Len(h) : h[i] = k[i]
          BY <1>1, <2>2, <2>3, PrefixIs
    <3>2. Len(h) # Len(k)
          BY <1>1, <2>1, <2>2, <3>1
    <3> QED BY <1>1, <3>1, <3>2
  <2> QED BY <1>4, <2>1, <2>4, <2>5 DEF Within, IsStrictPrefix
<1> QED BY <1>2, <1>3, <1>4

LEMMA KeyIs == \A k \in Key : k = <<k[1], k[2]>> /\ k[1] \in DOMAIN Tree /\ k[2] \in DOMAIN Tree[k[1]]
BY DEF Key

LEMMA KeyMade == \A p \in DOMAIN Tree : \A path \in DOMAIN Tree[p] : <<p, path>> \in Key /\ path \in Path
BY DEF Key, Path

LEMMA FilesAre ==
    ASSUME NEW p \in DOMAIN Tree, NEW path \in DOMAIN Tree[p]
    PROVE  /\ FilesOf(p, path) \subseteq DOMAIN Tree[p] /\ IsFiniteSet(FilesOf(p, path))
           /\ FilesOf(p, path) \subseteq Path /\ path \in Path
           /\ \A k \in FilesOf(p, path) : Tree[p][k] \in Nat /\ IsPrefix(path, k)
<1>1. FilesOf(p, path) \subseteq DOMAIN Tree[p] /\ IsFiniteSet(DOMAIN Tree[p])
      BY InterfaceAssumption DEF FilesOf
<1>2. FilesOf(p, path) \subseteq Path /\ path \in Path
      BY <1>1 DEF Path
<1>3. IsFiniteSet(FilesOf(p, path))
      BY <1>1, FS_Subset
<1>4. \A k \in FilesOf(p, path) : Within(path, k)
      BY DEF FilesOf
<1> QED BY <1>1, <1>2, <1>3, <1>4, WithinBegins, InterfaceAssumption

\* The files of what is within a path are files of it.
LEMMA FilesWithin ==
    ASSUME NEW p \in DOMAIN Tree, NEW path \in DOMAIN Tree[p], NEW k \in DOMAIN Tree[p], Within(path, k)
    PROVE  FilesOf(p, k) \subseteq FilesOf(p, path)
<1>1. ASSUME NEW f \in FilesOf(p, k) PROVE f \in FilesOf(p, path)
  <2>1. path \in Path /\ k \in Path /\ f \in Path /\ Within(k, f)
        BY FilesAre DEF FilesOf
  <2>2. Within(path, f)
        BY <2>1, WithinWithin
  <2> QED BY <2>2 DEF FilesOf
<1> QED BY <1>1

LEMMA SizeIs ==
    /\ \A p, ks : SizeOf(p, ks) = SumOf(Tree[p], ks)
    /\ \A p \in Peer : \A path \in DOMAIN Tree[p] : Tree[p][path] = SumOf(Tree[p], FilesOf(p, path))
<1>1. ASSUME NEW p, NEW ks PROVE SizeOf(p, ks) = SumOf(Tree[p], ks)
      BY DEF SizeOf, SumOf
<1> QED BY <1>1, InterfaceAssumption

-----------------------------------------------------------------------------
(* Requests *)

\* What there is of a request is no more than its size, and if it is no less then
\* everything has been received.
LEMMA ReadIs ==
    ASSUME WishTyped, RequestsTrue, NEW r \in DOMAIN wish
    PROVE  LET w == wish[r]
           IN  /\ w \in Wishes /\ w.peer \in Peer /\ w.path \in DOMAIN Tree[w.peer] /\ r \in Req
               /\ IsFiniteSet(DOMAIN w.got) /\ DOMAIN w.got = FilesOf(w.peer, w.path)
               /\ w.got \in [DOMAIN w.got -> Nat]
               /\ Read(r) \in Nat /\ Progress(r) \in Nat /\ Progress(r) <= Read(r)
               /\ Total(r) = Tree[w.peer][w.path] /\ Total(r) \in Nat
               /\ Total(r) <= Read(r) => Received(r)
<1> DEFINE w == wish[r]
           D == DOMAIN w.got
           t == Tree[w.peer]
<1>1. /\ w \in Wishes /\ w.peer \in Peer /\ w.path \in DOMAIN t /\ D = FilesOf(w.peer, w.path)
      /\ r \in Req
  <2>1. w \in Wishes /\ r \in 1..MaxReq
        BY InterfaceAssumption DEF WishTyped
  <2> QED BY <2>1 DEF RequestsTrue, Wishes, Req
<1>2. w.peer \in DOMAIN Tree
      BY <1>1, InterfaceAssumption
<1>3. w.got \in [D -> Nat]
      BY <1>1 DEF Wishes
<1>4. IsFiniteSet(D) /\ \A k \in D : t[k] \in Nat
      BY <1>1, <1>2, FilesAre
<1>5. w.done \subseteq D /\ (\A k \in D : w.got[k] <= t[k]) /\ \A k \in w.done : w.got[k] = t[k]
      BY DEF RequestsTrue
<1>6. Total(r) = SumOf(t, D) /\ Progress(r) = SumOf(t, w.done) /\ Read(r) = SumOf(w.got, D)
      BY SizeIs DEF Total, Progress, Read
<1>7. SumOf(t, D) = t[w.path]
      BY <1>1, SizeIs
<1>8. /\ Values(t, D, Nat) /\ Values(w.got, D, Nat) /\ Values(t, D, Int) /\ Values(w.got, D, Int)
      /\ Values(t, w.done, Nat) /\ Values(t, w.done, Int) /\ IsFiniteSet(w.done)
      BY <1>3, <1>4, <1>5, FS_Subset DEF Values
<1> HIDE DEF w, D, t
<1>9. SumOf(t, D) \in Nat /\ SumOf(w.got, D) \in Nat /\ SumOf(t, w.done) \in Nat
      BY <1>4, <1>8, SumType
<1>10. SumOf(t, w.done) <= SumOf(w.got, D)
  <2>1. SumOf(t, w.done) = SumOf(w.got, w.done)
        BY <1>5, <1>8, SumSame
  <2>2. SumOf(w.got, w.done) <= SumOf(w.got, D)
        BY <1>4, <1>5, <1>8, SumGrows
  <2> QED BY <2>1, <2>2
<1>11. SumOf(t, D) <= SumOf(w.got, D) => \A k \in D : w.got[k] = t[k]
       BY <1>4, <1>5, <1>8, SumTight
<1>12. Total(r) <= Read(r) => Received(r)
       BY <1>6, <1>11 DEF Received, w, D, t
<1> QED BY <1>1, <1>3, <1>4, <1>6, <1>7, <1>9, <1>10, <1>12 DEF w, D, t

\* A request whose progress is its size has been received, also if files of no size are
\* not done.
LEMMA ProgressIsAll ==
    ASSUME WishTyped, RequestsTrue, NEW r \in DOMAIN wish, Progress(r) = Total(r)
    PROVE  Received(r)
BY ReadIs

-----------------------------------------------------------------------------
(* Who changes what *)

USE DEF ServeConnect, ServeDisconnect, ServeDownload,
    ServeShare, DialEnds, Teardown, BeginFile, ReceiveBlock, FileEnds, ServeListing,
    ServeSnapshot, SocketOpens, SocketCloses, PeerConnects, ConnectionLost, SendAll, backendVars,
    ConnectAnswered, DisconnectAnswered, DownloadAnswered, ShareAnswered, ListingAnswered,
    ListingItem, RequestsAnswered, RequestedFilesAnswered, ConnectedDelivered,
    DisconnectedDelivered, FailedDelivered, DownloadingDelivered, CompletedDelivered, programVars,
    ClickConnect, ClickDisconnect, ClickDownload, ClickShare, Expand, Search, elsewhere,
    UserCalls, UserAsks, Delivered, callVars, viewVars, historyVars

LEMMA WishFrame ==
    ASSUME Next, ~ UNCHANGED wish
    PROVE  (\E c \in clicks : ServeDownload(c)) \/ \E p \in Peer : ReceiveBlock(p) \/ FileEnds(p)
<1>1. CASE Program
      BY <1>1 DEF Program
<1>2. ~ View
      BY DEF View
<1>3. ~ User
      BY DEF User
<1>4. ~ Network
      BY DEF Network
<1> QED BY <1>1, <1>2, <1>3, <1>4 DEF Next

LEMMA WorkerFrame ==
    ASSUME Next, ~ UNCHANGED worker
    PROVE  \E p \in Peer : BeginFile(p) \/ ReceiveBlock(p) \/ FileEnds(p)
<1>1. CASE Program
      BY <1>1 DEF Program
<1>2. ~ View
      BY DEF View
<1>3. ~ User
      BY DEF User
<1>4. ~ Network
      BY DEF Network
<1> QED BY <1>1, <1>2, <1>3, <1>4 DEF Next

LEMMA EventsFrame ==
    ASSUME Next, ~ UNCHANGED events
    PROVE  \/ \E p \in Peer : DialEnds(p) \/ PeerConnects(p) \/ Teardown(p) \/ ReceiveBlock(p) \/ FileEnds(p)
           \/ SocketCloses
           \/ ConnectedDelivered \/ DisconnectedDelivered \/ FailedDelivered
           \/ DownloadingDelivered \/ CompletedDelivered
<1>1. CASE Program
      BY <1>1 DEF Program
<1>2. CASE View
      BY <1>2 DEF View
<1>3. ~ User
      BY DEF User
<1>4. CASE Network
      BY <1>4 DEF Network
<1> QED BY <1>1, <1>2, <1>3, <1>4 DEF Next

LEMMA ClicksFrame ==
    ASSUME Next, ~ UNCHANGED clicks
    PROVE  \/ \E c \in clicks : ServeConnect(c) \/ ServeDisconnect(c) \/ ServeDownload(c) \/ ServeShare(c)
           \/ \E c \in clicks : ConnectAnswered(c) \/ DisconnectAnswered(c) \/ DownloadAnswered(c) \/ ShareAnswered(c)
           \/ \E p \in Peer : ClickConnect(p) \/ ClickDisconnect(p)
           \/ (\E k \in DOMAIN files : ClickDownload(k)) \/ \E path \in DOMAIN Tree[Self] : ClickShare(path)
<1>1. CASE Program
      BY <1>1 DEF Program
<1>2. CASE View
      BY <1>2 DEF View
<1>3. CASE User
      BY <1>3 DEF User
<1>4. ~ Network
      BY DEF Network
<1> QED BY <1>1, <1>2, <1>3, <1>4 DEF Next

LEMMA ListingsFrame ==
    ASSUME Next, ~ UNCHANGED listings
    PROVE  \/ \E l \in listings : ServeListing(l) \/ ListingAnswered(l) \/ ListingItem(l)
           \/ (\E c \in clicks : ShareAnswered(c)) \/ (\E k \in DOMAIN files : Expand(k)) \/ Search
           \/ ConnectedDelivered
<1>1. CASE Program
      BY <1>1 DEF Program
<1>2. CASE View
      BY <1>2 DEF View
<1>3. CASE User
      BY <1>3 DEF User
<1>4. ~ Network
      BY DEF Network
<1> QED BY <1>1, <1>2, <1>3, <1>4 DEF Next

LEMMA SnapshotsFrame ==
    ASSUME Next, ~ UNCHANGED snapshots
    PROVE  \E s \in snapshots : ServeSnapshot(s) \/ RequestsAnswered(s) \/ RequestedFilesAnswered(s)
<1>1. CASE Program
      BY <1>1 DEF Program
<1>2. CASE View
      BY <1>2 DEF View
<1>3. CASE User
      BY <1>3 DEF User
<1>4. ~ Network
      BY DEF Network
<1> QED BY <1>1, <1>2, <1>3, <1>4 DEF Next

LEMMA FilesFrame ==
    ASSUME Next, ~ UNCHANGED files
    PROVE  \/ \E c \in clicks : DisconnectAnswered(c) \/ DownloadAnswered(c)
           \/ \E l \in listings : ListingItem(l)
           \/ \E s \in snapshots : RequestsAnswered(s) \/ RequestedFilesAnswered(s)
           \/ DisconnectedDelivered \/ DownloadingDelivered \/ CompletedDelivered
<1>1. ~ Program
      BY DEF Program
<1>2. CASE View
      BY <1>2 DEF View
<1>3. ~ User
      BY DEF User
<1>4. ~ Network
      BY DEF Network
<1> QED BY <1>1, <1>2, <1>3, <1>4 DEF Next

LEMMA TableFrame ==
    ASSUME Next, ~ UNCHANGED <<listed, closing, dialling, waiting>>
    PROVE  \/ \E c \in clicks : ServeConnect(c) \/ ServeDisconnect(c)
           \/ \E p \in Peer : DialEnds(p) \/ PeerConnects(p) \/ ConnectionLost(p) \/ Teardown(p)
<1> HIDE DEF ServeConnect, ServeDisconnect, DialEnds, PeerConnects, ConnectionLost, Teardown
<1>1. CASE Program
      BY <1>1 DEF Program
<1>2. ~ View
      BY DEF View
<1>3. ~ User
      BY DEF User
<1>4. CASE Network
      BY <1>4 DEF Network
<1> QED BY <1>1, <1>2, <1>3, <1>4 DEF Next

LEMMA MineFrame ==
    ASSUME Next, ~ UNCHANGED mine
    PROVE  \E c \in clicks : ServeShare(c)
<1>1. CASE Program
      BY <1>1 DEF Program
<1>2. ~ View
      BY DEF View
<1>3. ~ User
      BY DEF User
<1>4. ~ Network
      BY DEF Network
<1> QED BY <1>1, <1>2, <1>3, <1>4 DEF Next

LEMMA PeersFrame ==
    ASSUME Next, ~ UNCHANGED <<peers, pending>>
    PROVE  \/ \E c \in clicks : ConnectAnswered(c) \/ DisconnectAnswered(c)
           \/ \E l \in listings : ListingItem(l)
           \/ ConnectedDelivered \/ DisconnectedDelivered \/ FailedDelivered
           \/ \E p \in Peer : ClickConnect(p)
<1>1. ~ Program
      BY DEF Program
<1>2. CASE View
      BY <1>2 DEF View
<1>3. CASE User
      BY <1>3 DEF User
<1>4. ~ Network
      BY DEF Network
<1> QED BY <1>1, <1>2, <1>3, <1>4 DEF Next

LEMMA ResultsFrame ==
    ASSUME Next, ~ UNCHANGED results
    PROVE  \/ \E c \in clicks : DisconnectAnswered(c)
           \/ \E l \in listings : ListingAnswered(l) \/ ListingItem(l)
           \/ DisconnectedDelivered
<1>1. ~ Program
      BY DEF Program
<1>2. CASE View
      BY <1>2 DEF View
<1>3. ~ User
      BY DEF User
<1>4. ~ Network
      BY DEF Network
<1> QED BY <1>1, <1>2, <1>3, <1>4 DEF Next

LEMMA RequestsFrame ==
    ASSUME Next, ~ UNCHANGED requests
    PROVE  (\E c \in clicks : DownloadAnswered(c)) \/ \E s \in snapshots : RequestsAnswered(s)
<1>1. ~ Program
      BY DEF Program
<1>2. CASE View
      BY <1>2 DEF View
<1>3. ~ User
      BY DEF User
<1>4. ~ Network
      BY DEF Network
<1> QED BY <1>1, <1>2, <1>3, <1>4 DEF Next

LEMMA UnsizedFrame ==
    ASSUME Next, ~ UNCHANGED unsized
    PROVE  \/ \E c \in clicks : DownloadAnswered(c)
           \/ \E s \in snapshots : RequestsAnswered(s)
           \/ DownloadingDelivered
<1>1. ~ Program
      BY DEF Program
<1>2. CASE View
      BY <1>2 DEF View
<1>3. ~ User
      BY DEF User
<1>4. ~ Network
      BY DEF Network
<1> QED BY <1>1, <1>2, <1>3, <1>4 DEF Next

LEMMA MissedFrame ==
    ASSUME Next, ~ missed'
    PROVE  ~ missed
<1>1. CASE Program
      BY <1>1 DEF Program
<1>2. CASE View
      BY <1>2 DEF View
<1>3. CASE User
      BY <1>3 DEF User
<1>4. CASE Network
      BY <1>4 DEF Network
<1> QED BY <1>1, <1>2, <1>3, <1>4 DEF Next

LEMMA ExcusedFrame ==
    ASSUME Next, ~ UNCHANGED excused
    PROVE  \/ \E c \in clicks : DisconnectAnswered(c)
           \/ \E l \in listings : ServeListing(l) \/ ListingItem(l)
           \/ ConnectedDelivered \/ DisconnectedDelivered \/ FailedDelivered
<1>1. CASE Program
      BY <1>1 DEF Program
<1>2. CASE View
      BY <1>2 DEF View
<1>3. ~ User
      BY DEF User
<1>4. ~ Network
      BY DEF Network
<1> QED BY <1>1, <1>2, <1>3, <1>4 DEF Next

LEMMA SocketFrame ==
    ASSUME Next, socket \in BOOLEAN
    PROVE  socket' \in BOOLEAN
<1>1. CASE Program
      BY <1>1 DEF Program
<1>2. CASE View
      BY <1>2 DEF View
<1>3. CASE User
      BY <1>3 DEF User
<1>4. CASE Network
      BY <1>4 DEF Network
<1> QED BY <1>1, <1>2, <1>3, <1>4 DEF Next

HIDE DEF ServeConnect, ServeDisconnect, ServeDownload,
    ServeShare, DialEnds, Teardown, BeginFile, ReceiveBlock, FileEnds, ServeListing,
    ServeSnapshot, SocketOpens, SocketCloses, PeerConnects, ConnectionLost, SendAll, backendVars,
    ConnectAnswered, DisconnectAnswered, DownloadAnswered, ShareAnswered, ListingAnswered,
    ListingItem, RequestsAnswered, RequestedFilesAnswered, ConnectedDelivered,
    DisconnectedDelivered, FailedDelivered, DownloadingDelivered, CompletedDelivered, programVars,
    ClickConnect, ClickDisconnect, ClickDownload, ClickShare, Expand, Search, elsewhere,
    UserCalls, UserAsks, Delivered, callVars, viewVars, historyVars

-----------------------------------------------------------------------------
(* Requests go on *)

Further ==
    /\ DOMAIN wish \subseteq DOMAIN wish'
    /\ \A r \in DOMAIN wish :
         /\ wish'[r].peer = wish[r].peer /\ wish'[r].path = wish[r].path
         /\ DOMAIN wish'[r].got = DOMAIN wish[r].got
         /\ \A k \in DOMAIN wish[r].got : wish[r].got[k] <= wish'[r].got[k]

LEMMA NewIs ==
    ASSUME NEW p \in Peer, NEW path \in DOMAIN Tree[p]
    PROVE  LET w == NewRequest(p, path)
           IN  /\ w \in Wishes /\ w.peer = p /\ w.path = path /\ w.done = {}
               /\ DOMAIN w.got = FilesOf(p, path)
               /\ \A k \in DOMAIN w.got : w.got[k] = 0 /\ w.got[k] <= Tree[p][k]
<1>1. p \in DOMAIN Tree
      BY InterfaceAssumption
<1>2. /\ FilesOf(p, path) \in SUBSET Path /\ path \in Path
      /\ \A k \in FilesOf(p, path) : Tree[p][k] \in Nat
      BY <1>1, FilesAre
<1>3. [k \in FilesOf(p, path) |-> 0] \in [FilesOf(p, path) -> Nat]
      OBVIOUS
<1> QED BY <1>2, <1>3 DEF NewRequest, Wishes

\* One request changes: no more is wanted of it, and no less is there.
LEMMA OneRequest ==
    ASSUME WishTyped, RequestsTrue, NEW r \in DOMAIN wish, NEW o \in Wishes,
           wish' = [wish EXCEPT ![r] = o],
           o.peer = wish[r].peer, o.path = wish[r].path, DOMAIN o.got = DOMAIN wish[r].got,
           o.done \subseteq DOMAIN o.got,
           \A k \in DOMAIN o.got : wish[r].got[k] <= o.got[k] /\ o.got[k] <= Tree[o.peer][k],
           \A k \in o.done : o.got[k] = Tree[o.peer][k]
    PROVE  Further /\ WishTyped' /\ RequestsTrue'
<1>1. wish \in Seq(Wishes) /\ r \in 1..Len(wish)
      BY DEF WishTyped
<1>2. wish' \in Seq(Wishes) /\ Len(wish') = Len(wish) /\ DOMAIN wish' = DOMAIN wish
      BY <1>1
<1>3. \A x \in DOMAIN wish : wish'[x] = IF x = r THEN o ELSE wish[x]
      OBVIOUS
<1>4. \A x \in DOMAIN wish \ {r} : \A k \in DOMAIN wish[x].got : wish[x].got[k] \in Nat
      BY ReadIs
<1>5. Further
      BY <1>2, <1>3, <1>4 DEF Further
<1>6. RequestsTrue'
      BY <1>2, <1>3 DEF RequestsTrue
<1> QED BY <1>2, <1>5, <1>6 DEF WishTyped

LEMMA WishSteps ==
    ASSUME Truth, Next
    PROVE  Further /\ WishTyped' /\ RequestsTrue'
<1> USE DEF Truth
<1>0. WishTyped
      BY DEF Typed
<1>1. CASE UNCHANGED wish
  <2>1. \A r \in DOMAIN wish : \A k \in DOMAIN wish[r].got : wish[r].got[k] \in Nat
        BY <1>0, ReadIs
  <2>2. Further
        BY <1>1, <2>1 DEF Further
  <2> QED BY <1>0, <1>1, <2>2 DEF WishTyped, RequestsTrue
<1>2. ASSUME NEW c \in clicks, ServeDownload(c) PROVE Further /\ WishTyped' /\ RequestsTrue'
  <2>1. CASE UNCHANGED wish
        BY <1>1, <2>1
  <2>2. CASE Len(wish) < MaxReq /\ wish' = Append(wish, NewRequest(c.peer, c.path))
    <3>1. c.kind = "download" /\ c.peer \in Peer /\ c.path \in DOMAIN Tree[c.peer]
          BY <1>2 DEF ServeDownload, ClickTrue
    <3>2. PICK o : o = NewRequest(c.peer, c.path)
          OBVIOUS
    <3>3. /\ o \in Wishes /\ o.peer = c.peer /\ o.path = c.path /\ o.done = {}
          /\ DOMAIN o.got = FilesOf(o.peer, o.path)
          /\ \A k \in DOMAIN o.got : o.got[k] <= Tree[o.peer][k]
          BY <3>1, <3>2, NewIs
    <3>4. wish \in Seq(Wishes) /\ wish' = Append(wish, o)
          BY <1>0, <2>2, <3>2 DEF WishTyped
    <3>5. /\ wish' \in Seq(Wishes) /\ Len(wish') = Len(wish) + 1 /\ wish'[Len(wish) + 1] = o
          /\ DOMAIN wish = 1..Len(wish) /\ DOMAIN wish' = 1..(Len(wish) + 1) /\ Len(wish) \in Nat
          /\ \A r \in 1..Len(wish) : wish'[r] = wish[r]
          BY <3>3, <3>4
    <3>6. \A r \in DOMAIN wish : \A k \in DOMAIN wish[r].got : wish[r].got[k] \in Nat
          BY <1>0, ReadIs
    <3>7. Further
          BY <3>5, <3>6 DEF Further
    <3>8. ASSUME NEW r \in DOMAIN wish' PROVE (r \in DOMAIN wish /\ wish'[r] = wish[r]) \/ wish'[r] = o
          BY <3>5
    <3>9. RequestsTrue'
          BY <3>1, <3>3, <3>8 DEF RequestsTrue
    <3>10. Len(wish') <= MaxReq
          BY <2>2, <3>5, InterfaceAssumption
    <3> QED BY <3>5, <3>7, <3>9, <3>10 DEF WishTyped
  <2> QED BY <1>2, <2>1, <2>2 DEF ServeDownload
<1>3. ASSUME NEW p \in Peer, ReceiveBlock(p) PROVE Further /\ WishTyped' /\ RequestsTrue'
  <2>1. PICK r, f : r = worker[p].req /\ f = worker[p].file
        OBVIOUS
  <2>2. worker[p] # None /\ worker[p] \in Workers
        BY <1>3 DEF ReceiveBlock, Typed
  <2>3. r \in DOMAIN wish /\ wish[r].peer = p /\ f \in DOMAIN wish[r].got
        BY <2>1, <2>2 DEF WorkersTrue, WorkerTrue
  <2>4. /\ wish[r].got[f] < Tree[p][f] /\ wish' = [wish EXCEPT ![r].got[f] = @ + 1]
        BY <1>3, <2>1, <2>2 DEF ReceiveBlock, Workers
  <2> DEFINE o == [wish[r] EXCEPT !.got[f] = @ + 1]
  <2>5. wish[r] \in Wishes /\ wish' = [wish EXCEPT ![r] = o]
        BY <1>0, <2>3, <2>4 DEF WishTyped
  <2>6. /\ wish[r].got \in [DOMAIN wish[r].got -> Nat] /\ DOMAIN wish[r].got \in SUBSET Path
        /\ \A k \in DOMAIN wish[r].got : Tree[p][k] \in Nat
        BY <1>0, <2>3, <2>5, ReadIs, FilesAre, InterfaceAssumption DEF Wishes
  <2>7. /\ o \in Wishes /\ o.peer = p /\ o.path = wish[r].path /\ o.done = wish[r].done
        /\ DOMAIN o.got = DOMAIN wish[r].got
        /\ \A k \in DOMAIN o.got : o.got[k] = IF k = f THEN wish[r].got[k] + 1 ELSE wish[r].got[k]
        BY <2>3, <2>5, <2>6 DEF Wishes
  <2>8. /\ \A k \in DOMAIN wish[r].got : wish[r].got[k] <= Tree[p][k]
        /\ wish[r].done \subseteq DOMAIN wish[r].got
        /\ \A k \in wish[r].done : wish[r].got[k] = Tree[p][k]
        BY <2>3 DEF RequestsTrue
  <2> HIDE DEF o
  <2>9. \A k \in DOMAIN o.got : wish[r].got[k] <= o.got[k] /\ o.got[k] <= Tree[o.peer][k]
        BY <2>3, <2>4, <2>6, <2>7, <2>8
  <2>10. \A k \in o.done : o.got[k] = Tree[o.peer][k]
        BY <2>4, <2>6, <2>7, <2>8
  <2>11. o.peer = wish[r].peer /\ o.path = wish[r].path /\ o.done \subseteq DOMAIN o.got
        BY <2>3, <2>7, <2>8
  <2> QED BY <1>0, <2>3, <2>5, <2>7, <2>9, <2>10, <2>11, OneRequest
<1>4. ASSUME NEW p \in Peer, FileEnds(p) PROVE Further /\ WishTyped' /\ RequestsTrue'
  <2>1. PICK r, f : r = worker[p].req /\ f = worker[p].file
        OBVIOUS
  <2>2. worker[p] # None /\ worker[p] \in Workers
        BY <1>4 DEF FileEnds, Typed
  <2>3. r \in DOMAIN wish /\ wish[r].peer = p /\ f \in DOMAIN wish[r].got
        BY <2>1, <2>2 DEF WorkersTrue, WorkerTrue
  <2>4. CASE UNCHANGED wish
        BY <1>1, <2>4
  <2>5. CASE wish[r].got[f] = Tree[p][f] /\ wish' = [wish EXCEPT ![r].done = @ \cup {f}]
    <3> DEFINE o == [wish[r] EXCEPT !.done = @ \cup {f}]
    <3>1. wish[r] \in Wishes /\ wish' = [wish EXCEPT ![r] = o]
          BY <1>0, <2>3, <2>5 DEF WishTyped
    <3>2. wish[r].got \in [DOMAIN wish[r].got -> Nat] /\ DOMAIN wish[r].got \in SUBSET Path
          BY <1>0, <2>3, <3>1, ReadIs DEF Wishes
    <3>3. /\ o \in Wishes /\ o.peer = p /\ o.path = wish[r].path /\ o.done = wish[r].done \cup {f}
          /\ o.got = wish[r].got
          BY <2>3, <3>1, <3>2 DEF Wishes
    <3>4. /\ \A k \in DOMAIN wish[r].got : wish[r].got[k] <= Tree[p][k] /\ wish[r].got[k] <= wish[r].got[k]
          /\ wish[r].done \subseteq DOMAIN wish[r].got
          /\ \A k \in wish[r].done : wish[r].got[k] = Tree[p][k]
          BY <2>3, <3>2 DEF RequestsTrue
    <3> HIDE DEF o
    <3>5. o.peer = wish[r].peer /\ o.done \subseteq DOMAIN o.got /\ DOMAIN o.got = DOMAIN wish[r].got
          BY <2>3, <3>3, <3>4
    <3>6. /\ \A k \in DOMAIN o.got : wish[r].got[k] <= o.got[k] /\ o.got[k] <= Tree[o.peer][k]
          /\ \A k \in o.done : o.got[k] = Tree[o.peer][k]
          BY <2>5, <3>3, <3>4
    <3> QED BY <1>0, <2>3, <3>1, <3>3, <3>5, <3>6, OneRequest
  <2> QED BY <1>4, <2>1, <2>4, <2>5 DEF FileEnds
<1> QED BY <1>1, <1>2, <1>3, <1>4, WishFrame

\* What has been received stays so, and no less is read.
LEMMA ReadGrows ==
    ASSUME WishTyped, RequestsTrue, Further, WishTyped', RequestsTrue', NEW r \in DOMAIN wish
    PROVE  /\ r \in DOMAIN wish' /\ (Received(r) => Received(r)')
           /\ Read(r) \in Nat /\ Read(r)' \in Nat /\ Read(r) <= Read(r)'
           /\ \A k \in DOMAIN wish[r].got :
                wish[r].got[k] = Tree[wish[r].peer][k] => wish'[r].got[k] = Tree[wish[r].peer][k]
<1> DEFINE D == DOMAIN wish[r].got
<1>1. /\ r \in DOMAIN wish' /\ DOMAIN wish'[r].got = D /\ wish'[r].peer = wish[r].peer
      /\ \A k \in D : wish[r].got[k] <= wish'[r].got[k]
      BY DEF Further
<1>2. IsFiniteSet(D) /\ wish[r].got \in [D -> Nat]
      BY ReadIs
<1>3. wish'[r].got \in [D -> Nat]
  <2>1. wish'[r] \in Wishes
        BY <1>1 DEF WishTyped
  <2> QED BY <1>1, <2>1 DEF Wishes
<1>4. Values(wish[r].got, D, Nat) /\ Values(wish'[r].got, D, Nat) /\ Values(wish[r].got, D, Int)
      /\ Values(wish'[r].got, D, Int)
      BY <1>2, <1>3 DEF Values
<1>5. Read(r) = SumOf(wish[r].got, D) /\ Read(r)' = SumOf(wish'[r].got, D)
      BY <1>1 DEF Read
<1>6. \A k \in D : wish'[r].got[k] <= Tree[wish[r].peer][k]
      BY <1>1 DEF RequestsTrue
<1>7. \A k \in D : wish[r].got[k] = Tree[wish[r].peer][k] => wish'[r].got[k] = Tree[wish[r].peer][k]
      BY <1>1, <1>2, <1>3, <1>6
<1>8. Received(r) => Received(r)'
      BY <1>1, <1>7 DEF Received
<1>9. Read(r) \in Nat /\ Read(r)' \in Nat /\ Read(r) <= Read(r)'
  <2> HIDE DEF D
  <2> QED BY <1>1, <1>2, <1>4, <1>5, SumCompares, SumType
<1> QED BY <1>1, <1>7, <1>8, <1>9

-----------------------------------------------------------------------------
(* Workers and what they report *)

LEMMA NoneIsNone == None \notin Workers /\ None \notin DOMAIN Tree /\ None \notin Peer
BY InterfaceAssumption DEF Workers

\* A worker whose request is as it was.
LEMMA WorkerWaits ==
    ASSUME WishTyped, RequestsTrue, Further, WishTyped', RequestsTrue', NEW p \in Peer, NEW w \in Workers,
           WorkerTrue(p, w), wish'[w.req].got = wish[w.req].got
    PROVE  WorkerTrue(p, w)'
<1>1. w.req \in DOMAIN wish
      BY DEF WorkerTrue
<1>2. Read(w.req)' = Read(w.req)
      BY DEF Read
<1>3. /\ w.req \in DOMAIN wish' /\ wish'[w.req].peer = p /\ w.file \in DOMAIN wish'[w.req].got
      /\ w.bytes + w.since = wish'[w.req].got[w.file] /\ w.total + w.since <= Read(w.req)
      BY <1>1 DEF Further, WorkerTrue
<1> QED BY <1>2, <1>3 DEF WorkerTrue

LEMMA BlockRead ==
    ASSUME Truth, Next, NEW p \in Peer, ReceiveBlock(p)
    PROVE  \E w \in Workers :
               /\ w = worker[p] /\ WorkerTrue(p, w)
               /\ DOMAIN wish' = DOMAIN wish
               /\ wish'[w.req].got[w.file] = wish[w.req].got[w.file] + 1
               /\ Read(w.req)' = Read(w.req) + 1 /\ Read(w.req) \in Nat
               /\ \A r \in DOMAIN wish \ {w.req} : wish'[r] = wish[r]
<1>1. PICK w \in Workers : w = worker[p] /\ w # None
      BY DEF ReceiveBlock, Truth, Typed
<1>2. WorkerTrue(p, w)
      BY <1>1 DEF Truth, WorkersTrue
<1>3. PICK r, f : r = w.req /\ f = w.file
      OBVIOUS
<1>4. r \in DOMAIN wish /\ f \in DOMAIN wish[r].got
      BY <1>2, <1>3 DEF WorkerTrue
<1>5. wish' = [wish EXCEPT ![r].got[f] = @ + 1]
      BY <1>1, <1>3 DEF ReceiveBlock, Workers
<1>6. WishTyped /\ RequestsTrue /\ Further /\ WishTyped' /\ RequestsTrue'
      BY WishSteps DEF Truth, Typed
<1>7. wish[r] \in Wishes /\ wish[r].got \in [DOMAIN wish[r].got -> Nat] /\ IsFiniteSet(DOMAIN wish[r].got)
      BY <1>4, <1>6, ReadIs
<1>8. wish'[r].got = [wish[r].got EXCEPT ![f] = @ + 1] /\ DOMAIN wish' = DOMAIN wish
      /\ \A x \in DOMAIN wish \ {r} : wish'[x] = wish[x]
      BY <1>4, <1>5, <1>7 DEF Wishes
<1> DEFINE D == DOMAIN wish[r].got
           g == wish'[r].got
<1>9. /\ DOMAIN g = D /\ g[f] = wish[r].got[f] + 1 /\ \A k \in D \ {f} : wish[r].got[k] = g[k]
      /\ wish[r].got[f] \in Nat /\ Values(wish[r].got, D, Int) /\ Values(g, D, Int)
      BY <1>4, <1>7, <1>8 DEF Values
<1>10. Read(r) = SumOf(wish[r].got, D) /\ Read(r)' = SumOf(g, D) /\ Read(r) \in Nat
       BY <1>4, <1>6, <1>9, ReadIs DEF Read
<1>11. Read(r)' = Read(r) + 1
  <2> HIDE DEF g
  <2>1. SumOf(g, D) = SumOf(wish[r].got, D) + (g[f] - wish[r].got[f])
        BY <1>4, <1>7, <1>9, SumChanged
  <2> QED BY <1>9, <1>10, <2>1
<1> QED BY <1>1, <1>2, <1>3, <1>8, <1>9, <1>10, <1>11

LEMMA ReportTyped ==
    ASSUME NEW w \in Workers
    PROVE  LET v == [w EXCEPT !.since = @ + 1]
           IN  /\ v \in Workers /\ v.req = w.req /\ v.file = w.file /\ v.bytes = w.bytes
               /\ v.total = w.total /\ v.since = w.since + 1
               /\ Reported(v) \in Workers /\ Reported(v).req = w.req /\ Reported(v).file = w.file
               /\ Reported(v).bytes = w.bytes + (w.since + 1)
               /\ Reported(v).total = w.total + (w.since + 1) /\ Reported(v).since = 0
<1> DEFINE v == [w EXCEPT !.since = @ + 1]
<1>1. /\ v \in Workers /\ v.req = w.req /\ v.file = w.file /\ v.bytes = w.bytes
      /\ v.total = w.total /\ v.since = w.since + 1
      BY DEF Workers
<1>2. v.bytes \in Nat /\ v.since \in Nat /\ v.total \in Nat
      BY <1>1 DEF Workers
<1> HIDE DEF v
<1>3. PICK b \in Nat, t \in Nat : b = v.bytes + v.since /\ t = v.total + v.since
      BY <1>2
<1>4. Reported(v) = [v EXCEPT !.bytes = b, !.total = t, !.since = 0]
      BY <1>3 DEF Reported
<1>5. /\ Reported(v) \in Workers /\ Reported(v).req = v.req /\ Reported(v).file = v.file
      /\ Reported(v).bytes = b /\ Reported(v).total = t /\ Reported(v).since = 0
  <2>1. PICK x : x = [v EXCEPT !.bytes = b]
        OBVIOUS
  <2>2. PICK y : y = [x EXCEPT !.total = t]
        OBVIOUS
  <2>3. x \in Workers /\ x.req = v.req /\ x.file = v.file /\ x.bytes = b
        BY <1>1, <2>1 DEF Workers
  <2>4. y \in Workers /\ y.req = v.req /\ y.file = v.file /\ y.bytes = b /\ y.total = t
        BY <2>2, <2>3 DEF Workers
  <2>5. Reported(v) = [y EXCEPT !.since = 0]
        BY <1>4, <2>1, <2>2
  <2> QED BY <2>4, <2>5 DEF Workers
<1> QED BY <1>1, <1>3, <1>5 DEF v

LEMMA WorkerSteps ==
    ASSUME Truth, Next
    PROVE  WorkersTrue' /\ worker' \in [Peer -> {None} \cup Workers]
<1>0. /\ WishTyped /\ RequestsTrue /\ Further /\ WishTyped' /\ RequestsTrue'
      /\ worker \in [Peer -> {None} \cup Workers] /\ None \notin Workers
      /\ \A p \in Peer : worker[p] # None => worker[p] \in Workers /\ WorkerTrue(p, worker[p])
      BY WishSteps, NoneIsNone DEF Truth, Typed, WorkersTrue
<1> DEFINE Goal == WorkersTrue' /\ worker' \in [Peer -> {None} \cup Workers]
<1>1. CASE UNCHANGED worker /\ \A r \in DOMAIN wish : wish'[r].got = wish[r].got
  <2>1. ASSUME NEW p \in Peer, NEW w \in {worker[p]} \ {None} PROVE WorkerTrue(p, w)'
    <3>1. w \in Workers /\ WorkerTrue(p, w)
          BY <1>0
    <3>2. wish'[w.req].got = wish[w.req].got
          BY <1>1, <3>1 DEF WorkerTrue
    <3> QED BY <1>0, <3>1, <3>2, WorkerWaits
  <2> QED BY <1>0, <1>1, <2>1 DEF WorkersTrue
<1>2. CASE UNCHANGED <<worker, wish>>
      BY <1>1, <1>2
<1>3. ASSUME NEW c \in clicks, ServeDownload(c) PROVE Goal
  <2>1. UNCHANGED worker /\ (wish' = wish \/ wish' = Append(wish, NewRequest(c.peer, c.path)))
        BY <1>3 DEF ServeDownload
  <2>2. wish \in Seq(Wishes)
        BY <1>0 DEF WishTyped
  <2>3. \A r \in DOMAIN wish : wish'[r] = wish[r]
        BY <2>1, <2>2
  <2> QED BY <1>1, <2>1, <2>3
<1>4. ASSUME NEW p \in Peer, BeginFile(p) PROVE Goal
  <2>1. UNCHANGED wish /\ worker[p] = None
        BY <1>4 DEF BeginFile
  <2>2. PICK r \in DOMAIN wish : /\ wish[r].peer = p
          /\ \E k \in DOMAIN wish[r].got \ wish[r].done :
              worker' = [worker EXCEPT ![p] =
                  [req |-> r, file |-> k, bytes |-> wish[r].got[k], since |-> 0, total |-> Progress(r)]]
        BY <1>4 DEF BeginFile
  <2>3. PICK k \in DOMAIN wish[r].got :
              worker' = [worker EXCEPT ![p] =
                  [req |-> r, file |-> k, bytes |-> wish[r].got[k], since |-> 0, total |-> Progress(r)]]
        BY <2>2
  <2>4. /\ r \in Req /\ DOMAIN wish[r].got \in SUBSET Path /\ wish[r].got \in [DOMAIN wish[r].got -> Nat]
        /\ Progress(r) \in Nat /\ Read(r) \in Nat /\ Progress(r) <= Read(r)
        BY <1>0, ReadIs, FilesAre, InterfaceAssumption
  <2>5. PICK w : w = [req |-> r, file |-> k, bytes |-> wish[r].got[k], since |-> 0, total |-> Progress(r)]
        OBVIOUS
  <2>6. w \in Workers /\ WorkerTrue(p, w)
        BY <2>2, <2>4, <2>5 DEF Workers, WorkerTrue
  <2>7. worker' = [worker EXCEPT ![p] = w] /\ worker' \in [Peer -> {None} \cup Workers]
        BY <1>0, <2>3, <2>5, <2>6
  <2>8. ASSUME NEW q \in Peer, NEW v \in {worker'[q]} \ {None} PROVE WorkerTrue(q, v)'
    <3>1. v \in Workers /\ WorkerTrue(q, v)
          BY <1>0, <2>6, <2>7
    <3> QED BY <1>0, <2>1, <3>1, WorkerWaits
  <2> QED BY <2>7, <2>8 DEF WorkersTrue
<1>5. ASSUME NEW p \in Peer, ReceiveBlock(p) PROVE Goal
  <2>1. PICK w \in Workers :
           /\ w = worker[p] /\ WorkerTrue(p, w)
           /\ wish'[w.req].got[w.file] = wish[w.req].got[w.file] + 1
           /\ Read(w.req)' = Read(w.req) + 1 /\ Read(w.req) \in Nat
           /\ \A r \in DOMAIN wish \ {w.req} : wish'[r] = wish[r]
        BY <1>5, BlockRead
  <2>2. PICK v : v = [w EXCEPT !.since = @ + 1]
        OBVIOUS
  <2>4. worker' = [worker EXCEPT ![p] = v] \/ worker' = [worker EXCEPT ![p] = Reported(v)]
        BY <1>5, <2>1, <2>2 DEF ReceiveBlock
  <2>5. PICK u \in {v, Reported(v)} : worker' = [worker EXCEPT ![p] = u]
        BY <2>4
  <2>6. /\ u \in Workers /\ u.req = w.req /\ u.file = w.file
        /\ u.bytes + u.since = (w.bytes + w.since) + 1 /\ u.total + u.since = (w.total + w.since) + 1
    <3>1. w.bytes \in Nat /\ w.since \in Nat /\ w.total \in Nat
          BY <2>1 DEF Workers
    <3>2. /\ v \in Workers /\ v.req = w.req /\ v.file = w.file /\ v.bytes = w.bytes
          /\ v.total = w.total /\ v.since = w.since + 1
          /\ Reported(v) \in Workers /\ Reported(v).req = w.req /\ Reported(v).file = w.file
          /\ Reported(v).bytes = w.bytes + (w.since + 1)
          /\ Reported(v).total = w.total + (w.since + 1) /\ Reported(v).since = 0
          BY <2>2, ReportTyped
    <3>3. CASE u = v
          BY <3>1, <3>2, <3>3
    <3>4. CASE u = Reported(v)
          BY <3>1, <3>2, <3>4
    <3> QED BY <2>5, <3>3, <3>4
  <2>7. /\ w.req \in DOMAIN wish /\ wish[w.req].peer = p /\ w.file \in DOMAIN wish[w.req].got
        /\ w.bytes + w.since = wish[w.req].got[w.file] /\ w.total + w.since <= Read(w.req)
        BY <2>1 DEF WorkerTrue
  <2>8. WorkerTrue(p, u)'
    <3>1. /\ u.req \in DOMAIN wish' /\ wish'[u.req].peer = p /\ u.file \in DOMAIN wish'[u.req].got
          BY <1>0, <2>6, <2>7 DEF Further
    <3>2. u.bytes + u.since = wish'[u.req].got[u.file]
          BY <2>1, <2>6, <2>7
    <3>3. u.total + u.since <= Read(w.req)'
      <4>1. w.total + w.since \in Nat
            BY <2>1 DEF Workers
      <4> QED BY <2>1, <2>6, <2>7, <4>1
    <3>4. Read(u.req)' = Read(w.req)'
          BY <2>6
    <3> QED BY <3>1, <3>2, <3>3, <3>4 DEF WorkerTrue
  <2>9. worker' \in [Peer -> {None} \cup Workers]
        BY <1>0, <2>5, <2>6
  <2>10. ASSUME NEW q \in Peer, NEW x \in {worker'[q]} \ {None} PROVE WorkerTrue(q, x)'
    <3>1. CASE q = p
          BY <1>0, <2>5, <2>8, <3>1
    <3>2. CASE q # p
      <4>1. x \in Workers /\ WorkerTrue(q, x)
            BY <1>0, <2>5, <3>2
      <4>2. wish'[x.req] = wish[x.req]
            BY <2>1, <2>7, <3>2, <4>1 DEF WorkerTrue
      <4> QED BY <1>0, <4>1, <4>2, WorkerWaits
    <3> QED BY <3>1, <3>2
  <2> QED BY <2>9, <2>10 DEF WorkersTrue
<1>6. ASSUME NEW p \in Peer, FileEnds(p) PROVE Goal
  <2>1. worker' = [worker EXCEPT ![p] = None] /\ worker[p] # None
        BY <1>6 DEF FileEnds
  <2>2. \A r \in DOMAIN wish : wish'[r].got = wish[r].got
    <3>1. PICK x, f : wish' = wish \/ wish' = [wish EXCEPT ![x].done = @ \cup {f}]
          BY <1>6 DEF FileEnds
    <3>2. \A r \in DOMAIN wish : wish[r] \in Wishes
          BY <1>0, ReadIs
    <3> QED BY <3>1, <3>2 DEF Wishes
  <2>3. worker' \in [Peer -> {None} \cup Workers]
        BY <1>0, <2>1
  <2>4. ASSUME NEW q \in Peer, NEW w \in {worker'[q]} \ {None} PROVE WorkerTrue(q, w)'
    <3>1. w \in Workers /\ WorkerTrue(q, w)
          BY <1>0, <2>1
    <3>2. wish'[w.req].got = wish[w.req].got
          BY <2>2, <3>1 DEF WorkerTrue
    <3> QED BY <1>0, <3>1, <3>2, WorkerWaits
  <2> QED BY <2>3, <2>4 DEF WorkersTrue
<1> QED BY <1>2, <1>3, <1>4, <1>5, <1>6, WishFrame, WorkerFrame

-----------------------------------------------------------------------------
(* Events *)

LEMMA RangeIs ==
    ASSUME NEW S, NEW s \in Seq(S)
    PROVE  Range(s) \subseteq S /\ \A i \in 1..Len(s) : s[i] \in Range(s)
BY DEF Range

LEMMA RangeOfTail ==
    ASSUME NEW S, NEW s \in Seq(S), s # <<>>
    PROVE  /\ Tail(s) \in Seq(S) /\ Len(Tail(s)) = Len(s) - 1 /\ Range(Tail(s)) \subseteq Range(s)
           /\ Head(s) = s[1] /\ Head(s) \in Range(s) /\ Head(s) \in S
           /\ \A i \in 1..(Len(s) - 1) : Tail(s)[i] = s[i + 1]
<1>1. /\ Tail(s) \in Seq(S) /\ Len(Tail(s)) = Len(s) - 1 /\ Len(s) \in Nat \ {0} /\ Head(s) = s[1]
      /\ \A i \in 1..(Len(s) - 1) : Tail(s)[i] = s[i + 1]
      BY HeadTailProperties, EmptySeq
<1>2. DOMAIN Tail(s) = 1..(Len(s) - 1)
      BY <1>1
<1>3. Range(Tail(s)) \subseteq Range(s)
      BY <1>1, <1>2 DEF Range
<1> QED BY <1>1, <1>3, RangeIs

LEMMA RangeOfFirst ==
    ASSUME NEW S, NEW s \in Seq(S), NEW n \in 0..Len(s)
    PROVE  /\ SubSeq(s, 1, n) \in Seq(S) /\ Len(SubSeq(s, 1, n)) = n
           /\ Range(SubSeq(s, 1, n)) \subseteq Range(s)
<1>1. /\ SubSeq(s, 1, n) \in Seq(S) /\ Len(SubSeq(s, 1, n)) = n
      /\ \A i \in 1..n : SubSeq(s, 1, n)[i] = s[i]
      OBVIOUS
<1> QED BY <1>1 DEF Range

LEMMA RangeOfMore ==
    ASSUME NEW S, NEW s \in Seq(S), NEW t \in Seq(S)
    PROVE  /\ s \o t \in Seq(S) /\ Len(s \o t) = Len(s) + Len(t)
           /\ Range(s \o t) \subseteq Range(s) \cup Range(t)
           /\ \A i \in 1..Len(s) : (s \o t)[i] = s[i]
           /\ \A i \in 1..Len(t) : (s \o t)[Len(s) + i] = t[i]
<1>1. /\ s \o t \in Seq(S) /\ Len(s \o t) = Len(s) + Len(t) /\ Len(s) \in Nat /\ Len(t) \in Nat
      /\ \A i \in 1..Len(s) : (s \o t)[i] = s[i]
      /\ \A i \in 1..Len(t) : (s \o t)[Len(s) + i] = t[i]
      OBVIOUS
<1>2. ASSUME NEW i \in 1..(Len(s) + Len(t)) PROVE (s \o t)[i] \in Range(s) \cup Range(t)
  <2>1. CASE i <= Len(s)
        BY <1>1, <2>1, RangeIs
  <2>2. CASE i > Len(s)
    <3>1. PICK j \in 1..Len(t) : i = Len(s) + j
      <4>1. i - Len(s) \in 1..Len(t) /\ i = Len(s) + (i - Len(s))
            BY <1>1, <2>2
      <4> QED BY <4>1
    <3> QED BY <1>1, <3>1, RangeIs
  <2> QED BY <1>1, <2>1, <2>2
<1>3. DOMAIN (s \o t) = 1..(Len(s) + Len(t))
      BY <1>1
<1> QED BY <1>1, <1>2, <1>3 DEF Range

LEMMA Sent ==
    ASSUME events \in Seq(Events), Len(events) <= MaxQueue, NEW es \in Seq(Events), SendAll(es)
    PROVE  events' \in Seq(Events) /\ Len(events') <= MaxQueue /\ Range(events') \subseteq Range(events) \cup Range(es)
BY RangeOfMore DEF SendAll

LEMMA OneIs == \A S : \A x \in S : <<x>> \in Seq(S) /\ Range(<<x>>) = {x} /\ Len(<<x>>) = 1 /\ <<x>>[1] = x
BY DEF Range

LEMMA EventKept ==
    ASSUME WishTyped, RequestsTrue, Further, WishTyped', RequestsTrue', NEW e \in Events, EventTrue(e)
    PROVE  EventTrue(e)'
<1>1. CASE e.kind = "downloading"
  <2>1. PICK r \in DOMAIN wish : r = e.req /\ wish[r].peer = e.peer /\ e.path \in DOMAIN wish[r].got
                                 /\ e.bytes <= wish[r].got[e.path] /\ e.total <= Read(r)
        BY <1>1 DEF EventTrue
  <2>2. /\ r \in DOMAIN wish' /\ Read(r) \in Nat /\ Read(r)' \in Nat /\ Read(r) <= Read(r)'
        BY ReadGrows
  <2>3. wish[r].got \in [DOMAIN wish[r].got -> Nat] /\ e.bytes \in Nat /\ e.total \in Nat
        BY ReadIs DEF Events
  <2>4. /\ wish'[r].peer = e.peer /\ e.path \in DOMAIN wish'[r].got
        /\ wish[r].got[e.path] <= wish'[r].got[e.path]
        BY <2>1 DEF Further
  <2>5. wish'[r].got[e.path] \in Nat
    <3>1. wish'[r] \in Wishes
          BY <2>2 DEF WishTyped
    <3> QED BY <2>4, <3>1 DEF Wishes
  <2>6. e.bytes <= wish'[r].got[e.path] /\ e.total <= Read(r)'
        BY <2>1, <2>2, <2>3, <2>4, <2>5
  <2>7. Read(e.req)' = Read(r)'
        BY <2>1
  <2> QED BY <1>1, <2>1, <2>2, <2>4, <2>6, <2>7 DEF EventTrue
<1>2. CASE e.kind = "completed"
  <2>1. PICK r \in DOMAIN wish : r = e.req /\ wish[r].peer = e.peer /\ wish[r].path = e.path /\ Received(r)
        BY <1>2 DEF EventTrue
  <2>2. r \in DOMAIN wish' /\ Received(r)' /\ wish'[r].peer = e.peer /\ wish'[r].path = e.path
        BY <2>1, ReadGrows DEF Further
  <2> QED BY <1>2, <2>1, <2>2 DEF EventTrue
<1> QED BY <1>1, <1>2 DEF EventTrue

LEMMA PeerEventIs ==
    ASSUME NEW kind \in {"connected", "disconnected", "failed"}, NEW p \in Peer
    PROVE  /\ PeerEvent(kind, p) \in Events /\ PeerEvent(kind, p).kind = kind /\ PeerEvent(kind, p).peer = p
           /\ EventTrue(PeerEvent(kind, p)) /\ EventTrue(PeerEvent(kind, p))'
BY InterfaceAssumption DEF PeerEvent, Event, Events, EventKinds, EventTrue

LEMMA EventSteps ==
    ASSUME Truth, Next
    PROVE  /\ events' \in Seq(Events) /\ Len(events') <= MaxQueue
           /\ \A e \in Range(events') : EventTrue(e)'
<1> DEFINE Goal == /\ events' \in Seq(Events) /\ Len(events') <= MaxQueue
                   /\ \A e \in Range(events') : EventTrue(e)'
<1>0. /\ WishTyped /\ RequestsTrue /\ Further /\ WishTyped' /\ RequestsTrue'
      /\ events \in Seq(Events) /\ Len(events) <= MaxQueue
      /\ \A e \in Range(events) : e \in Events /\ EventTrue(e)
      BY WishSteps, RangeIs DEF Truth, Typed
<1>1. \A e \in Range(events) : EventTrue(e)'
      BY <1>0, EventKept
<1>2. ASSUME NEW es \in Seq(Events), SendAll(es), \A e \in Range(es) : EventTrue(e)' PROVE Goal
      BY <1>0, <1>1, <1>2, Sent
<1>3. CASE UNCHANGED events
      BY <1>0, <1>1, <1>3
<1>4. ASSUME NEW kind \in {"connected", "disconnected", "failed"}, NEW p \in Peer,
             SendAll(<<PeerEvent(kind, p)>>)
      PROVE  Goal
  <2>1. PICK e \in Events : e = PeerEvent(kind, p) /\ EventTrue(e)'
        BY PeerEventIs
  <2>2. <<e>> \in Seq(Events) /\ Range(<<e>>) = {e}
        BY OneIs
  <2> QED BY <1>2, <1>4, <2>1, <2>2
<1>5. ASSUME NEW p \in Peer, DialEnds(p) \/ PeerConnects(p) \/ Teardown(p) PROVE Goal
  <2>1. CASE UNCHANGED events
        BY <1>3, <2>1
  <2>2. CASE SendAll(<<PeerEvent("connected", p)>>)
        BY <1>4, <2>2
  <2>3. CASE SendAll(<<PeerEvent("disconnected", p)>>)
        BY <1>4, <2>3
  <2>4. CASE SendAll(<<PeerEvent("failed", p)>>)
        BY <1>4, <2>4
  <2> QED BY <1>5, <2>1, <2>2, <2>3, <2>4 DEF DialEnds, PeerConnects, Teardown
<1>6. ASSUME NEW p \in Peer, ReceiveBlock(p) PROVE Goal
  <2>1. PICK w \in Workers :
           /\ w = worker[p] /\ WorkerTrue(p, w)
           /\ wish'[w.req].got[w.file] = wish[w.req].got[w.file] + 1
           /\ Read(w.req)' = Read(w.req) + 1 /\ Read(w.req) \in Nat
        BY <1>6, BlockRead
  <2>2. PICK v : v = Reported([w EXCEPT !.since = @ + 1])
        OBVIOUS
  <2>3. UNCHANGED events \/ SendAll(<<Download(p, v)>>)
        BY <1>6, <2>1, <2>2 DEF ReceiveBlock
  <2>4. /\ v \in Workers /\ v.req = w.req /\ v.file = w.file /\ v.bytes = w.bytes + (w.since + 1)
        /\ v.total = w.total + (w.since + 1)
        BY <2>2, ReportTyped
  <2>5. PICK e : e = Download(p, v)
        OBVIOUS
  <2>6. /\ e \in Events /\ e.kind = "downloading" /\ e.peer = p /\ e.req = w.req /\ e.path = w.file
        /\ e.bytes = v.bytes /\ e.total = v.total
        BY <2>4, <2>5 DEF Download, Event, Events, EventKinds, Workers, Req
  <2>7. /\ w.req \in DOMAIN wish /\ wish[w.req].peer = p /\ w.file \in DOMAIN wish[w.req].got
        /\ w.bytes + w.since = wish[w.req].got[w.file] /\ w.total + w.since <= Read(w.req)
        /\ w.bytes \in Nat /\ w.since \in Nat /\ w.total \in Nat
        BY <2>1 DEF WorkerTrue, Workers
  <2>8. e.bytes <= wish'[w.req].got[w.file] /\ e.total <= Read(w.req)'
    <3>1. e.bytes = (w.bytes + w.since) + 1 /\ e.total = (w.total + w.since) + 1
          BY <2>4, <2>6, <2>7
    <3>2. wish'[w.req].got[w.file] = (w.bytes + w.since) + 1
          BY <2>1, <2>7
    <3> QED BY <2>1, <2>7, <3>1, <3>2
  <2>9. /\ w.req \in DOMAIN wish' /\ wish'[w.req].peer = p /\ w.file \in DOMAIN wish'[w.req].got
        BY <1>0, <2>7 DEF Further
  <2>10. EventTrue(e)'
    <3>1. Read(e.req)' = Read(w.req)'
          BY <2>6
    <3>2. e.kind # "completed"
          BY <2>6
    <3> QED BY <2>6, <2>8, <2>9, <3>1, <3>2 DEF EventTrue
  <2>11. <<e>> \in Seq(Events) /\ Range(<<e>>) = {e}
         BY <2>6, OneIs
  <2> QED BY <1>2, <1>3, <2>3, <2>5, <2>10, <2>11
<1>7. ASSUME NEW p \in Peer, FileEnds(p) PROVE Goal
  <2>1. PICK w \in Workers : w = worker[p] /\ WorkerTrue(p, w)
        BY <1>7 DEF FileEnds, Truth, Typed, WorkersTrue
  <2>2. /\ w.req \in DOMAIN wish /\ wish[w.req].peer = p /\ w.file \in DOMAIN wish[w.req].got
        /\ w.bytes + w.since = wish[w.req].got[w.file] /\ w.total + w.since <= Read(w.req)
        /\ w.bytes \in Nat /\ w.since \in Nat /\ w.total \in Nat /\ w.file \in Path /\ w.req \in Req
        BY <2>1 DEF WorkerTrue, Workers
  <2>3. /\ Read(w.req) \in Nat /\ wish[w.req].got[w.file] \in Nat /\ wish[w.req].peer = p
        /\ wish[w.req].path \in Path
        BY <1>0, <2>2, ReadIs DEF Wishes
  <2>4. PICK e : e = LastReport(p, w)
        OBVIOUS
  <2>5. e = Event("downloading", p, w.req, w.file, w.bytes + w.since, w.total)
        BY <2>1, <2>4 DEF LastReport, Download, Workers
  <2>6. /\ e \in Events /\ e.kind = "downloading" /\ e.peer = p /\ e.req = w.req /\ e.path = w.file
        /\ e.bytes = w.bytes + w.since /\ e.total = w.total
        BY <2>2, <2>5 DEF Event, Events, EventKinds, Req
  <2>7. EventTrue(e)
    <3>1. e.bytes <= wish[w.req].got[w.file] /\ e.total <= Read(w.req)
          BY <2>2, <2>3, <2>6
    <3>2. e.kind # "completed"
          BY <2>6
    <3> QED BY <2>2, <2>6, <3>1, <3>2 DEF EventTrue
  <2>8. EventTrue(e)' /\ <<e>> \in Seq(Events) /\ Range(<<e>>) = {e}
        BY <1>0, <2>6, <2>7, EventKept, OneIs
  <2>9. CASE SendAll(<<e>>)
        BY <1>2, <2>8, <2>9
  <2>10. CASE wish[w.req].got[w.file] = Tree[p][w.file] /\ SendAll(<<e>> \o Completed(p, w))
    <3>1. CASE Completed(p, w) = <<>>
      <4>1. <<e>> \o Completed(p, w) = <<e>>
            BY <2>8, <3>1
      <4> QED BY <2>9, <2>10, <4>1
    <3>2. CASE Completed(p, w) # <<>>
      <4>1. PICK d : d = Event("completed", p, w.req, wish[w.req].path, 0, 0)
            OBVIOUS
      <4>2. Completed(p, w) = <<d>> /\ wish[w.req].done \cup {w.file} = DOMAIN wish[w.req].got
            BY <3>2, <4>1 DEF Completed
      <4>3. /\ d \in Events /\ d.kind = "completed" /\ d.peer = p /\ d.req = w.req
            /\ d.path = wish[w.req].path
            BY <2>2, <2>3, <4>1 DEF Event, Events, EventKinds, Req
      <4>4. Received(w.req)
            BY <1>0, <2>2, <2>10, <4>2 DEF Received, RequestsTrue
      <4>5. EventTrue(d)
        <5>1. d.kind # "downloading"
              BY <4>3
        <5> QED BY <2>2, <4>3, <4>4, <5>1 DEF EventTrue
      <4>6. EventTrue(d)' /\ <<d>> \in Seq(Events) /\ Range(<<d>>) = {d}
            BY <1>0, <4>3, <4>5, EventKept, OneIs
      <4>7. <<e>> \o <<d>> \in Seq(Events) /\ Range(<<e>> \o <<d>>) \subseteq {e} \cup {d}
            BY <2>8, <4>6, RangeOfMore
      <4> QED BY <1>2, <2>8, <2>10, <4>2, <4>6, <4>7
    <3> QED BY <3>1, <3>2
  <2> QED BY <1>7, <2>1, <2>2, <2>4, <2>9, <2>10 DEF FileEnds
<1>8. CASE SocketCloses
  <2>1. PICK n \in 0..Len(events) : events' = SubSeq(events, 1, n)
        BY <1>8 DEF SocketCloses
  <2>2. events' \in Seq(Events) /\ Len(events') = n /\ Range(events') \subseteq Range(events)
        BY <1>0, <2>1, RangeOfFirst
  <2> QED BY <1>0, <1>1, <2>2, InterfaceAssumption
<1>9. ASSUME ConnectedDelivered \/ DisconnectedDelivered \/ FailedDelivered
             \/ DownloadingDelivered \/ CompletedDelivered
      PROVE  Goal
  <2>1. events # <<>> /\ events' = Tail(events)
        BY <1>9 DEF ConnectedDelivered, DisconnectedDelivered, FailedDelivered, DownloadingDelivered,
            CompletedDelivered, Delivered
  <2>2. events' \in Seq(Events) /\ Len(events') = Len(events) - 1 /\ Range(events') \subseteq Range(events)
        BY <1>0, <2>1, RangeOfTail
  <2> QED BY <1>0, <1>1, <2>2, InterfaceAssumption
<1> QED BY <1>3, <1>5, <1>6, <1>7, <1>8, <1>9, EventsFrame

-----------------------------------------------------------------------------
(* Calls that do something *)

\* A call that is answered.
LEMMA AnswerTyped ==
    \A c \in Clicks : \A a \in {"asked", "ok", "error"} :
        \E d \in Clicks : /\ d = [c EXCEPT !.answer = a] /\ d.answer = a
                          /\ d.kind = c.kind /\ d.peer = c.peer /\ d.path = c.path /\ d.req = c.req
<1> TAKE c \in Clicks, a \in {"asked", "ok", "error"}
<1>1. PICK d : d = [c EXCEPT !.answer = a]
      OBVIOUS
<1>2. /\ d \in Clicks /\ d.answer = a
      /\ d.kind = c.kind /\ d.peer = c.peer /\ d.path = c.path /\ d.req = c.req
      BY <1>1 DEF Clicks
<1> QED BY <1>1, <1>2

LEMMA ClickKept ==
    ASSUME Further, NEW c, ClickTrue(c)
    PROVE  ClickTrue(c)'
BY DEF Further, ClickTrue

LEMMA ClickSteps ==
    ASSUME Truth, Next
    PROVE  clicks' \subseteq Clicks /\ \A c \in clicks' : ClickTrue(c)'
<1> DEFINE Good(c) == c \in Clicks /\ ClickTrue(c)'
           Goal == \A c \in clicks' : Good(c)
<1> SUFFICES Goal
    OBVIOUS
<1>0. /\ Further /\ clicks \subseteq Clicks /\ WishTyped /\ WishTyped'
      /\ \A c \in clicks : ClickTrue(c)
      BY WishSteps DEF Truth, Typed
<1>1. \A c \in clicks : Good(c)
      BY <1>0, ClickKept
<1>2. CASE UNCHANGED clicks
      BY <1>1, <1>2
<1>3. ASSUME NEW c \in clicks, NEW a \in {"ok", "error"}, clicks' = Answered(clicks, c, a),
             c.kind = "download" => a = "error"
      PROVE  Goal
  <2>0. c \in Clicks /\ ClickTrue(c) /\ a \in {"asked", "ok", "error"}
        BY <1>0
  <2>1. \E d \in Clicks : /\ d = [c EXCEPT !.answer = a] /\ d.answer = a
                          /\ d.kind = c.kind /\ d.peer = c.peer /\ d.path = c.path /\ d.req = c.req
        BY <2>0, AnswerTyped
  <2> PICK d \in Clicks : /\ d = [c EXCEPT !.answer = a] /\ d.answer = a
                          /\ d.kind = c.kind /\ d.peer = c.peer /\ d.path = c.path
        BY <2>1
  <2>2. ClickTrue(c)
        BY <2>0
  <2>3. ClickTrue(d)
        BY <1>3, <2>1, <2>2 DEF ClickTrue
  <2>4. Good(d)
        BY <1>0, <2>1, <2>3, ClickKept
  <2>5. clicks' \subseteq clicks \cup {d}
        BY <1>3, <2>1 DEF Answered
  <2> QED BY <1>1, <2>4, <2>5
<1>4. ASSUME NEW c \in clicks, ServeConnect(c) \/ ServeDisconnect(c) \/ ServeShare(c) PROVE Goal
  <2>1. c.kind # "download"
        BY <1>4 DEF ServeConnect, ServeDisconnect, ServeShare
  <2>2. \E a \in {"ok", "error"} : clicks' = Answered(clicks, c, a)
        BY <1>4 DEF ServeConnect, ServeDisconnect, ServeShare
  <2> QED BY <1>3, <2>1, <2>2
<1>5. ASSUME NEW c \in clicks, ServeDownload(c) PROVE Goal
  <2>1. CASE clicks' = Answered(clicks, c, "error")
        BY <1>3, <2>1
  <2>2. CASE /\ Len(wish) < MaxReq /\ wish' = Append(wish, NewRequest(c.peer, c.path))
             /\ clicks' = (clicks \ {c}) \cup {[c EXCEPT !.answer = "ok", !.req = Len(wish) + 1]}
    <3>1. c \in Clicks /\ ClickTrue(c) /\ c.kind = "download"
          BY <1>0, <1>5 DEF ServeDownload
    <3>2. c.peer \in Peer /\ c.path \in DOMAIN Tree[c.peer]
          BY <3>1 DEF ClickTrue
    <3>3. PICK n \in Req : n = Len(wish) + 1
          BY <1>0, <2>2, InterfaceAssumption DEF WishTyped, Req
    <3>4. PICK b \in Clicks : /\ b = [c EXCEPT !.answer = "ok"] /\ b.answer = "ok"
                              /\ b.kind = c.kind /\ b.peer = c.peer /\ b.path = c.path
          BY <3>1, AnswerTyped
    <3>5. PICK d : d = [b EXCEPT !.req = n]
          OBVIOUS
    <3>6. /\ d \in Clicks /\ d.answer = "ok" /\ d.req = n
          /\ d.kind = c.kind /\ d.peer = c.peer /\ d.path = c.path
      <4>1. n \in 0..MaxReq
            BY DEF Req
      <4> QED BY <3>4, <3>5, <4>1 DEF Clicks
    <3>7. d = [c EXCEPT !.answer = "ok", !.req = n]
          BY <3>4, <3>5
    <3>8. clicks' \subseteq clicks \cup {d}
          BY <2>2, <3>3, <3>7
    <3>9. PICK o : o = NewRequest(c.peer, c.path) /\ o \in Wishes /\ o.peer = c.peer /\ o.path = c.path
          BY <3>2, NewIs
    <3>10. n \in DOMAIN wish' /\ wish'[n] = o
          BY <1>0, <2>2, <3>3, <3>9 DEF WishTyped
    <3>11. ClickTrue(d)'
          BY <3>1, <3>2, <3>6, <3>9, <3>10 DEF ClickTrue
    <3> QED BY <1>1, <3>6, <3>8, <3>11
  <2> QED BY <1>5, <2>1, <2>2 DEF ServeDownload
<1>6. ASSUME NEW c \in clicks, ConnectAnswered(c) \/ DisconnectAnswered(c) \/ DownloadAnswered(c) \/ ShareAnswered(c)
      PROVE  Goal
      BY <1>1, <1>6 DEF ConnectAnswered, DisconnectAnswered, DownloadAnswered, ShareAnswered
<1>7. ASSUME NEW kind \in ClickKinds, NEW p \in DOMAIN Tree, NEW path \in Path \cup {Root},
             kind \in {"connect", "disconnect", "download"} => p \in Peer,
             kind = "download" => path \in DOMAIN Tree[p],
             kind \in {"add", "remove"} => path \in DOMAIN Tree[Self],
             clicks' = clicks \cup {Click(kind, p, path)}
      PROVE  Goal
  <2>1. PICK d : d = Click(kind, p, path)
        OBVIOUS
  <2>2. /\ d \in Clicks /\ d.kind = kind /\ d.peer = p /\ d.path = path /\ d.answer = "asked"
        BY <2>1, InterfaceAssumption DEF Click, Clicks
  <2>3. ClickTrue(d)'
        BY <1>7, <2>2 DEF ClickTrue
  <2> QED BY <1>1, <1>7, <2>1, <2>2, <2>3
<1>8. ASSUME NEW p \in Peer, ClickConnect(p) \/ ClickDisconnect(p) PROVE Goal
  <2>1. p \in DOMAIN Tree /\ Root \in Path \cup {Root}
        BY InterfaceAssumption
  <2>2. CASE ClickConnect(p)
    <3>1. clicks' = clicks \cup {Click("connect", p, Root)}
          BY <2>2 DEF ClickConnect, UserCalls
    <3> QED BY <1>7, <2>1, <3>1 DEF ClickKinds
  <2>3. CASE ClickDisconnect(p)
    <3>1. clicks' = clicks \cup {Click("disconnect", p, Root)}
          BY <2>3 DEF ClickDisconnect, UserCalls
    <3> QED BY <1>7, <2>1, <3>1 DEF ClickKinds
  <2> QED BY <1>8, <2>2, <2>3
<1>9. ASSUME NEW k \in DOMAIN files, ClickDownload(k) PROVE Goal
  <2>1. k \in Key /\ k[1] # Self /\ clicks' = clicks \cup {Click("download", k[1], k[2])}
        BY <1>9 DEF ClickDownload, UserCalls, Truth, Typed
  <2>2. PICK p \in DOMAIN Tree, path \in Path : p = k[1] /\ path = k[2] /\ path \in DOMAIN Tree[p] /\ p \in Peer
        BY <2>1, KeyIs, KeyMade, InterfaceAssumption
  <2> QED BY <1>7, <2>1, <2>2 DEF ClickKinds
<1>10. ASSUME NEW path \in DOMAIN Tree[Self], ClickShare(path) PROVE Goal
  <2>1. PICK kind \in {"add", "remove"} : clicks' = clicks \cup {Click(kind, Self, path)}
        BY <1>10 DEF ClickShare, UserCalls
  <2>2. Self \in DOMAIN Tree /\ path \in Path
        BY InterfaceAssumption, KeyMade
  <2> QED BY <1>7, <2>1, <2>2 DEF ClickKinds
<1> HIDE DEF Goal
<1> QED BY <1>2, <1>4, <1>5, <1>6, <1>8, <1>9, <1>10, ClicksFrame

-----------------------------------------------------------------------------
(* Listings *)

LEMMA ListingIs ==
    ASSUME NEW p \in DOMAIN Tree \cup {None}, NEW path \in Path \cup {Root}, NEW search \in BOOLEAN
    PROVE  /\ Listing(p, path, search) \in Listings /\ ListingTrue(Listing(p, path, search))
           /\ Listing(p, path, search).answer = "asked"
BY DEF Listing, Listings, ListingTrue

\* An answer that is sent: what each of those asked shows.
LEMMA ServedIs ==
    ASSUME Truth, NEW l \in listings, ServeListing(l)
    PROVE  \E m \in Listings :
               /\ listings' = (listings \ {l}) \cup {m} /\ m.answer \in {"ok", "error"}
               /\ m.peer = l.peer /\ m.path = l.path /\ m.search = l.search
               /\ AskedPeers(l) \subseteq (listed \ closing) \cup {Self} =>
                    m.answer = "ok" /\ m.found = UNION {Shown(p, l) : p \in AskedPeers(l)}
               /\ ~ AskedPeers(l) \subseteq (listed \ closing) \cup {Self} => m.answer = "error" /\ m.found = {}
<1>1. PICK reachable \in BOOLEAN : reachable <=> AskedPeers(l) \subseteq (listed \ closing) \cup {Self}
      OBVIOUS
<1>2. PICK a \in {"ok", "error"} : a = IF reachable THEN "ok" ELSE "error"
      OBVIOUS
<1>3. PICK F : F = IF reachable THEN UNION {Shown(p, l) : p \in AskedPeers(l)} ELSE {}
      OBVIOUS
<1>4. listings' = (listings \ {l}) \cup {[l EXCEPT !.answer = a, !.found = F]}
      BY <1>1, <1>2, <1>3 DEF ServeListing
<1>5. F \in SUBSET Key
  <2>1. CASE reachable
    <3>1. AskedPeers(l) \subseteq DOMAIN Tree
          BY <1>1, <2>1, InterfaceAssumption DEF Truth, Typed
    <3>2. \A p \in DOMAIN Tree : Shown(p, l) \subseteq Key
          BY KeyMade DEF Shown
    <3> QED BY <1>3, <2>1, <3>1, <3>2
  <2> QED BY <1>3, <2>1
<1>6. l \in Listings /\ a \in {"asked", "ok", "error", "item"}
      BY DEF Truth, Typed
<1> PICK x : x = [l EXCEPT !.answer = a]
    OBVIOUS
<1> PICK m : m = [x EXCEPT !.found = F]
    OBVIOUS
<1>7. /\ m \in Listings /\ m.answer = a /\ m.peer = l.peer /\ m.found = F
      /\ m.path = l.path /\ m.search = l.search
  <2>1. x \in Listings /\ x.answer = a /\ x.path = l.path /\ x.search = l.search /\ x.peer = l.peer
        BY <1>6 DEF Listings
  <2> QED BY <1>5, <2>1 DEF Listings
<1>8. listings' = (listings \ {l}) \cup {m}
  <2>1. m = [l EXCEPT !.answer = a, !.found = F]
        OBVIOUS
  <2> QED BY <1>4, <2>1
<1>9. /\ AskedPeers(l) \subseteq (listed \ closing) \cup {Self} =>
           m.answer = "ok" /\ m.found = UNION {Shown(p, l) : p \in AskedPeers(l)}
      /\ ~ AskedPeers(l) \subseteq (listed \ closing) \cup {Self} => m.answer = "error" /\ m.found = {}
      BY <1>1, <1>2, <1>3, <1>7
<1> QED BY <1>7, <1>8, <1>9

\* An answer that arrives: an item for each peer that has found something.
LEMMA ItemsAre ==
    ASSUME Truth, NEW l \in listings, ListingAnswered(l)
    PROVE  \E M \in SUBSET Listings :
               /\ listings' = (listings \ {l}) \cup M
               /\ \A m \in M : /\ m.answer = "item" /\ m.path = l.path /\ m.search = l.search
                               /\ m.peer \in DOMAIN Tree /\ m.found = {k \in l.found : k[1] = m.peer}
               /\ \A k \in l.found : \E m \in M : m.peer = k[1]
<1> DEFINE P == {k[1] : k \in l.found}
           F(p) == {k \in l.found : k[1] = p}
           item(p) == [l EXCEPT !.answer = "item", !.peer = p, !.found = F(p)]
           M == {item(p) : p \in P}
<1>1. l \in Listings /\ l.found \in SUBSET Key /\ "item" \in {"asked", "ok", "error", "item"}
      BY DEF Truth, Typed, Listings
<1>2. \A p \in P : [l EXCEPT !.answer = "item", !.peer = p, !.found = {k \in @ : k[1] = p}] = item(p)
      BY <1>1 DEF Listings
<1>3. listings' = (listings \ {l}) \cup M
      BY <1>2 DEF ListingAnswered
<1>4. ASSUME NEW p \in P
      PROVE  /\ item(p) \in Listings /\ item(p).answer = "item" /\ item(p).path = l.path
             /\ item(p).search = l.search /\ item(p).peer = p /\ p \in DOMAIN Tree /\ item(p).found = F(p)
  <2>1. p \in DOMAIN Tree /\ p \in DOMAIN Tree \cup {None} /\ F(p) \in SUBSET Key
        BY <1>1, KeyIs
  <2>2. PICK x : x = [l EXCEPT !.answer = "item"]
        OBVIOUS
  <2>3. PICK y : y = [x EXCEPT !.peer = p]
        OBVIOUS
  <2>4. PICK m : m = [y EXCEPT !.found = F(p)]
        OBVIOUS
  <2>5. x \in Listings /\ x.answer = "item" /\ x.path = l.path /\ x.search = l.search
        BY <1>1, <2>2 DEF Listings
  <2>6. y \in Listings /\ y.answer = "item" /\ y.peer = p /\ y.path = l.path /\ y.search = l.search
        BY <2>1, <2>3, <2>5 DEF Listings
  <2>7. /\ m \in Listings /\ m.answer = "item" /\ m.peer = p /\ m.found = F(p)
        /\ m.path = l.path /\ m.search = l.search
        BY <2>1, <2>4, <2>6 DEF Listings
  <2>8. m = item(p)
        BY <2>2, <2>3, <2>4
  <2> QED BY <2>1, <2>7, <2>8
<1>5. \A k \in l.found : k[1] \in P
      OBVIOUS
<1> HIDE DEF item, P
<1>6. /\ M \subseteq Listings
      /\ \A m \in M : /\ m.answer = "item" /\ m.path = l.path /\ m.search = l.search
                      /\ m.peer \in DOMAIN Tree /\ m.found = F(m.peer)
      BY <1>4
<1>7. \A k \in l.found : \E m \in M : m.peer = k[1]
      BY <1>4, <1>5
<1> HIDE DEF M
<1> QED BY <1>3, <1>6, <1>7

LEMMA ListingSteps ==
    ASSUME Truth, Next
    PROVE  listings' \subseteq Listings /\ \A l \in listings' : ListingTrue(l)
<1> DEFINE Goal == \A l \in listings' : l \in Listings /\ ListingTrue(l)
<1> SUFFICES Goal
    OBVIOUS
<1>1. \A l \in listings : l \in Listings /\ ListingTrue(l)
      BY DEF Truth, Typed
<1>2. CASE UNCHANGED listings
      BY <1>1, <1>2
<1>3. ASSUME NEW l \in listings, ServeListing(l) PROVE Goal
  <2>1. PICK m \in Listings : listings' = (listings \ {l}) \cup {m} /\ m.answer \in {"ok", "error"}
        BY <1>3, ServedIs
  <2> QED BY <1>1, <2>1 DEF ListingTrue
<1>4. ASSUME NEW l \in listings, ListingAnswered(l) PROVE Goal
  <2>1. PICK M \in SUBSET Listings :
            /\ listings' = (listings \ {l}) \cup M
            /\ \A m \in M : m.peer \in DOMAIN Tree /\ m.found = {k \in l.found : k[1] = m.peer}
        BY <1>4, ItemsAre
  <2> QED BY <1>1, <2>1 DEF ListingTrue
<1>5. ASSUME NEW l \in listings, ListingItem(l) PROVE Goal
      BY <1>1, <1>5 DEF ListingItem
<1>6. ASSUME NEW p \in DOMAIN Tree \cup {None}, NEW path \in Path \cup {Root}, NEW search \in BOOLEAN,
             listings' = listings \cup {Listing(p, path, search)}
      PROVE  Goal
      BY <1>1, <1>6, ListingIs
<1>7. ASSUME NEW c \in clicks, ShareAnswered(c) PROVE Goal
  <2>1. Self \in DOMAIN Tree \cup {None} /\ Root \in Path \cup {Root}
        BY InterfaceAssumption
  <2>2. listings' = listings \cup {Listing(Self, Root, FALSE)}
        BY <1>7 DEF ShareAnswered
  <2> QED BY <1>6, <2>1, <2>2
<1>8. ASSUME NEW k \in DOMAIN files, Expand(k) PROVE Goal
  <2>1. k \in Key /\ listings' = listings \cup {Listing(k[1], k[2], FALSE)}
        BY <1>8 DEF Expand, UserAsks, Truth, Typed
  <2>2. k[1] \in DOMAIN Tree \cup {None} /\ k[2] \in Path \cup {Root}
        BY <2>1, KeyIs, KeyMade
  <2> QED BY <1>6, <2>1, <2>2
<1>9. CASE Search
  <2>1. listings' = listings \cup {Listing(None, Root, TRUE)}
        BY <1>9 DEF Search, UserAsks
  <2> QED BY <1>6, <2>1
<1>10. CASE ConnectedDelivered
  <2>1. PICK e \in Events : e = Head(events)
        BY <1>10, RangeOfTail DEF ConnectedDelivered, Delivered, Truth, Typed
  <2>2. e.peer \in DOMAIN Tree \cup {None} /\ listings' = listings \cup {Listing(e.peer, Root, FALSE)}
        BY <1>10, <2>1, InterfaceAssumption DEF ConnectedDelivered, Events
  <2> QED BY <1>6, <2>2
<1> HIDE DEF Goal
<1> QED BY <1>2, <1>3, <1>4, <1>5, <1>7, <1>8, <1>9, <1>10, ListingsFrame

-----------------------------------------------------------------------------
(* Calls for requests *)

LEMMA RowKept ==
    ASSUME WishTyped, RequestsTrue, Further, WishTyped', RequestsTrue', NEW s \in Snapshots, SnapshotTrue(s)
    PROVE  SnapshotTrue(s)'
<1>1. ASSUME NEW row \in s.rows PROVE RowTrue(s, row)'
  <2>1. RowTrue(s, row) /\ row.req \in DOMAIN wish
        BY DEF SnapshotTrue, RowTrue
  <2>2. row.req \in DOMAIN wish' /\ (Received(row.req) => Received(row.req)')
        BY <2>1, ReadGrows
  <2>3. CASE s.req = 0
        BY <2>1, <2>2, <2>3 DEF RowTrue, Further
  <2>4. CASE s.req # 0
    <3>1. s.req \in DOMAIN wish /\ row.req = s.req /\ row.path \in DOMAIN wish[s.req].got
          BY <2>1, <2>4 DEF RowTrue
    <3>2. /\ row.path \in DOMAIN wish'[s.req].got /\ wish'[s.req].peer = wish[s.req].peer
          /\ wish[s.req].got[row.path] = Tree[wish[s.req].peer][row.path] =>
               wish'[s.req].got[row.path] = Tree[wish[s.req].peer][row.path]
          BY <3>1, ReadGrows DEF Further
    <3> QED BY <2>1, <2>2, <2>4, <3>1, <3>2 DEF RowTrue
  <2> QED BY <2>3, <2>4
<1>2. s.req # 0 => s.req \in DOMAIN wish'
      BY DEF SnapshotTrue, Further
<1> QED BY <1>1, <1>2 DEF SnapshotTrue

\* The rows of an answer are true when it is made.
LEMMA RowsTrue ==
    ASSUME WishTyped, RequestsTrue, NEW s \in Snapshots, SnapshotTrue(s)
    PROVE  Rows(s) \subseteq Lines /\ \A row \in Rows(s) : RowTrue(s, row)
<1>1. CASE s.req = 0
  <2>1. ASSUME NEW r \in DOMAIN wish PROVE wish[r].path \in Path /\ r \in Req
        BY ReadIs DEF Wishes
  <2>2. \A r \in DOMAIN wish : \A d \in BOOLEAN : (d => Received(r)) =>
            Row(r, wish[r].path, d) \in Lines /\ RowTrue(s, Row(r, wish[r].path, d))
        BY <1>1, <2>1 DEF Row, Lines, RowTrue
  <2>3. \A r \in DOMAIN wish : (Progress(r) = Total(r)) \in BOOLEAN /\ (Progress(r) = Total(r) => Received(r))
        BY ProgressIsAll
  <2> QED BY <1>1, <2>2, <2>3 DEF Rows
<1>2. CASE s.req # 0
  <2>1. PICK r \in DOMAIN wish : r = s.req
        BY <1>2 DEF SnapshotTrue
  <2>2. wish[r] \in Wishes /\ r \in Req
        BY ReadIs
  <2>3. DOMAIN wish[r].got \subseteq Path
        BY <2>2 DEF Wishes
  <2>4. \A k \in wish[r].done : wish[r].got[k] = Tree[wish[r].peer][k]
        BY DEF RequestsTrue
  <2>5. \A k \in DOMAIN wish[r].got : \A d \in BOOLEAN : (d => k \in wish[r].done) =>
            Row(r, k, d) \in Lines /\ RowTrue(s, Row(r, k, d))
        BY <1>2, <2>1, <2>2, <2>3, <2>4 DEF Row, Lines, RowTrue
  <2>6. \A k \in DOMAIN wish[r].got : (k \in wish[r].done) \in BOOLEAN
        OBVIOUS
  <2>7. Rows(s) = {Row(r, k, k \in wish[r].done) : k \in DOMAIN wish[r].got}
        BY <1>2, <2>1 DEF Rows
  <2> QED BY <2>5, <2>6, <2>7
<1> QED BY <1>1, <1>2

LEMMA SnapshotSteps ==
    ASSUME Truth, Next
    PROVE  snapshots' \subseteq Snapshots /\ \A s \in snapshots' : SnapshotTrue(s)'
<1> DEFINE Good(s) == s \in Snapshots /\ SnapshotTrue(s)'
           Goal == \A s \in snapshots' : Good(s)
<1> SUFFICES Goal
    OBVIOUS
<1>0. /\ Further /\ WishTyped /\ WishTyped' /\ RequestsTrue /\ RequestsTrue'
      /\ \A s \in snapshots : s \in Snapshots /\ SnapshotTrue(s)
      BY WishSteps DEF Truth, Typed
<1>1. \A s \in snapshots : Good(s)
      BY <1>0, RowKept
<1>2. CASE UNCHANGED snapshots
      BY <1>1, <1>2
<1>3. ASSUME NEW s \in snapshots, ServeSnapshot(s) PROVE Goal
  <2>1. PICK R : R = Rows(s)
        OBVIOUS
  <2>2. s \in Snapshots /\ SnapshotTrue(s)
        BY <1>0
  <2>3. R \subseteq Lines /\ \A row \in R : RowTrue(s, row)
        BY <1>0, <2>1, <2>2, RowsTrue
  <2>4. PICK t : t = [s EXCEPT !.answer = "ok"]
        OBVIOUS
  <2>5. PICK u : u = [t EXCEPT !.rows = R]
        OBVIOUS
  <2>6. t \in Snapshots /\ t.req = s.req
        BY <2>2, <2>4 DEF Snapshots
  <2>7. u \in Snapshots /\ u.req = s.req /\ u.rows = R
        BY <2>3, <2>5, <2>6 DEF Snapshots
  <2>8. SnapshotTrue(u)
        BY <2>2, <2>3, <2>7 DEF SnapshotTrue, RowTrue
  <2>9. Good(u)
        BY <1>0, <2>7, <2>8, RowKept
  <2>10. u = [s EXCEPT !.answer = "ok", !.rows = R]
         BY <2>4, <2>5
  <2>11. snapshots' = (snapshots \ {s}) \cup {u}
         BY <1>3, <2>1, <2>10 DEF ServeSnapshot
  <2> QED BY <1>1, <2>9, <2>11
<1>4. ASSUME NEW s \in snapshots, RequestsAnswered(s) PROVE Goal
  <2>1. /\ snapshots' = (snapshots \ {s}) \cup {Snapshot(row.req) : row \in s.rows}
        /\ s \in Snapshots /\ SnapshotTrue(s)
        BY <1>0, <1>4 DEF RequestsAnswered
  <2>2. \A row \in s.rows : row.req \in Req /\ row.req \in DOMAIN wish'
        BY <1>0, <2>1 DEF SnapshotTrue, RowTrue, Further, Snapshots, Lines
  <2>3. \A r \in Req : r \in DOMAIN wish' => Good(Snapshot(r))
        BY InterfaceAssumption DEF Snapshot, Snapshots, SnapshotTrue, Req
  <2> QED BY <1>1, <2>1, <2>2, <2>3
<1>5. ASSUME NEW s \in snapshots, RequestedFilesAnswered(s) PROVE Goal
      BY <1>1, <1>5 DEF RequestedFilesAnswered
<1> HIDE DEF Goal
<1> QED BY <1>2, <1>3, <1>4, <1>5, SnapshotsFrame

-----------------------------------------------------------------------------
(* Entries *)

LEMMA StatusIs ==
    \A kind \in Kinds : \A r \in 0..MaxReq :
        Status(kind, r) \in Statuses /\ Status(kind, r).kind = kind /\ Status(kind, r).req = r
BY DEF Status, Statuses

LEMMA EntryIs ==
    \A size \in Int : \A st \in Statuses : \A r \in 0..MaxReq :
        /\ Entry(size, st, r) \in Entries /\ Entry(size, st, r).size = size
        /\ Entry(size, st, r).status = st /\ Entry(size, st, r).req = r
BY DEF Entry, Entries

LEMMA CoveringIs ==
    ASSUME WishTyped, RequestsTrue, NEW k \in Key, NEW r \in Covering(k)
    PROVE  r \in DOMAIN wish /\ r \in Req /\ r \in 0..MaxReq /\ wish[r].peer = k[1] /\ IsPrefix(wish[r].path, k[2])
<1>1. r \in DOMAIN wish /\ wish[r].peer = k[1] /\ IsPrefix(wish[r].path, k[2])
      BY DEF Covering
<1> QED BY <1>1, ReadIs DEF Req

\* The files of what a request is for that is within its path are among its files.
LEMMA FilesWanted ==
    ASSUME WishTyped, RequestsTrue, NEW k \in Key, NEW r \in DOMAIN wish, wish[r].peer = k[1],
           Within(wish[r].path, k[2])
    PROVE  FilesOf(k[1], k[2]) \subseteq DOMAIN wish[r].got /\ r \in Covering(k)
<1>1. PICK p, path :
          /\ p \in DOMAIN Tree /\ p = wish[r].peer /\ path = wish[r].path /\ path \in DOMAIN Tree[p]
          /\ DOMAIN wish[r].got = FilesOf(p, path)
  <2>1. /\ wish[r].peer \in Peer /\ wish[r].path \in DOMAIN Tree[wish[r].peer]
        /\ DOMAIN wish[r].got = FilesOf(wish[r].peer, wish[r].path)
        BY ReadIs
  <2> QED BY <2>1, InterfaceAssumption
<1>2. k[2] \in DOMAIN Tree[p]
      BY <1>1, KeyIs
<1>3. FilesOf(p, k[2]) \subseteq FilesOf(p, path)
      BY <1>1, <1>2, FilesWithin
<1>4. IsPrefix(path, k[2])
  <2>1. path \in Path /\ k[2] \in Path
        BY <1>1, <1>2, KeyMade
  <2> QED BY <1>1, <2>1, WithinBegins
<1> QED BY <1>1, <1>3, <1>4 DEF Covering

\* An entry stays true while requests go on.
LEMMA EntryKept ==
    ASSUME WishTyped, RequestsTrue, Further, WishTyped', RequestsTrue',
           NEW k \in Key, NEW x, NEW U, NEW V, U \subseteq V, EntryTrue(k, x, U)
    PROVE  EntryTrue(k, x, V)'
<1>1. SizeTrue(k, x)' /\ (x.req # 0 => RootOf(k, x.req)' /\ (x.size = Unknown => x.req \in V))
      BY DEF EntryTrue, SizeTrue, SizeAt, RootOf, Further
<1>2. PICK st : st = x.status
      OBVIOUS
<1>3. StatusTrue(k, st, U)
      BY <1>2 DEF EntryTrue
<1>4. ASSUME st.kind # "Nothing" PROVE st.req \in Covering(k)' /\ st.req \in Covering(k)
      BY <1>3, <1>4 DEF StatusTrue, Covering, Further
<1>5. ASSUME st.kind = "Downloaded", st.req \notin V, Within(wish'[st.req].path, k[2]), NEW f \in FilesOf(k[1], k[2])
      PROVE  wish'[st.req].got[f] = Tree[k[1]][f]
  <2>1. PICK r \in DOMAIN wish : r = st.req /\ wish[r].peer = k[1]
        BY <1>4, <1>5 DEF Covering
  <2>2. Within(wish[r].path, k[2])
        BY <1>5, <2>1 DEF Further
  <2>3. f \in DOMAIN wish[r].got
        BY <2>1, <2>2, FilesWanted
  <2>4. wish[r].got[f] = Tree[wish[r].peer][f]
        BY <1>3, <1>5, <2>1, <2>2 DEF StatusTrue
  <2> QED BY <2>1, <2>3, <2>4, ReadGrows
<1>6. StatusTrue(k, st, V)'
      BY <1>4, <1>5 DEF StatusTrue
<1>7. StatusTrue(k, x.status, V)'
      BY <1>2, <1>6
<1> QED BY <1>1, <1>7 DEF EntryTrue

LEMMA FilesBecome ==
    ASSUME WishTyped, RequestsTrue, Further, WishTyped', RequestsTrue', NEW fs, NEW U, NEW I,
           FilesFit(fs, U, I), files' = fs, U \subseteq unsized', I \subseteq RequestIds' \cup {0}
    PROVE  /\ DOMAIN files' \subseteq Key /\ files' \in [DOMAIN files' -> Entries] /\ FilesTrue'
           /\ \A k \in DOMAIN files' : files'[k].req \in RequestIds' \cup {0}
<1>1. DOMAIN fs \subseteq Key /\ fs \in [DOMAIN fs -> Entries]
      BY DEF FilesFit
<1>2. PICK V : V = unsized'
      OBVIOUS
<1>3. ASSUME NEW k \in DOMAIN fs, NEW x \in {fs[k]} PROVE EntryTrue(k, x, V)' /\ x.req \in I
  <2>1. k \in Key /\ EntryTrue(k, x, U) /\ x.req \in I /\ U \subseteq V
        BY <1>1, <1>2 DEF FilesFit, Fits
  <2> QED BY <2>1, EntryKept
<1>4. FilesTrue'
      BY <1>2, <1>3 DEF FilesTrue
<1>5. \A k \in DOMAIN files' : files'[k].req \in RequestIds' \cup {0}
      BY <1>3
<1> QED BY <1>1, <1>4, <1>5

LEMMA FitNow ==
    ASSUME Truth
    PROVE  FilesFit(files, unsized, RequestIds \cup {0})
BY DEF Truth, Typed, FilesTrue, FilesFit, Fits, ListsShown

\* Entries that are true with less known are true with more.
LEMMA FitMore ==
    ASSUME NEW fs, NEW U, NEW I, FilesFit(fs, U, I), NEW V, U \subseteq V, NEW J, I \subseteq J
    PROVE  FilesFit(fs, V, J)
BY DEF FilesFit, Fits, EntryTrue, StatusTrue

\* What a status says that is learnt of a request.
LEMMA BegunTrue ==
    ASSUME WishTyped, RequestsTrue, NEW k \in Key, NEW r \in Covering(k), NEW U,
           NEW kind \in {"Requested", "Downloading"}
    PROVE  Status(kind, r) \in Statuses /\ StatusTrue(k, Status(kind, r), U)
<1>1. r \in 0..MaxReq /\ kind \in Kinds
      BY CoveringIs DEF Kinds
<1>2. Status(kind, r) \in Statuses /\ Status(kind, r).kind = kind /\ Status(kind, r).req = r
      BY <1>1, StatusIs
<1> QED BY <1>2 DEF StatusTrue

LEMMA ReceivedTrue ==
    ASSUME WishTyped, RequestsTrue, NEW k \in Key, NEW r \in Covering(k), Received(r), NEW U
    PROVE  Status("Downloaded", r) \in Statuses /\ StatusTrue(k, Status("Downloaded", r), U)
<1>1. r \in 0..MaxReq /\ "Downloaded" \in Kinds /\ r \in DOMAIN wish /\ wish[r].peer = k[1]
      BY CoveringIs DEF Kinds
<1>2. PICK st \in Statuses : st = Status("Downloaded", r) /\ st.kind = "Downloaded" /\ st.req = r
      BY <1>1, StatusIs
<1>3. Within(wish[r].path, k[2]) => \A f \in FilesOf(k[1], k[2]) : wish[r].got[f] = Tree[k[1]][f]
      BY <1>1, FilesWanted DEF Received
<1>4. StatusTrue(k, st, U)
      BY <1>2, <1>3 DEF StatusTrue
<1> QED BY <1>2, <1>4

\* A file of a request that is there: what else were within it has no size.
LEMMA FileTrue ==
    ASSUME WishTyped, RequestsTrue, NEW k \in Key, NEW r \in DOMAIN wish, wish[r].peer = k[1],
           k[2] \in DOMAIN wish[r].got
    PROVE  /\ r \in Covering(k) /\ k[1] \in Peer
           /\ wish[r].got[k[2]] = Tree[k[1]][k[2]] => \A U : StatusTrue(k, Status("Downloaded", r), U)
<1>1. PICK p, path, f :
          /\ p \in Peer /\ path \in DOMAIN Tree[p] /\ f \in DOMAIN Tree[p] /\ p = wish[r].peer /\ path = wish[r].path /\ f = k[2] /\ f \in FilesOf(p, path)
          /\ DOMAIN wish[r].got = FilesOf(p, path) /\ wish[r].got \in [FilesOf(p, path) -> Nat]
      BY ReadIs, KeyIs
<1>2. p \in DOMAIN Tree /\ p = k[1]
      BY <1>1, InterfaceAssumption
<1>3. Within(path, f) /\ FilesOf(p, f) \subseteq FilesOf(p, path) /\ r \in Covering(k)
  <2>1. Within(path, f)
        BY <1>1 DEF FilesOf
  <2> QED BY <1>1, <1>2, <2>1, FilesWanted
<1>4. ASSUME wish[r].got[f] = Tree[p][f], NEW g \in FilesOf(p, f) PROVE wish[r].got[g] = Tree[p][g]
  <2>1. CASE g = f
        BY <1>4, <2>1
  <2>2. CASE g # f
    <3>1. f \in FilesOf(p, f)
          BY <1>1 DEF FilesOf, Within
    <3>2. IsFiniteSet(FilesOf(p, f)) /\ \A h \in FilesOf(p, f) : Tree[p][h] \in Nat
          BY <1>1, <1>2, FilesAre
    <3>3. Values(Tree[p], FilesOf(p, f), Nat) /\ Tree[p][f] = SumOf(Tree[p], FilesOf(p, f))
          BY <1>1, <3>2, SizeIs DEF Values
    <3>4. Tree[p][g] = 0
      <4>1. Values(Tree[p], FilesOf(p, f), Int)
            BY <3>2 DEF Values
      <4>2. SumOf(Tree[p], FilesOf(p, f)) = Tree[p][f] + SumOf(Tree[p], FilesOf(p, f) \ {f})
            BY <3>1, <3>2, <4>1, SumWithout
      <4> DEFINE S == FilesOf(p, f) \ {f}
      <4>3. S \in SUBSET FilesOf(p, f) /\ g \in S /\ IsFiniteSet(S) /\ Values(Tree[p], S, Nat)
            /\ Values(Tree[p], S, Int) /\ IsFiniteSet(S \ {g}) /\ Values(Tree[p], S \ {g}, Nat)
            BY <1>4, <2>2, <3>2, FS_Subset DEF Values
      <4> HIDE DEF S
      <4>4. SumOf(Tree[p], S) = Tree[p][g] + SumOf(Tree[p], S \ {g}) /\ SumOf(Tree[p], S \ {g}) \in Nat
            BY <4>3, SumWithout, SumType
      <4>5. SumOf(Tree[p], S) = 0
        <5>1. SumOf(Tree[p], S) \in Nat /\ Tree[p][f] \in Nat
              BY <3>1, <3>2, <4>3, SumType
        <5> QED BY <3>3, <4>2, <5>1 DEF S
      <4> QED BY <3>2, <1>4, <4>4, <4>5
    <3>5. wish[r].got[g] <= Tree[p][g] /\ wish[r].got[g] \in Nat
          BY <1>1, <1>3, <1>4 DEF RequestsTrue
    <3> QED BY <3>4, <3>5
  <2> QED BY <2>1, <2>2
<1>5. ASSUME wish[r].got[f] = Tree[p][f], NEW U PROVE StatusTrue(k, Status("Downloaded", r), U)
  <2>1. r \in 0..MaxReq /\ "Downloaded" \in Kinds
        BY <1>3, CoveringIs DEF Kinds
  <2>2. PICK st \in Statuses : st = Status("Downloaded", r) /\ st.kind = "Downloaded" /\ st.req = r
        BY <2>1, StatusIs
  <2>3. StatusTrue(k, st, U)
        BY <1>1, <1>2, <1>3, <1>4, <1>5, <2>2 DEF StatusTrue
  <2> QED BY <2>2, <2>3
<1> QED BY <1>1, <1>2, <1>3, <1>5

-----------------------------------------------------------------------------
(* What is done to entries *)

LEMMA FitAt ==
    ASSUME NEW fs, NEW U, NEW I, FilesFit(fs, U, I)
    PROVE  DOMAIN fs \subseteq Key /\ \A k \in DOMAIN fs : Fits(k, fs[k], U, I) /\ fs[k] \in Entries
BY DEF FilesFit, Fits

LEMMA SizeKnown == \A k \in Key : SizeAt(k) \in Nat /\ SizeAt(k) # Unknown
BY KeyIs, InterfaceAssumption DEF SizeAt, Unknown

LEMMA StatusSet ==
    ASSUME NEW k, NEW x, NEW U, NEW I, Fits(k, x, U, I), NEW st \in Statuses, StatusTrue(k, st, U),
           NEW y, y = [x EXCEPT !.status = st]
    PROVE  Fits(k, y, U, I) /\ y.size = x.size /\ y.req = x.req /\ y.status = st
<1>1. y \in Entries /\ y.size = x.size /\ y.req = x.req /\ y.status = st
      BY DEF Fits, Entries
<1> QED BY <1>1 DEF Fits, EntryTrue, SizeTrue

LEMMA SizeSet ==
    ASSUME NEW k \in Key, NEW x, NEW U, NEW I, Fits(k, x, U, I), NEW y, y = [x EXCEPT !.size = SizeAt(k)]
    PROVE  Fits(k, y, U, I) /\ y.size = SizeAt(k) /\ y.req = x.req /\ y.status = x.status
<1>1. y \in Entries /\ y.size = SizeAt(k) /\ y.req = x.req /\ y.status = x.status /\ SizeAt(k) # Unknown
      BY SizeKnown DEF Fits, Entries
<1> QED BY <1>1 DEF Fits, EntryTrue, SizeTrue

LEMMA RequestSet ==
    ASSUME WishTyped, NEW k, NEW x, NEW U, NEW I, Fits(k, x, U, I), NEW r \in I, r \in 0..MaxReq, RootOf(k, r),
           x.size = Unknown => r \in U, NEW y, y = [x EXCEPT !.req = r]
    PROVE  Fits(k, y, U, I) /\ y.size = x.size /\ y.req = r /\ y.status = x.status
<1>1. y \in Entries /\ y.size = x.size /\ y.req = r /\ y.status = x.status
      BY DEF Fits, Entries
<1> QED BY <1>1 DEF Fits, EntryTrue, SizeTrue

\* What an entry is made of, when what it says is so.
PartsFit(k, size, st, r, U, I) ==
    /\ k \in Key /\ st \in Statuses /\ StatusTrue(k, st, U) /\ size \in {Unknown, SizeAt(k)}
    /\ r \in I /\ r \in 0..MaxReq
    /\ r # 0 => RootOf(k, r) /\ (size = Unknown => r \in U)

LEMMA PartsMake ==
    ASSUME NEW k, NEW size, NEW st, NEW r, NEW U, NEW I, PartsFit(k, size, st, r, U, I)
    PROVE  Fits(k, Entry(size, st, r), U, I)
<1>1. size \in Int
      BY SizeKnown DEF PartsFit, Unknown
<1>2. /\ Entry(size, st, r) \in Entries /\ Entry(size, st, r).size = size
      /\ Entry(size, st, r).status = st /\ Entry(size, st, r).req = r
      BY <1>1, EntryIs DEF PartsFit
<1> QED BY <1>2 DEF Fits, EntryTrue, SizeTrue, PartsFit

\* An entry made for a request, and one made without.
LEMMA EntryMade ==
    ASSUME NEW k \in Key, NEW U, NEW I, NEW st \in Statuses, StatusTrue(k, st, U),
           NEW size \in {Unknown, SizeAt(k)}, NEW r \in I, r \in 0..MaxReq,
           r # 0 => RootOf(k, r) /\ (size = Unknown => r \in U)
    PROVE  Fits(k, Entry(size, st, r), U, I) /\ Entry(size, st, r).size = size /\ Entry(size, st, r).status = st
<1>1. size \in Int
      BY SizeKnown DEF Unknown
<1>2. /\ Entry(size, st, r) \in Entries /\ Entry(size, st, r).size = size
      /\ Entry(size, st, r).status = st /\ Entry(size, st, r).req = r
      BY <1>1, EntryIs
<1> QED BY <1>2 DEF Fits, EntryTrue, SizeTrue

LEMMA OverIs ==
    ASSUME NEW new, NEW old
    PROVE  /\ DOMAIN Over(new, old) = DOMAIN new \cup DOMAIN old
           /\ \A k \in DOMAIN new : Over(new, old)[k] = new[k]
           /\ \A k \in DOMAIN old \ DOMAIN new : Over(new, old)[k] = old[k]
BY DEF Over

LEMMA OverFits ==
    ASSUME NEW U, NEW I, NEW new, NEW old, DOMAIN new \subseteq Key, DOMAIN old \subseteq Key,
           \A k \in DOMAIN new : Fits(k, new[k], U, I), \A k \in DOMAIN old : Fits(k, old[k], U, I)
    PROVE  FilesFit(Over(new, old), U, I)
<1>1. PICK g : g = Over(new, old)
      OBVIOUS
<1>2. /\ DOMAIN g = DOMAIN new \cup DOMAIN old /\ g = [k \in DOMAIN g |-> g[k]]
      /\ \A k \in DOMAIN new : g[k] = new[k]
      /\ \A k \in DOMAIN old \ DOMAIN new : g[k] = old[k]
      BY <1>1 DEF Over
<1>3. \A k \in DOMAIN g : Fits(k, g[k], U, I)
      BY <1>2
<1>4. g \in [DOMAIN g -> Entries]
      BY <1>2, <1>3 DEF Fits
<1>5. FilesFit(g, U, I)
      BY <1>2, <1>3, <1>4 DEF FilesFit
<1> QED BY <1>1, <1>5

LEMMA WithoutFits ==
    ASSUME NEW fs, NEW U, NEW I, FilesFit(fs, U, I), NEW p
    PROVE  /\ FilesFit(WithoutPeer(fs, p), U, I)
           /\ DOMAIN WithoutPeer(fs, p) = {k \in DOMAIN fs : k[1] # p}
<1>1. PICK g : g = WithoutPeer(fs, p)
      OBVIOUS
<1>2. DOMAIN g = {k \in DOMAIN fs : k[1] # p} /\ g = [k \in DOMAIN g |-> fs[k]]
      BY <1>1 DEF WithoutPeer, Restrict
<1>3. FilesFit(g, U, I)
      BY <1>2 DEF FilesFit
<1> QED BY <1>1, <1>2, <1>3

\* A listing's item.
LEMMA FoundFits ==
    ASSUME NEW fs, NEW U, NEW I, FilesFit(fs, U, I), 0 \in I, NEW F \in SUBSET Key, NEW gs,
           \/ gs = Over(fs, [k \in F |-> Insert(k)])
           \/ gs = Over([k \in F |-> Found(fs, k)], fs)
    PROVE  /\ FilesFit(gs, U, I) /\ DOMAIN gs = F \cup DOMAIN fs
           /\ \A k \in DOMAIN fs : gs[k].status = fs[k].status
<1>1. ASSUME NEW k \in Key PROVE Fits(k, Insert(k), U, I)
  <2>1. NoStatus \in Statuses /\ StatusTrue(k, NoStatus, U)
        BY InterfaceAssumption DEF NoStatus, Statuses, Kinds, StatusTrue
  <2>2. 0 \in 0..MaxReq
        BY InterfaceAssumption
  <2> QED BY <2>1, <2>2, EntryMade DEF Insert
<1>0. DOMAIN fs \subseteq Key /\ \A k \in DOMAIN fs : Fits(k, fs[k], U, I)
      BY FitAt
<1>2. CASE gs = Over(fs, [k \in F |-> Insert(k)])
  <2>1. PICK h : h = [k \in F |-> Insert(k)]
        OBVIOUS
  <2>2. DOMAIN h = F /\ \A k \in DOMAIN h : Fits(k, h[k], U, I)
        BY <1>1, <2>1
  <2>3. DOMAIN h \subseteq Key /\ \A k \in DOMAIN h : Fits(k, h[k], U, I)
        BY <2>2
  <2>4. FilesFit(Over(fs, h), U, I)
        BY <1>0, <2>3, OverFits
  <2>6. DOMAIN Over(fs, h) = DOMAIN fs \cup DOMAIN h /\ \A k \in DOMAIN fs : Over(fs, h)[k] = fs[k]
        BY OverIs
  <2>5. DOMAIN fs \cup DOMAIN h = F \cup DOMAIN fs
        BY <2>2
  <2> QED BY <1>2, <2>1, <2>4, <2>5, <2>6
<1>3. CASE gs = Over([k \in F |-> Found(fs, k)], fs)
  <2>1. PICK h : h = [k \in F |-> Found(fs, k)]
        OBVIOUS
  <2>2. ASSUME NEW k \in F
        PROVE  Fits(k, Found(fs, k), U, I) /\ (k \in DOMAIN fs => Found(fs, k).status = fs[k].status)
    <3>1. CASE k \in DOMAIN fs
      <4>1. Fits(k, fs[k], U, I)
            BY <3>1, FitAt
      <4>2. PICK y : y = [fs[k] EXCEPT !.size = SizeAt(k)]
            OBVIOUS
      <4>3. Fits(k, y, U, I) /\ y.status = fs[k].status
            BY <4>1, <4>2, SizeSet
      <4> QED BY <3>1, <4>2, <4>3 DEF Found
    <3>2. CASE k \notin DOMAIN fs
          BY <1>1, <3>2 DEF Found
    <3> QED BY <3>1, <3>2
  <2>3. DOMAIN h = F /\ DOMAIN h \subseteq Key /\ \A k \in DOMAIN h : Fits(k, h[k], U, I)
        BY <2>1, <2>2
  <2>4. FilesFit(Over(h, fs), U, I)
        BY <1>0, <2>3, OverFits
  <2>5. /\ DOMAIN Over(h, fs) = DOMAIN h \cup DOMAIN fs
        /\ \A k \in DOMAIN h : Over(h, fs)[k] = h[k]
        /\ \A k \in DOMAIN fs \ DOMAIN h : Over(h, fs)[k] = fs[k]
        BY OverIs
  <2>6. \A k \in DOMAIN fs : Over(h, fs)[k].status = fs[k].status
        BY <2>1, <2>2, <2>3, <2>5
  <2> QED BY <1>3, <2>1, <2>3, <2>4, <2>5, <2>6
<1> QED BY <1>2, <1>3

\* The entry a request is the root of, and all it marks, whose status is set.
LEMMA RootIs ==
    ASSUME WishTyped, RequestsTrue, NEW r \in DOMAIN wish
    PROVE  /\ <<wish[r].peer, wish[r].path>> \in Key /\ RootOf(<<wish[r].peer, wish[r].path>>, r)
           /\ r \in Req /\ r \in 0..MaxReq /\ r # 0
           /\ SizeAt(<<wish[r].peer, wish[r].path>>) = Total(r)
           /\ IsPrefix(wish[r].path, wish[r].path)
<1>1. PICK p, path : /\ p \in Peer /\ p = wish[r].peer /\ path = wish[r].path /\ path \in DOMAIN Tree[p]
                     /\ Total(r) = Tree[p][path] /\ r \in Req
      BY ReadIs
<1>2. p \in DOMAIN Tree /\ <<p, path>> \in Key /\ path \in Path
      BY <1>1, InterfaceAssumption, KeyMade
<1>3. IsPrefix(path, path)
      BY <1>2, WithinBegins DEF Within
<1>4. r \in 0..MaxReq /\ r # 0
      BY <1>1, InterfaceAssumption DEF Req
<1>5. SizeAt(<<p, path>>) = Tree[p][path]
      BY DEF SizeAt
<1> QED BY <1>1, <1>2, <1>3, <1>4, <1>5 DEF RootOf

LEMMA SetRequestFits ==
    ASSUME WishTyped, RequestsTrue, NEW fs, NEW U, NEW I, FilesFit(fs, U, I), NEW r \in DOMAIN wish, r \in I,
           NEW root, root = <<wish[r].peer, wish[r].path>>, root \in DOMAIN fs /\ fs[root].size = Unknown => r \in U,
           NEW new, root \notin DOMAIN fs => Fits(root, new, U, I), NEW gs, gs = SetRequest(fs, root, r, new)
    PROVE  /\ FilesFit(gs, U, I) /\ DOMAIN gs = DOMAIN fs \cup {root}
           /\ \A k \in DOMAIN fs : gs[k].size = fs[k].size /\ gs[k].status = fs[k].status
           /\ root \notin DOMAIN fs => gs[root] = new
<1>1. root \in Key /\ RootOf(root, r) /\ r \in 0..MaxReq
      BY RootIs
<1>2. PICK v : v = IF root \in DOMAIN fs THEN [fs[root] EXCEPT !.req = r] ELSE new
      OBVIOUS
<1>3. /\ Fits(root, v, U, I)
      /\ root \in DOMAIN fs => v.size = fs[root].size /\ v.status = fs[root].status
  <2>1. CASE root \in DOMAIN fs
    <3>1. Fits(root, fs[root], U, I)
          BY <2>1, FitAt
    <3>2. PICK x : x = fs[root]
          OBVIOUS
    <3>3. PICK y : y = [x EXCEPT !.req = r]
          OBVIOUS
    <3>4. Fits(root, y, U, I) /\ y.size = x.size /\ y.status = x.status
          BY <1>1, <2>1, <3>1, <3>2, <3>3, RequestSet
    <3> QED BY <1>2, <2>1, <3>2, <3>3, <3>4
  <2>2. CASE root \notin DOMAIN fs
        BY <1>2, <2>2
  <2> QED BY <2>1, <2>2
<1>4. DOMAIN gs = DOMAIN fs \cup {root} /\ gs = [k \in DOMAIN gs |-> IF k = root THEN v ELSE fs[k]]
      BY <1>2 DEF SetRequest, With
<1>5. \A k \in DOMAIN fs : k \in Key /\ Fits(k, fs[k], U, I)
      BY FitAt
<1>6. \A k \in DOMAIN gs : k \in Key /\ gs[k] \in Entries /\ Fits(k, gs[k], U, I)
      BY <1>1, <1>3, <1>4, <1>5 DEF Fits
<1>7. FilesFit(gs, U, I)
      BY <1>4, <1>6 DEF FilesFit
<1> QED BY <1>2, <1>3, <1>4, <1>7

LEMMA MarkedIs ==
    ASSUME WishTyped, RequestsTrue, NEW fs, DOMAIN fs \subseteq Key, NEW r \in DOMAIN wish,
           NEW k \in Marked(fs, wish[r].peer, wish[r].path)
    PROVE  k \in DOMAIN fs /\ k \in Key /\ r \in Covering(k)
BY DEF Marked, Covering

\* A request that was made.
LEMMA RequestedFits ==
    ASSUME WishTyped, RequestsTrue, NEW fs, NEW U, NEW I, FilesFit(fs, U, I), NEW r \in DOMAIN wish, r \in I,
           NEW p, NEW path, p = wish[r].peer, path = wish[r].path,
           NEW hs, hs = SetRequest(fs, <<p, path>>, r, Entry(Unknown, Status("Requested", r), r)),
           hs[<<p, path>>].size = Unknown => r \in U,
           NEW gs, gs = Over([k \in Marked(hs, p, path) |-> [hs[k] EXCEPT !.status = Status("Requested", r)]], hs)
    PROVE  FilesFit(gs, U, I) /\ DOMAIN fs \subseteq DOMAIN gs
<1>1. PICK root \in Key : root = <<p, path>> /\ root = <<wish[r].peer, wish[r].path>> /\ RootOf(root, r)
      BY RootIs
<1>2. PICK st : st = Status("Requested", r)
      OBVIOUS
<1>3. r \in Covering(root) /\ r \in 0..MaxReq
      BY <1>1, RootIs DEF Covering
<1>4. \A k \in Key : r \in Covering(k) => st \in Statuses /\ StatusTrue(k, st, U)
      BY <1>2, BegunTrue
<1>5. PICK new : new = Entry(Unknown, st, r)
      OBVIOUS
<1>6. hs[root].size = Unknown => r \in U
      BY <1>1
<1>7. DOMAIN hs = DOMAIN fs \cup {root} /\ hs = [k \in DOMAIN hs |-> IF k = root
            THEN (IF root \in DOMAIN fs THEN [fs[root] EXCEPT !.req = r] ELSE new) ELSE fs[k]]
      BY <1>1, <1>2, <1>5 DEF SetRequest, With
<1>8. root \in DOMAIN fs => hs[root].size = fs[root].size
  <2>1. ASSUME root \in DOMAIN fs PROVE fs[root] \in Entries
        BY <2>1, FitAt
  <2> QED BY <1>7, <2>1 DEF Entries
<1>9. root \notin DOMAIN fs => hs[root] = new
      BY <1>7
<1>10. new.size = Unknown
       BY <1>5 DEF Entry
<1>11. root \in DOMAIN fs /\ fs[root].size = Unknown => r \in U
       BY <1>6, <1>8
<1>12. root \notin DOMAIN fs => Fits(root, new, U, I)
  <2>1. root \notin DOMAIN fs => r \in U
        BY <1>6, <1>9, <1>10
  <2> QED BY <1>1, <1>3, <1>4, <1>5, <2>1, EntryMade
<1>13. FilesFit(hs, U, I)
  <2>1. hs = SetRequest(fs, root, r, new)
        BY <1>1, <1>2, <1>5
  <2>2. ASSUME NEW xs, xs = SetRequest(fs, root, r, new) PROVE FilesFit(xs, U, I)
    <3>1. root = <<wish[r].peer, wish[r].path>>
          BY <1>1
    <3> QED BY <1>11, <1>12, <2>2, <3>1, SetRequestFits
  <2> QED BY <2>1, <2>2
<1>14. PICK h : h = [k \in Marked(hs, p, path) |-> [hs[k] EXCEPT !.status = st]]
       OBVIOUS
<1>15. ASSUME NEW k \in DOMAIN h PROVE k \in Key /\ Fits(k, h[k], U, I) /\ k \in DOMAIN hs
  <2>1. k \in DOMAIN hs /\ k \in Key /\ r \in Covering(k)
        BY <1>13, <1>14, MarkedIs, FitAt
  <2>2. Fits(k, hs[k], U, I) /\ st \in Statuses /\ StatusTrue(k, st, U)
        BY <1>4, <1>13, <2>1, FitAt
  <2>3. h[k] = [hs[k] EXCEPT !.status = st]
        BY <1>14
  <2> QED BY <2>1, <2>2, <2>3, StatusSet
<1>16. DOMAIN hs \subseteq Key /\ \A k \in DOMAIN hs : Fits(k, hs[k], U, I)
       BY <1>13, FitAt
<1>17. FilesFit(Over(h, hs), U, I) /\ DOMAIN Over(h, hs) = DOMAIN h \cup DOMAIN hs
  <2>1. DOMAIN h \subseteq Key /\ \A k \in DOMAIN h : Fits(k, h[k], U, I)
        BY <1>15
  <2>2. FilesFit(Over(h, hs), U, I)
        BY <1>16, <2>1, OverFits
  <2> QED BY <2>2, OverIs
<1>18. gs = Over(h, hs)
       BY <1>2, <1>14
<1> QED BY <1>7, <1>17, <1>18

\* A request in an answer: its entry and those it marks.
LEMMA RowStatusTrue ==
    ASSUME WishTyped, RequestsTrue, NEW k \in Key, NEW row \in Lines, row.req \in Covering(k),
           row.done => Received(row.req), NEW U
    PROVE  /\ RowStatus(row) \in Statuses /\ StatusTrue(k, RowStatus(row), U)
           /\ RowStatus(row).kind \in {"Requested", "Downloaded"} /\ RowStatus(row).req = row.req
<1>1. row.req \in 0..MaxReq /\ "Requested" \in Kinds /\ "Downloaded" \in Kinds
      BY CoveringIs DEF Kinds
<1>2. CASE row.done
  <2>1. RowStatus(row) = Status("Downloaded", row.req)
        BY <1>2 DEF RowStatus
  <2> QED BY <1>1, <1>2, <2>1, ReceivedTrue, StatusIs
<1>3. CASE ~row.done
  <2>1. RowStatus(row) = Status("Requested", row.req)
        BY <1>3 DEF RowStatus
  <2> QED BY <1>1, <2>1, BegunTrue, StatusIs
<1> QED BY <1>2, <1>3

\* Where one request covers an entry, its answers do not take its status back.
LEMMA MergeAdvances ==
    ASSUME NEW k, NEW U, NEW st \in Statuses, StatusTrue(k, st, U), NEW new \in Statuses,
           new.kind \in {"Requested", "Downloaded"}, new.req \in Covering(k)
    PROVE  /\ Merge(st, new) \in {st, new}
           /\ Covering(k) = {new.req} => Rank[st.kind] <= Rank[Merge(st, new).kind]
<1>1. Merge(st, new) \in {st, new}
      BY DEF Merge
<1>2. st.kind \in Kinds /\ new.kind \in Kinds
      BY DEF Statuses
<1>3. \A kind \in Kinds : Rank[kind] \in 0..3 /\ (kind = "Requested" => Rank[kind] = 1)
          /\ (kind = "Nothing" => Rank[kind] = 0) /\ (kind = "Downloaded" => Rank[kind] = 3)
      BY DEF Rank, Kinds
<1>4. CASE new.kind = "Downloaded"
  <2>1. Merge(st, new) = new
        BY <1>4 DEF Merge
  <2> QED BY <1>1, <1>2, <1>3, <1>4, <2>1
<1>5. CASE new.kind = "Requested" /\ st.kind \in {"Downloading", "Downloaded"}
  <2>1. st.req \in Covering(k)
        BY <1>5 DEF StatusTrue
  <2>2. Covering(k) = {new.req} => Merge(st, new) = st
        BY <1>5, <2>1 DEF Merge
  <2> QED BY <1>1, <1>2, <1>3, <2>2
<1>6. CASE new.kind = "Requested" /\ st.kind \in {"Nothing", "Requested"}
  <2>1. Merge(st, new) = new
        BY <1>6 DEF Merge
  <2> QED BY <1>1, <1>2, <1>3, <1>6, <2>1
<1> QED BY <1>2, <1>4, <1>5, <1>6 DEF Kinds

\* What is shown after an answer: no entry has gone or changed its size, those that are
\* new have one, and none has gone back if one request covers it.
Advances(fs, gs) ==
    /\ DOMAIN fs \subseteq DOMAIN gs
    /\ \A k \in DOMAIN gs \ DOMAIN fs : gs[k].size # Unknown
    /\ \A k \in DOMAIN fs :
         /\ gs[k].size = fs[k].size
         /\ Cardinality(Covering(k)) = 1 => Rank[fs[k].status.kind] <= Rank[gs[k].status.kind]

LEMMA OneCovers ==
    ASSUME WishTyped, NEW k, Cardinality(Covering(k)) = 1, NEW r \in Covering(k)
    PROVE  Covering(k) = {r}
<1>1. IsFiniteSet(DOMAIN wish)
  <2>1. Len(wish) \in Nat /\ DOMAIN wish = 1..Len(wish)
        BY DEF WishTyped
  <2> QED BY <2>1, FS_Interval
<1>2. IsFiniteSet(Covering(k))
      BY <1>1, FS_Subset DEF Covering
<1> QED BY <1>2, FS_Singleton

LEMMA RankIs ==
    \A st \in Statuses : Rank[st.kind] \in Nat
BY DEF Rank, Statuses, Kinds

LEMMA AdvancesOn ==
    ASSUME NEW U, NEW I, NEW fs, NEW gs, NEW hs, FilesFit(fs, U, I), FilesFit(gs, U, I), FilesFit(hs, U, I),
           Advances(fs, gs), Advances(gs, hs)
    PROVE  Advances(fs, hs)
<1>1. /\ \A k \in DOMAIN fs : fs[k].status \in Statuses
      /\ \A k \in DOMAIN gs : gs[k].status \in Statuses
      /\ \A k \in DOMAIN hs : hs[k].status \in Statuses
      BY FitAt DEF Entries
<1>2. DOMAIN fs \subseteq DOMAIN gs /\ DOMAIN gs \subseteq DOMAIN hs
      BY DEF Advances
<1>3. ASSUME NEW k \in DOMAIN hs \ DOMAIN fs PROVE hs[k].size # Unknown
      BY <1>2 DEF Advances
<1>4. ASSUME NEW k \in DOMAIN fs
      PROVE  /\ hs[k].size = fs[k].size
             /\ Cardinality(Covering(k)) = 1 => Rank[fs[k].status.kind] <= Rank[hs[k].status.kind]
  <2>1. Rank[fs[k].status.kind] \in Nat /\ Rank[gs[k].status.kind] \in Nat /\ Rank[hs[k].status.kind] \in Nat
        BY <1>1, <1>2, RankIs
  <2> QED BY <1>2, <2>1 DEF Advances
<1> QED BY <1>2, <1>3, <1>4 DEF Advances

LEMMA RowFits ==
    ASSUME WishTyped, RequestsTrue, NEW fs, NEW U, NEW I, FilesFit(fs, U, I), NEW row \in Lines,
           row.req \in DOMAIN wish, row.path = wish[row.req].path, row.done => Received(row.req), row.req \in I,
           NEW root, root = <<wish[row.req].peer, row.path>>,
           root \in DOMAIN fs /\ fs[root].size = Unknown => row.req \in U,
           NEW gs, gs = RequestShown(fs, row)
    PROVE  FilesFit(gs, U, I) /\ root \in DOMAIN gs /\ Advances(fs, gs)
<1>1. PICK r, p, path : r \in DOMAIN wish /\ r = row.req /\ p = wish[r].peer /\ path = wish[r].path
      OBVIOUS
<1>2. /\ root \in Key /\ root = <<p, path>> /\ root = <<wish[r].peer, wish[r].path>> /\ RootOf(root, r)
      /\ r \in 0..MaxReq /\ SizeAt(root) = Total(r) /\ r \in Covering(root) /\ r \in I
      BY <1>1, RootIs DEF Covering
<1>3. PICK st : st = RowStatus(row)
      OBVIOUS
<1>4. \A k \in Key : r \in Covering(k) =>
        st \in Statuses /\ StatusTrue(k, st, U) /\ st.kind \in {"Requested", "Downloaded"} /\ st.req = r
      BY <1>1, <1>3, RowStatusTrue
<1>5. PICK new : new = Entry(Total(r), st, r)
      OBVIOUS
<1>6. Fits(root, new, U, I) /\ new.size # Unknown
  <2>1. SizeAt(root) # Unknown /\ SizeAt(root) \in {Unknown, SizeAt(root)}
        BY <1>2, SizeKnown
  <2>2. new = Entry(SizeAt(root), st, r)
        BY <1>2, <1>5
  <2>3. st \in Statuses /\ StatusTrue(root, st, U) /\ r \in 0..MaxReq /\ r \in I /\ RootOf(root, r)
        BY <1>2, <1>4
  <2>4. PartsFit(root, SizeAt(root), st, r, U, I)
        BY <1>2, <2>1, <2>3 DEF PartsFit
  <2>5. Fits(root, new, U, I)
        BY <2>2, <2>4, PartsMake
  <2>6. new.size = SizeAt(root)
        BY <2>2 DEF Entry
  <2> QED BY <2>1, <2>5, <2>6
<1>7. PICK hs : hs = SetRequest(fs, root, r, new)
      OBVIOUS
<1>8. /\ FilesFit(hs, U, I) /\ DOMAIN hs = DOMAIN fs \cup {root}
      /\ \A k \in DOMAIN fs : hs[k].size = fs[k].size /\ hs[k].status = fs[k].status
      /\ root \notin DOMAIN fs => hs[root] = new
  <2>1. root \in DOMAIN fs /\ fs[root].size = Unknown => r \in U
        BY <1>1
  <2>2. root = <<wish[r].peer, wish[r].path>> /\ r \in DOMAIN wish /\ r \in I
        BY <1>1, <1>2
  <2> QED BY <1>6, <1>7, <2>1, <2>2, SetRequestFits
<1>9. PICK h : h = [k \in Marked(hs, p, path) |-> [hs[k] EXCEPT !.status = Merge(@, st)]]
      OBVIOUS
<1>10. gs = Over(h, hs)
       BY <1>1, <1>2, <1>3, <1>5, <1>7, <1>9 DEF RequestShown
<1>11. DOMAIN hs \subseteq Key /\ \A k \in DOMAIN hs : Fits(k, hs[k], U, I) /\ hs[k] \in Entries
       BY <1>8, FitAt
<1>12. ASSUME NEW k \in DOMAIN h
       PROVE  /\ k \in Key /\ k \in DOMAIN hs /\ Fits(k, h[k], U, I) /\ h[k].size = hs[k].size
              /\ Cardinality(Covering(k)) = 1 => Rank[hs[k].status.kind] <= Rank[h[k].status.kind]
  <2>1. k \in DOMAIN hs /\ k \in Key /\ r \in Covering(k)
        BY <1>1, <1>9, <1>11, MarkedIs
  <2>2. PICK x, old, m : x = hs[k] /\ old = x.status /\ m = Merge(old, st)
        OBVIOUS
  <2>3. Fits(k, x, U, I) /\ x \in Entries /\ old \in Statuses /\ StatusTrue(k, old, U)
        BY <1>11, <2>1, <2>2 DEF Fits, EntryTrue, Entries
  <2>4. /\ m \in {old, st}
        /\ Covering(k) = {r} => Rank[old.kind] <= Rank[m.kind]
        BY <1>4, <2>1, <2>2, <2>3, MergeAdvances
  <2>5. m \in Statuses /\ StatusTrue(k, m, U)
        BY <1>4, <2>1, <2>3, <2>4
  <2>6. PICK y : y = [x EXCEPT !.status = m]
        OBVIOUS
  <2>7. Fits(k, y, U, I) /\ y.size = x.size /\ y.status = m
        BY <2>3, <2>5, <2>6, StatusSet
  <2>8. h[k] = y
        BY <1>9, <2>2, <2>3, <2>6 DEF Entries
  <2>9. Cardinality(Covering(k)) = 1 => Covering(k) = {r}
        BY <2>1, OneCovers
  <2> QED BY <2>1, <2>2, <2>4, <2>7, <2>8, <2>9
<1>13. FilesFit(gs, U, I)
  <2>1. DOMAIN h \subseteq Key /\ \A k \in DOMAIN h : Fits(k, h[k], U, I)
        BY <1>12
  <2>2. FilesFit(Over(h, hs), U, I)
        BY <1>11, <2>1, OverFits
  <2> QED BY <1>10, <2>2
<1>14. /\ DOMAIN gs = DOMAIN hs
       /\ \A k \in DOMAIN h : gs[k] = h[k]
       /\ \A k \in DOMAIN hs \ DOMAIN h : gs[k] = hs[k]
  <2>1. /\ DOMAIN Over(h, hs) = DOMAIN h \cup DOMAIN hs
        /\ \A k \in DOMAIN h : Over(h, hs)[k] = h[k]
        /\ \A k \in DOMAIN hs \ DOMAIN h : Over(h, hs)[k] = hs[k]
        BY DEF Over
  <2> QED BY <1>10, <1>12, <2>1
<1>15. ASSUME NEW k \in DOMAIN hs
       PROVE  /\ gs[k].size = hs[k].size
              /\ Cardinality(Covering(k)) = 1 => Rank[hs[k].status.kind] <= Rank[gs[k].status.kind]
  <2>1. CASE k \in DOMAIN h
        BY <1>12, <1>14, <2>1
  <2>2. CASE k \notin DOMAIN h
    <3>1. hs[k].status \in Statuses /\ gs[k] = hs[k]
          BY <1>11, <1>14, <2>2 DEF Entries
    <3> QED BY <3>1, RankIs
  <2> QED BY <2>1, <2>2
<1>16. Advances(fs, gs)
       BY <1>6, <1>8, <1>14, <1>15 DEF Advances
<1> QED BY <1>8, <1>13, <1>14, <1>16

\* The requests of an answer are shown one after the other.
Link(fs, rows, g, r) ==
    IF r = 0 THEN fs
    ELSE IF \E row \in rows : row.req = r
    THEN RequestShown(g[r - 1], CHOOSE row \in rows : row.req = r) ELSE g[r - 1]
Chain(fs, rows, n, g) == g = [r \in 0..n |-> Link(fs, rows, g, r)]

LEMMA ChainExists ==
    ASSUME NEW fs, NEW rows, NEW n \in Nat
    PROVE  \E g : Chain(fs, rows, n, g)
<1> DEFINE P == {i \in Nat : \E g : Chain(fs, rows, i, g)}
<1>1. 0 \in P
  <2>1. PICK g : g = [r \in 0..0 |-> fs]
        OBVIOUS
  <2>2. g = [r \in 0..0 |-> Link(fs, rows, g, r)]
        BY <2>1 DEF Link
  <2> QED BY <2>2 DEF Chain
<1>2. ASSUME NEW i \in P PROVE i + 1 \in P
  <2>1. PICK g : Chain(fs, rows, i, g)
        OBVIOUS
  <2>2. PICK last : last = Link(fs, rows, g, i + 1)
        OBVIOUS
  <2>3. PICK h : h = [r \in 0..(i + 1) |-> IF r = i + 1 THEN last ELSE g[r]]
        OBVIOUS
  <2>4. ASSUME NEW r \in 0..(i + 1) PROVE h[r] = Link(fs, rows, h, r)
    <3>1. r # 0 => h[r - 1] = g[r - 1]
          BY <2>3
    <3>2. Link(fs, rows, h, r) = Link(fs, rows, g, r)
          BY <3>1 DEF Link
    <3>3. r # i + 1 => g[r] = Link(fs, rows, g, r)
      <4>1. r # i + 1 => r \in 0..i
            OBVIOUS
      <4> QED BY <2>1, <4>1 DEF Chain
    <3> QED BY <2>2, <2>3, <3>2, <3>3
  <2>5. Chain(fs, rows, i + 1, h)
        BY <2>3, <2>4 DEF Chain
  <2> QED BY <2>5
<1> HIDE DEF P
<1>3. P \in SUBSET Nat
      BY DEF P
<1>4. n \in P
      BY <1>1, <1>2, <1>3, CountingUp
<1> QED BY <1>4 DEF P

LEMMA ShownIs ==
    ASSUME NEW fs, NEW rows
    PROVE  \E g : Chain(fs, rows, MaxReq, g) /\ RequestsShown(fs, rows) = g[MaxReq]
<1>1. \E g : Chain(fs, rows, MaxReq, g)
      BY ChainExists, InterfaceAssumption
<1> DEFINE c == CHOOSE g : Chain(fs, rows, MaxReq, g)
<1>2. Chain(fs, rows, MaxReq, c)
      BY <1>1
<1>3. RequestsShown(fs, rows) = c[MaxReq]
      BY DEF RequestsShown, Chain, Link
<1> QED BY <1>2, <1>3

LEMMA RowsFit ==
    ASSUME WishTyped, RequestsTrue, NEW fs, NEW U, NEW I, FilesFit(fs, U, I), NEW rows \in SUBSET Lines,
           \A row \in rows :
             /\ row.req \in DOMAIN wish /\ row.path = wish[row.req].path /\ row.req \in I
             /\ row.done => Received(row.req)
             /\ \A root \in {<<wish[row.req].peer, row.path>>} :
                  root \in DOMAIN fs /\ fs[root].size = Unknown => row.req \in U,
           NEW gs, gs = RequestsShown(fs, rows)
    PROVE  /\ FilesFit(gs, U, I) /\ Advances(fs, gs)
           /\ \A row \in rows : <<wish[row.req].peer, row.path>> \in DOMAIN gs
<1>1. PICK g : Chain(fs, rows, MaxReq, g) /\ gs = g[MaxReq]
      BY ShownIs
<1>2. \A r \in 0..MaxReq : g[r] = Link(fs, rows, g, r)
      BY <1>1 DEF Chain
<1> DEFINE Holds(i) == /\ FilesFit(g[i], U, I) /\ Advances(fs, g[i])
                       /\ \A row \in rows : row.req <= i => <<wish[row.req].peer, row.path>> \in DOMAIN g[i]
           P == {i \in Nat : i <= MaxReq => Holds(i)}
<1>3. \A row \in rows : row.req \in 1..MaxReq
      BY DEF Lines, Req
<1>4. 0 \in P
  <2>1. g[0] = fs
        BY <1>2, InterfaceAssumption DEF Link
  <2>2. \A k \in DOMAIN fs : fs[k].status \in Statuses
        BY FitAt DEF Entries
  <2>3. \A k \in DOMAIN fs : Rank[fs[k].status.kind] <= Rank[fs[k].status.kind]
        BY <2>2, RankIs
  <2>4. Advances(fs, fs)
        BY <2>3 DEF Advances
  <2> QED BY <1>3, <2>1, <2>4
<1>5. ASSUME NEW i \in P PROVE i + 1 \in P
  <2>1. SUFFICES ASSUME i + 1 <= MaxReq PROVE Holds(i + 1)
        OBVIOUS
  <2>2. Holds(i) /\ i + 1 \in 0..MaxReq /\ (i + 1) - 1 = i /\ i + 1 # 0
        BY <2>1, InterfaceAssumption
  <2>3. PICK before, after : before = g[i] /\ after = g[i + 1]
        OBVIOUS
  <2>4. /\ FilesFit(before, U, I) /\ Advances(fs, before)
        /\ \A row \in rows : row.req <= i => <<wish[row.req].peer, row.path>> \in DOMAIN before
        BY <2>2, <2>3
  <2>5. CASE \E row \in rows : row.req = i + 1
    <3>1. PICK c \in rows : c = (CHOOSE row \in rows : row.req = i + 1) /\ c.req = i + 1
          BY <2>5
    <3>2. after = RequestShown(before, c)
          BY <1>2, <2>2, <2>3, <2>5, <3>1 DEF Link
    <3>3. PICK root : root = <<wish[c.req].peer, c.path>>
          OBVIOUS
    <3>4. root \in DOMAIN before /\ before[root].size = Unknown => c.req \in U
          BY <2>4, <3>3 DEF Advances
    <3>5. FilesFit(after, U, I) /\ root \in DOMAIN after /\ Advances(before, after)
          BY <2>4, <3>2, <3>3, <3>4, RowFits
    <3>6. Advances(fs, after)
          BY <2>4, <3>5, AdvancesOn
    <3>7. ASSUME NEW row \in rows, row.req <= i + 1 PROVE <<wish[row.req].peer, row.path>> \in DOMAIN after
      <4>1. CASE row.req <= i
            BY <2>4, <3>5, <4>1 DEF Advances
      <4>2. CASE row.req = i + 1
            BY <3>1, <3>3, <3>5, <4>2
      <4> QED BY <1>3, <3>7, <4>1, <4>2
    <3> QED BY <2>3, <3>5, <3>6, <3>7
  <2>6. CASE ~ \E row \in rows : row.req = i + 1
    <3>1. after = before
          BY <1>2, <2>2, <2>3, <2>6 DEF Link
    <3>2. \A row \in rows : row.req <= i + 1 => row.req <= i
          BY <1>3, <2>6
    <3> QED BY <2>3, <2>4, <3>1, <3>2
  <2> QED BY <2>5, <2>6
<1> HIDE DEF Holds
<1>6. P \in SUBSET Nat
      OBVIOUS
<1> HIDE DEF P
<1>7. MaxReq \in P
      BY <1>4, <1>5, <1>6, InterfaceAssumption, CountingUp
<1>8. Holds(MaxReq)
      BY <1>7, InterfaceAssumption DEF P
<1> QED BY <1>1, <1>3, <1>8, InterfaceAssumption DEF Holds

\* The files of a request in an answer.
LEMMA RequestedFileFits ==
    ASSUME WishTyped, RequestsTrue, NEW fs, NEW U, NEW I, FilesFit(fs, U, I), 0 \in I, NEW row \in Lines,
           row.req \in DOMAIN wish, NEW k \in Key, k = <<wish[row.req].peer, row.path>>,
           row.path \in DOMAIN wish[row.req].got,
           row.done => wish[row.req].got[row.path] = Tree[wish[row.req].peer][row.path],
           NEW y, y = RequestedFile(fs, k, row)
    PROVE  /\ Fits(k, y, U, I)
           /\ k \in DOMAIN fs /\ Cardinality(Covering(k)) = 1 =>
                Rank[fs[k].status.kind] <= Rank[y.status.kind]
<1>1. PICK r : r = row.req /\ r \in DOMAIN wish
      OBVIOUS
<1>2. k[1] = wish[r].peer /\ k[2] = row.path
      BY <1>1
<1>3. /\ r \in Covering(k) /\ r \in 0..MaxReq
      /\ row.done => \A V : StatusTrue(k, Status("Downloaded", r), V)
      BY <1>1, <1>2, FileTrue, RootIs
<1>4. PICK st : st = RowStatus(row)
      OBVIOUS
<1>5. st \in Statuses /\ StatusTrue(k, st, U) /\ st.kind \in {"Requested", "Downloaded"} /\ st.req = r
  <2>1. "Requested" \in Kinds /\ "Downloaded" \in Kinds
        BY DEF Kinds
  <2>2. CASE row.done
    <3>1. st = Status("Downloaded", r)
          BY <1>1, <1>4, <2>2 DEF RowStatus
    <3> QED BY <1>3, <2>1, <2>2, <3>1, StatusIs
  <2>3. CASE ~row.done
    <3>1. st = Status("Requested", r)
          BY <1>1, <1>4, <2>3 DEF RowStatus
    <3> QED BY <1>3, <2>1, <3>1, StatusIs, BegunTrue
  <2> QED BY <2>2, <2>3
<1>6. CASE k \notin DOMAIN fs
  <2>1. y = Entry(SizeAt(k), st, 0)
        BY <1>4, <1>6 DEF RequestedFile
  <2>2. SizeAt(k) \in {Unknown, SizeAt(k)} /\ 0 \in 0..MaxReq
        BY InterfaceAssumption
  <2>3. Fits(k, Entry(SizeAt(k), st, 0), U, I)
        BY <1>5, <2>2, EntryMade
  <2> QED BY <1>6, <2>1, <2>3
<1>7. CASE k \in DOMAIN fs
  <2>1. PICK x, old, m : x = fs[k] /\ old = x.status /\ m = Merge(old, st)
        OBVIOUS
  <2>2. Fits(k, x, U, I) /\ x \in Entries /\ old \in Statuses /\ StatusTrue(k, old, U)
    <3>1. Fits(k, fs[k], U, I) /\ fs[k] \in Entries
          BY <1>7, FitAt
    <3> QED BY <2>1, <3>1 DEF Fits, EntryTrue, Entries
  <2>3. /\ m \in {old, st}
        /\ Covering(k) = {r} => Rank[old.kind] <= Rank[m.kind]
        BY <1>3, <1>5, <2>1, <2>2, MergeAdvances
  <2>4. m \in Statuses /\ StatusTrue(k, m, U)
        BY <1>5, <2>2, <2>3
  <2>5. PICK a : a = [x EXCEPT !.size = SizeAt(k)]
        OBVIOUS
  <2>6. PICK b : b = [a EXCEPT !.status = m]
        OBVIOUS
  <2>7. Fits(k, a, U, I)
        BY <2>2, <2>5, SizeSet
  <2>8. Fits(k, b, U, I) /\ b.status = m
        BY <2>4, <2>6, <2>7, StatusSet
  <2>9. y = b
    <3>1. y = [fs[k] EXCEPT !.size = SizeAt(k), !.status = Merge(@, st)]
          BY <1>4, <1>7 DEF RequestedFile
    <3>2. y = [size |-> SizeAt(k), status |-> m, req |-> x.req]
          BY <2>1, <2>2, <3>1 DEF Entries
    <3>3. a = [size |-> SizeAt(k), status |-> old, req |-> x.req]
          BY <2>1, <2>2, <2>5 DEF Entries
    <3>4. b = [size |-> SizeAt(k), status |-> m, req |-> x.req]
          BY <2>6, <3>3
    <3> QED BY <3>2, <3>4
  <2>10. Cardinality(Covering(k)) = 1 => Covering(k) = {r}
         BY <1>3, OneCovers
  <2> QED BY <2>1, <2>3, <2>8, <2>9, <2>10
<1> QED BY <1>6, <1>7

\* At what one request is for, the status is no lower.
Higher(fs, gs) ==
    \A k \in DOMAIN fs : Cardinality(Covering(k)) = 1 => Rank[fs[k].status.kind] <= Rank[gs[k].status.kind]

\* Rows of a request that say what is so, and what is shown once they have been answered.
RowsSay(r, rows) ==
    \A row \in rows :
        /\ row.req = r /\ row.path \in DOMAIN wish[r].got
        /\ row.done => wish[r].got[row.path] = Tree[wish[r].peer][row.path]
RowsShown(fs, r, rows, gs) ==
    \E h : /\ h = [k \in {<<wish[r].peer, row.path>> : row \in rows} |->
                       RequestedFile(fs, k, CHOOSE row \in rows : row.path = k[2])]
           /\ gs = Over(h, fs)

LEMMA RequestedFilesFit ==
    ASSUME WishTyped, RequestsTrue, NEW fs, NEW U, NEW I, FilesFit(fs, U, I), 0 \in I,
           NEW r \in DOMAIN wish, NEW rows \in SUBSET Lines, RowsSay(r, rows),
           NEW gs, RowsShown(fs, r, rows, gs)
    PROVE  FilesFit(gs, U, I) /\ DOMAIN fs \subseteq DOMAIN gs /\ Higher(fs, gs)
<1>0. PICK h : /\ h = [k \in {<<wish[r].peer, row.path>> : row \in rows} |->
                          RequestedFile(fs, k, CHOOSE row \in rows : row.path = k[2])]
               /\ gs = Over(h, fs)
      BY DEF RowsShown
<1>1. ASSUME NEW k \in DOMAIN h
      PROVE  /\ k \in Key /\ Fits(k, h[k], U, I)
             /\ k \in DOMAIN fs /\ Cardinality(Covering(k)) = 1 =>
                  Rank[fs[k].status.kind] <= Rank[h[k].status.kind]
  <2>1. PICK other \in rows : k = <<wish[r].peer, other.path>>
        BY <1>0
  <2>2. other.path = k[2]
        BY <2>1
  <2>3. PICK c \in rows : c = (CHOOSE row \in rows : row.path = k[2]) /\ c.path = k[2]
        BY <2>2
  <2>4. k = <<wish[r].peer, c.path>>
        BY <2>1, <2>2, <2>3
  <2>5. k \in Key
    <3>1. PICK p, path : p = wish[r].peer /\ path = c.path /\ p \in DOMAIN Tree /\ path \in DOMAIN Tree[p]
      <4>1. /\ wish[r].peer \in Peer /\ wish[r].path \in DOMAIN Tree[wish[r].peer]
            /\ DOMAIN wish[r].got = FilesOf(wish[r].peer, wish[r].path)
            BY ReadIs
      <4> QED BY <2>3, <4>1, InterfaceAssumption DEF FilesOf, RowsSay
    <3> QED BY <2>4, <3>1, KeyMade
  <2>6. h[k] = RequestedFile(fs, k, c)
        BY <1>0, <2>3
  <2>7. c \in Lines /\ c.req = r /\ c.path \in DOMAIN wish[r].got
        /\ (c.done => wish[r].got[c.path] = Tree[wish[r].peer][c.path])
        BY DEF RowsSay
  <2> QED BY <2>4, <2>5, <2>6, <2>7, RequestedFileFits
<1>2. DOMAIN fs \subseteq Key /\ \A k \in DOMAIN fs : Fits(k, fs[k], U, I) /\ fs[k] \in Entries
      BY FitAt
<1>3. FilesFit(Over(h, fs), U, I)
  <2>1. DOMAIN h \subseteq Key /\ \A k \in DOMAIN h : Fits(k, h[k], U, I)
        BY <1>1
  <2> QED BY <1>2, <2>1, OverFits
<1>4. /\ DOMAIN Over(h, fs) = DOMAIN h \cup DOMAIN fs
      /\ \A k \in DOMAIN h : Over(h, fs)[k] = h[k]
      /\ \A k \in DOMAIN fs \ DOMAIN h : Over(h, fs)[k] = fs[k]
      BY DEF Over
<1>5. ASSUME NEW k \in DOMAIN fs, Cardinality(Covering(k)) = 1
      PROVE  Rank[fs[k].status.kind] <= Rank[gs[k].status.kind]
  <2>1. CASE k \in DOMAIN h
        BY <1>0, <1>1, <1>4, <1>5, <2>1
  <2>2. CASE k \notin DOMAIN h
    <3>1. fs[k].status \in Statuses /\ gs[k] = fs[k]
          BY <1>0, <1>2, <1>4, <2>2 DEF Entries
    <3> QED BY <3>1, RankIs
  <2> QED BY <2>1, <2>2
<1>6. Higher(fs, gs)
      BY <1>5 DEF Higher
<1> QED BY <1>0, <1>3, <1>4, <1>6

\* What an event shows: of an entry without a size, that its request is excepted.
LEMMA ShowsTrue ==
    ASSUME WishTyped, RequestsTrue, NEW k \in Key, NEW e, e.req \in Covering(k), NEW read, NEW enough \in BOOLEAN, NEW U,
           enough => StatusTrue(k, Status("Downloaded", e.req), U) \/ e.req \in U
    PROVE  Shows(e, read, enough) \in Statuses /\ StatusTrue(k, Shows(e, read, enough), U)
<1>1. PICK r \in Covering(k) : r = e.req /\ r \in 0..MaxReq
      BY CoveringIs
<1>2. CASE enough
  <2>1. Shows(e, read, enough) = Status("Downloaded", r)
        BY <1>1, <1>2 DEF Shows
  <2>2. "Downloaded" \in Kinds
        BY DEF Kinds
  <2>3. PICK st \in Statuses : st = Status("Downloaded", r) /\ st.kind = "Downloaded" /\ st.req = r
        BY <1>1, <2>2, StatusIs
  <2>4. CASE r \in U
    <3>1. StatusTrue(k, st, U)
          BY <2>3, <2>4 DEF StatusTrue
    <3> QED BY <2>1, <2>3, <3>1
  <2> QED BY <1>1, <1>2, <2>1, <2>3, <2>4
<1>3. CASE ~enough
  <2>1. Shows(e, read, enough) = Status("Downloading", r)
        BY <1>1, <1>3 DEF Shows
  <2> QED BY <1>1, <2>1, BegunTrue
<1> QED BY <1>2, <1>3

\* A report on a file: at the entry of the file, ...
LEMMA FileShownFits ==
    ASSUME WishTyped, RequestsTrue, NEW fs, NEW U, NEW I, FilesFit(fs, U, I), 0 \in I,
           NEW e \in Events, e.kind = "downloading", EventTrue(e),
           NEW k, k = <<e.peer, e.path>>, NEW hs, hs = FileShown(fs, e), hs[k].size = Unknown => e.req \in U
    PROVE  /\ FilesFit(hs, U, I) /\ DOMAIN hs = DOMAIN fs \cup {k}
           /\ \A x \in DOMAIN fs : hs[x].req = fs[x].req
<1>1. PICK r, p, path : /\ r = e.req /\ r \in DOMAIN wish /\ p = wish[r].peer /\ p = e.peer /\ path = e.path
                        /\ path \in DOMAIN wish[r].got /\ e.bytes <= wish[r].got[path]
      BY DEF EventTrue
<1>2. /\ k = <<p, path>> /\ k \in Key /\ SizeAt(k) = Tree[p][path] /\ Tree[p][path] \in Nat
      /\ wish[r].got[path] \in Nat /\ wish[r].got[path] <= Tree[p][path] /\ e.bytes \in Nat
  <2>1. /\ p \in Peer /\ wish[r].path \in DOMAIN Tree[p] /\ wish[r].got \in [DOMAIN wish[r].got -> Nat]
        /\ DOMAIN wish[r].got = FilesOf(p, wish[r].path)
        BY <1>1, ReadIs
  <2>2. p \in DOMAIN Tree /\ path \in DOMAIN Tree[p] /\ Tree[p][path] \in Nat
        BY <1>1, <2>1, InterfaceAssumption DEF FilesOf
  <2>3. wish[r].got[path] <= Tree[p][path]
        BY <1>1 DEF RequestsTrue
  <2> QED BY <1>1, <2>1, <2>2, <2>3, KeyMade DEF SizeAt, Events
<1>3. /\ r \in Covering(k) /\ r \in 0..MaxReq
      /\ wish[r].got[path] = Tree[p][path] => StatusTrue(k, Status("Downloaded", r), U)
  <2>1. k[1] = wish[r].peer /\ k[2] = path
        BY <1>1, <1>2
  <2> QED BY <1>1, <1>2, <2>1, FileTrue, RootIs
<1>4. PICK v : v = IF k \in DOMAIN fs
                   THEN [fs[k] EXCEPT !.status = Shows(e, e.bytes, e.bytes = OrZero(fs[k].size))]
                   ELSE Entry(Unknown, Status("Downloading", e.req), 0)
      OBVIOUS
<1>5. DOMAIN hs = DOMAIN fs \cup {k} /\ hs = [x \in DOMAIN fs \cup {k} |-> IF x = k THEN v ELSE fs[x]]
      BY <1>4 DEF FileShown, With
<1>6. Fits(k, v, U, I) /\ (k \in DOMAIN fs => v.req = fs[k].req)
  <2>1. CASE k \in DOMAIN fs
    <3>1. Fits(k, fs[k], U, I) /\ fs[k] \in Entries
          BY <2>1, FitAt
    <3>2. PICK x : x = fs[k]
          OBVIOUS
    <3>3. PICK enough \in BOOLEAN : enough <=> e.bytes = OrZero(x.size)
          OBVIOUS
    <3>4. PICK st : st = Shows(e, e.bytes, enough)
          OBVIOUS
    <3>5. PICK y : y = [x EXCEPT !.status = st]
          OBVIOUS
    <3>6. v = y
          BY <1>4, <2>1, <3>2, <3>3, <3>4, <3>5
    <3>7. x.size = Unknown => r \in U
      <4>1. ASSUME x.size = Unknown PROVE v.size = Unknown
            BY <3>1, <3>2, <3>5, <3>6, <4>1 DEF Entries
      <4> QED BY <1>1, <1>5, <4>1
    <3>8. enough => StatusTrue(k, Status("Downloaded", r), U) \/ r \in U
      <4>1. CASE x.size = Unknown
            BY <3>7, <4>1
      <4>2. CASE x.size # Unknown
        <5>1. x.size = Tree[p][path]
              BY <1>2, <3>1, <3>2, <4>2 DEF Fits, EntryTrue, SizeTrue
        <5>2. enough => wish[r].got[path] = Tree[p][path]
              BY <1>1, <1>2, <3>3, <4>2, <5>1 DEF OrZero
        <5> QED BY <1>3, <5>2
      <4> QED BY <4>1, <4>2
    <3>9. st \in Statuses /\ StatusTrue(k, st, U)
          BY <1>1, <1>2, <1>3, <3>4, <3>8, ShowsTrue
    <3> QED BY <3>1, <3>2, <3>5, <3>6, <3>9, StatusSet
  <2>2. CASE k \notin DOMAIN fs
    <3>1. PICK st : st = Status("Downloading", r)
          OBVIOUS
    <3>2. st \in Statuses /\ StatusTrue(k, st, U)
          BY <1>2, <1>3, <3>1, BegunTrue
    <3>3. 0 \in 0..MaxReq /\ Unknown \in {Unknown, SizeAt(k)}
          BY InterfaceAssumption
    <3>4. Fits(k, Entry(Unknown, st, 0), U, I)
          BY <1>2, <3>2, <3>3, EntryMade
    <3> QED BY <1>1, <1>4, <2>2, <3>1, <3>4
  <2> QED BY <2>1, <2>2
<1>7. DOMAIN fs \subseteq Key /\ \A x \in DOMAIN fs : Fits(x, fs[x], U, I) /\ fs[x] \in Entries
      BY FitAt
<1>8. \A x \in DOMAIN hs : x \in Key /\ Fits(x, hs[x], U, I) /\ hs[x] \in Entries
      BY <1>2, <1>5, <1>6, <1>7 DEF Fits
<1>9. FilesFit(hs, U, I)
      BY <1>5, <1>8 DEF FilesFit
<1> QED BY <1>5, <1>6, <1>9

\* ... and at the entry that is the root of its request.
LEMMA RootShownFits ==
    ASSUME WishTyped, RequestsTrue, NEW hs, NEW U, NEW I, FilesFit(hs, U, I),
           NEW e \in Events, e.kind = "downloading", EventTrue(e), NEW gs, gs = RootShown(hs, e)
    PROVE  FilesFit(gs, U, I) /\ DOMAIN gs = DOMAIN hs
<1>1. PICK r : r = e.req /\ r \in DOMAIN wish /\ r \in Req /\ r # 0 /\ e.total <= Read(r) /\ e.total \in Nat
  <2>1. e.req \in DOMAIN wish /\ e.total <= Read(e.req) /\ e.total \in Nat
        BY DEF EventTrue, Events
  <2> QED BY <2>1, RootIs
<1>2. DOMAIN hs \subseteq Key /\ \A x \in DOMAIN hs : Fits(x, hs[x], U, I) /\ hs[x] \in Entries
      BY FitAt
<1>3. /\ DOMAIN gs = DOMAIN hs /\ gs = [x \in DOMAIN hs |-> gs[x]]
      /\ \A k \in DOMAIN hs : gs[k] = IF hs[k].req # e.req THEN hs[k]
           ELSE [hs[k] EXCEPT !.status = Shows(e, e.total, e.total >= OrZero(hs[k].size))]
      BY DEF RootShown
<1>4. ASSUME NEW k \in DOMAIN hs PROVE k \in Key /\ gs[k] \in Entries /\ Fits(k, gs[k], U, I)
  <2>1. PICK x : x = hs[k] /\ Fits(k, x, U, I) /\ x \in Entries /\ k \in Key
        BY <1>2
  <2>2. CASE x.req # e.req
        BY <1>3, <2>1, <2>2
  <2>3. CASE x.req = e.req
    <3>1. RootOf(k, r) /\ (x.size = Unknown => r \in U) /\ x.size \in {Unknown, SizeAt(k)}
          BY <1>1, <2>1, <2>3 DEF Fits, EntryTrue, SizeTrue
    <3>2. /\ r \in Covering(k) /\ SizeAt(k) = Total(r) /\ Total(r) \in Nat /\ Read(r) \in Nat
          /\ Total(r) <= Read(r) => Received(r)
      <4>1. k = <<wish[r].peer, wish[r].path>>
            BY <3>1 DEF RootOf
      <4>2. SizeAt(k) = Total(r) /\ r \in Covering(k)
            BY <1>1, <4>1, RootIs DEF Covering
      <4> QED BY <1>1, <4>2, ReadIs
    <3>3. PICK enough \in BOOLEAN : enough <=> e.total >= OrZero(x.size)
          OBVIOUS
    <3>4. enough => StatusTrue(k, Status("Downloaded", r), U) \/ r \in U
      <4>1. CASE x.size = Unknown
            BY <3>1, <4>1
      <4>2. CASE x.size # Unknown
        <5>1. enough => Received(r)
              BY <1>1, <3>1, <3>2, <3>3, <4>2 DEF OrZero
        <5> QED BY <2>1, <3>2, <5>1, ReceivedTrue
      <4> QED BY <4>1, <4>2
    <3>5. PICK st : st = Shows(e, e.total, enough)
          OBVIOUS
    <3>6. st \in Statuses /\ StatusTrue(k, st, U)
          BY <1>1, <2>1, <3>2, <3>4, <3>5, ShowsTrue
    <3>7. PICK y : y = [x EXCEPT !.status = st]
          OBVIOUS
    <3>8. gs[k] = y
          BY <1>3, <2>1, <2>3, <3>3, <3>5, <3>7
    <3>9. Fits(k, y, U, I)
          BY <2>1, <3>6, <3>7, StatusSet
    <3> QED BY <2>1, <3>8, <3>9 DEF Fits
  <2> QED BY <2>2, <2>3
<1>5. FilesFit(gs, U, I)
      BY <1>3, <1>4 DEF FilesFit
<1> QED BY <1>3, <1>5

LEMMA CompletedFits ==
    ASSUME WishTyped, RequestsTrue, NEW fs, NEW U, NEW I, FilesFit(fs, U, I),
           NEW e \in Events, e.kind = "completed", EventTrue(e), NEW k, k = <<e.peer, e.path>>, NEW gs,
           gs = IF k \in DOMAIN fs THEN [fs EXCEPT ![k].status = Status("Downloaded", e.req)] ELSE fs
    PROVE  FilesFit(gs, U, I) /\ DOMAIN gs = DOMAIN fs
<1>1. CASE k \notin DOMAIN fs
      BY <1>1
<1>2. CASE k \in DOMAIN fs
  <2>1. PICK r : r = e.req /\ r \in DOMAIN wish /\ k = <<wish[r].peer, wish[r].path>> /\ Received(r)
        BY DEF EventTrue
  <2>2. k \in Key /\ r \in Covering(k)
        BY <2>1, RootIs DEF Covering
  <2>3. PICK st : st = Status("Downloaded", r)
        OBVIOUS
  <2>4. st \in Statuses /\ StatusTrue(k, st, U)
        BY <2>1, <2>2, <2>3, ReceivedTrue
  <2>5. PICK x : x = fs[k] /\ Fits(k, x, U, I)
        BY <1>2, FitAt
  <2>6. PICK y : y = [x EXCEPT !.status = st]
        OBVIOUS
  <2>7. Fits(k, y, U, I) /\ y \in Entries
        BY <2>4, <2>5, <2>6, StatusSet DEF Fits
  <2>8. gs = [fs EXCEPT ![k] = y]
        BY <1>2, <2>1, <2>3, <2>5, <2>6
  <2> QED BY <1>2, <2>7, <2>8 DEF FilesFit
<1> QED BY <1>1, <1>2

-----------------------------------------------------------------------------
(* Steps of what is shown *)

LEMMA RequestsGrow ==
    ASSUME Truth, Next
    PROVE  /\ requests \subseteq requests' /\ requests' \subseteq {0, 1} \X Req /\ unsized \subseteq unsized'
           /\ RequestIds \subseteq RequestIds'
<1>1. requests \subseteq {0, 1} \X Req /\ WishTyped /\ RequestsTrue
      BY DEF Truth, Typed
<1>2. ASSUME NEW c \in clicks, DownloadAnswered(c) PROVE requests \subseteq requests' /\ requests' \subseteq {0, 1} \X Req
  <2>1. CASE c.answer = "error"
        BY <1>1, <1>2, <2>1 DEF DownloadAnswered
  <2>2. CASE c.answer # "error"
    <3>1. c \in Clicks /\ ClickTrue(c) /\ c.kind = "download" /\ c.answer = "ok"
          BY <1>2, <2>2 DEF DownloadAnswered, Truth, Typed, Clicks
    <3>2. c.req \in Req
          BY <1>1, <3>1, RootIs DEF ClickTrue
    <3>3. requests' \in {requests, requests \cup {<<0, c.req>>}}
          BY <1>2, <2>2 DEF DownloadAnswered
    <3> QED BY <1>1, <3>2, <3>3
  <2> QED BY <2>1, <2>2
<1>3. ASSUME NEW s \in snapshots, RequestsAnswered(s) PROVE requests \subseteq requests' /\ requests' \subseteq {0, 1} \X Req
  <2>1. s.rows \subseteq Lines
        BY DEF Truth, Typed, Snapshots
  <2>2. \A row \in s.rows : row.req \in Req
        BY <2>1 DEF Lines
  <2>3. requests' = requests \cup {<<1, row.req>> : row \in s.rows}
        BY <1>3 DEF RequestsAnswered
  <2> QED BY <1>1, <2>2, <2>3
<1>4. requests \subseteq requests' /\ requests' \subseteq {0, 1} \X Req
      BY <1>1, <1>2, <1>3, RequestsFrame
<1>5. ASSUME NEW c \in clicks, DownloadAnswered(c) PROVE unsized \subseteq unsized'
      BY <1>5 DEF DownloadAnswered
<1>6. ASSUME NEW s \in snapshots, RequestsAnswered(s) PROVE unsized \subseteq unsized'
      BY <1>6 DEF RequestsAnswered
<1>7. ASSUME DownloadingDelivered PROVE unsized \subseteq unsized'
      BY <1>7 DEF DownloadingDelivered
<1>8. unsized \subseteq unsized'
      BY <1>5, <1>6, <1>7, UnsizedFrame
<1> QED BY <1>4, <1>8 DEF RequestIds

LEMMA EventNext ==
    ASSUME Truth, NEW kind, Delivered(kind)
    PROVE  \E e \in Events : /\ e = Head(events) /\ e.kind = kind /\ EventTrue(e) /\ events # <<>>
                             /\ events' = Tail(events) /\ e.peer \in Peer
<1>1. PICK e \in Events : e = Head(events) /\ e \in Range(events)
      BY RangeOfTail DEF Delivered, Truth, Typed
<1> QED BY <1>1 DEF Delivered, Truth, Events

LEMMA FilesSteps ==
    ASSUME Truth, Next
    PROVE  /\ DOMAIN files' \subseteq Key /\ files' \in [DOMAIN files' -> Entries] /\ FilesTrue'
           /\ \A k \in DOMAIN files' : files'[k].req \in RequestIds' \cup {0}
           /\ results' \subseteq DOMAIN files'
<1> DEFINE Goal == /\ DOMAIN files' \subseteq Key /\ files' \in [DOMAIN files' -> Entries] /\ FilesTrue'
                   /\ \A k \in DOMAIN files' : files'[k].req \in RequestIds' \cup {0}
                   /\ results' \subseteq DOMAIN files'
<1>1. /\ WishTyped /\ RequestsTrue /\ Further /\ WishTyped' /\ RequestsTrue'
      /\ RequestIds \subseteq RequestIds' /\ unsized \subseteq unsized'
      /\ results \subseteq DOMAIN files
      BY WishSteps, RequestsGrow DEF Truth, Typed, ListsShown
<1>2. ASSUME NEW gs, NEW U, NEW I, FilesFit(gs, U, I), files' = gs, U \subseteq unsized',
             I \subseteq RequestIds' \cup {0}, results' \subseteq DOMAIN gs
      PROVE  Goal
      BY <1>1, <1>2, FilesBecome
<1> DEFINE V == unsized'
           J == RequestIds' \cup {0}
<1>3. PICK U, I : U = V /\ I = J
      OBVIOUS
<1>4. FilesFit(files, U, I) /\ 0 \in I
  <2>1. PICK W, K : W = unsized /\ K = RequestIds \cup {0}
        OBVIOUS
  <2>2. FilesFit(files, W, K) /\ W \subseteq U /\ K \subseteq I
        BY <1>1, <1>3, <2>1, FitNow
  <2>3. FilesFit(files, U, I)
        BY <2>2, FitMore
  <2> QED BY <1>3, <2>3
<1>5. ASSUME NEW gs, FilesFit(gs, U, I), files' = gs, results' \subseteq DOMAIN gs PROVE Goal
      BY <1>2, <1>3, <1>5
<1> SUFFICES Goal
    OBVIOUS
<1> HIDE DEF Goal
<1>6. ASSUME NEW p, ForgetPeer(p) PROVE Goal
  <2>1. PICK gs : gs = WithoutPeer(files, p)
        OBVIOUS
  <2>2. FilesFit(gs, U, I) /\ DOMAIN gs = {k \in DOMAIN files : k[1] # p}
        BY <1>4, <2>1, WithoutFits
  <2>3. files' = gs /\ results' = {k \in results : k[1] # p}
        BY <1>6, <2>1 DEF ForgetPeer
  <2> QED BY <1>1, <1>5, <2>2, <2>3
<1>7. CASE UNCHANGED files /\ (UNCHANGED results \/ results' = {})
      BY <1>1, <1>4, <1>5, <1>7
<1>8. ASSUME NEW c \in clicks, DisconnectAnswered(c) PROVE Goal
  <2>1. CASE c.answer = "ok"
        BY <1>6, <1>8, <2>1 DEF DisconnectAnswered
  <2>2. CASE c.answer # "ok"
        BY <1>7, <1>8, <2>2 DEF DisconnectAnswered
  <2> QED BY <2>1, <2>2
<1>9. CASE DisconnectedDelivered
      BY <1>6, <1>9 DEF DisconnectedDelivered
<1>10. ASSUME NEW c \in clicks, DownloadAnswered(c) PROVE Goal
  <2>1. CASE c.answer = "error"
        BY <1>7, <1>10, <2>1 DEF DownloadAnswered
  <2>2. CASE c.answer # "error"
    <3>1. c \in Clicks /\ ClickTrue(c) /\ c.kind = "download" /\ c.answer = "ok"
          BY <1>10, <2>2 DEF DownloadAnswered, Truth, Typed, Clicks
    <3>2. PICK r, p, path : r = c.req /\ p = c.peer /\ path = c.path
          OBVIOUS
    <3>3. r \in DOMAIN wish /\ p = wish[r].peer /\ path = wish[r].path
          BY <3>1, <3>2 DEF ClickTrue
    <3>4. PICK hs : hs = SetRequest(files, <<p, path>>, r, Entry(Unknown, Status("Requested", r), r))
          OBVIOUS
    <3>5. PICK gs : gs = Over([k \in Marked(hs, p, path) |-> [hs[k] EXCEPT !.status = Status("Requested", r)]], hs)
          OBVIOUS
    <3>6. files' = gs /\ UNCHANGED results
          BY <1>10, <2>2, <3>2, <3>4, <3>5 DEF DownloadAnswered
    <3>7. hs[<<p, path>>].size = Unknown => r \in U
          BY <1>3, <1>10, <2>2, <3>2, <3>4 DEF DownloadAnswered
    <3>8. r \in I
      <4>1. \/ r \in RequestIds /\ requests' = requests
            \/ requests' = requests \cup {<<0, r>>}
            BY <1>10, <2>2, <3>2 DEF DownloadAnswered
      <4>2. \/ r \in RequestIds
            \/ <<0, r>> \in requests' /\ <<0, r>>[2] = r
            BY <4>1
      <4>3. r \in RequestIds'
            BY <1>1, <4>2 DEF RequestIds
      <4> QED BY <1>3, <4>3
    <3>9. FilesFit(gs, U, I) /\ DOMAIN files \subseteq DOMAIN gs
          BY <1>1, <1>4, <3>3, <3>4, <3>5, <3>7, <3>8, RequestedFits
    <3> QED BY <1>1, <1>5, <3>6, <3>9
  <2> QED BY <2>1, <2>2
<1>11. ASSUME NEW l \in listings, ListingItem(l) PROVE Goal
  <2>1. l \in Listings /\ l.found \in SUBSET Key
        BY DEF Truth, Typed, Listings
  <2>2. PICK F, gs : F = l.found /\ gs = files'
        OBVIOUS
  <2>3. \/ gs = Over(files, [k \in F |-> Insert(k)])
        \/ gs = Over([k \in F |-> Found(files, k)], files)
        BY <1>11, <2>2 DEF ListingItem
  <2>4. FilesFit(gs, U, I) /\ DOMAIN gs = F \cup DOMAIN files
        BY <1>4, <2>1, <2>2, <2>3, FoundFits
  <2>5. results' = results \/ results' = results \cup F
        BY <1>11, <2>2 DEF ListingItem
  <2> QED BY <1>1, <1>5, <2>2, <2>4, <2>5
<1>12. ASSUME NEW s \in snapshots, RequestsAnswered(s) PROVE Goal
  <2>1. /\ s.req = 0 /\ s.rows \in SUBSET Lines /\ UNCHANGED results
        /\ \A row \in s.rows : RowTrue(s, row)
        BY <1>12 DEF RequestsAnswered, Truth, Typed, Snapshots, SnapshotTrue
  <2>2. PICK rows, gs : rows = s.rows /\ gs = RequestsShown(files, rows)
        OBVIOUS
  <2>3. PICK W : W = U \cup {row.req : row \in {x \in rows : \A root \in {<<wish[x.req].peer, x.path>>} :
                          root \in DOMAIN files /\ files[root].size = Unknown}}
        OBVIOUS
  <2>4. PICK K : K = I \cup {row.req : row \in rows}
        OBVIOUS
  <2>5. FilesFit(files, W, K) /\ rows \in SUBSET Lines
    <3>1. U \subseteq W /\ I \subseteq K
          BY <2>3, <2>4
    <3> QED BY <1>4, <2>1, <2>2, <3>1, FitMore
  <2>6. \A row \in rows :
             /\ row.req \in DOMAIN wish /\ row.path = wish[row.req].path /\ row.req \in K
             /\ row.done => Received(row.req)
        BY <2>1, <2>2, <2>4 DEF RowTrue
  <2>7. \A row \in rows : \A root \in {<<wish[row.req].peer, row.path>>} :
             root \in DOMAIN files /\ files[root].size = Unknown => row.req \in W
        BY <2>3
  <2>8. /\ FilesFit(gs, W, K) /\ Advances(files, gs)
        /\ \A row \in rows : <<wish[row.req].peer, row.path>> \in DOMAIN gs
        BY <1>1, <2>2, <2>5, <2>6, <2>7, RowsFit
  <2>9. files' = gs
        BY <1>12, <2>2 DEF RequestsAnswered
  <2>10. unsized' = unsized \cup {row.req : row \in {x \in rows : gs[<<wish[x.req].peer, x.path>>].size = Unknown}}
         BY <1>12, <2>2, <2>9 DEF RequestsAnswered
  <2>11. W \subseteq unsized'
    <3>1. ASSUME NEW row \in rows, \A root \in {<<wish[row.req].peer, row.path>>} :
                      root \in DOMAIN files /\ files[root].size = Unknown
          PROVE  row.req \in unsized'
      <4>1. gs[<<wish[row.req].peer, row.path>>].size = Unknown
            BY <2>8, <3>1 DEF Advances
      <4> QED BY <2>10, <4>1
    <3> QED BY <1>3, <2>3, <3>1
  <2>12. K \subseteq RequestIds' \cup {0}
    <3>1. requests' = requests \cup {<<1, row.req>> : row \in rows}
          BY <1>12, <2>2 DEF RequestsAnswered
    <3>2. \A row \in rows : <<1, row.req>> \in requests' /\ <<1, row.req>>[2] = row.req
          BY <3>1
    <3>3. \A row \in rows : row.req \in RequestIds'
          BY <3>2 DEF RequestIds
    <3> QED BY <1>3, <2>4, <3>3
  <2>13. results' \subseteq DOMAIN gs
         BY <1>1, <2>1, <2>8 DEF Advances
  <2> QED BY <1>2, <2>8, <2>9, <2>11, <2>12, <2>13
<1>13. ASSUME NEW s \in snapshots, RequestedFilesAnswered(s) PROVE Goal
  <2>1. /\ s.req # 0 /\ s.rows \in SUBSET Lines /\ UNCHANGED results /\ s.req \in DOMAIN wish
        /\ \A row \in s.rows : RowTrue(s, row)
        BY <1>13 DEF RequestedFilesAnswered, Truth, Typed, Snapshots, SnapshotTrue
  <2>2. PICK rows, r : rows = s.rows /\ r = s.req
        OBVIOUS
  <2>3. PICK h : h = [k \in {<<wish[r].peer, row.path>> : row \in rows} |->
                         RequestedFile(files, k, CHOOSE row \in rows : row.path = k[2])]
        OBVIOUS
  <2>4. PICK gs : gs = Over(h, files)
        OBVIOUS
  <2>5. files' = gs
        BY <1>13, <2>2, <2>3, <2>4 DEF RequestedFilesAnswered
  <2>6. RowsSay(r, rows)
        BY <2>1, <2>2 DEF RowTrue, RowsSay
  <2>7. FilesFit(gs, U, I) /\ DOMAIN files \subseteq DOMAIN gs
    <3>1. PICK fs : fs = files
          OBVIOUS
    <3>2. FilesFit(fs, U, I) /\ 0 \in I /\ r \in DOMAIN wish /\ rows \in SUBSET Lines
          BY <1>4, <2>1, <2>2, <3>1
    <3>3. RowsShown(fs, r, rows, gs)
      <4>1. h = [k \in {<<wish[r].peer, row.path>> : row \in rows} |->
                         RequestedFile(fs, k, CHOOSE row \in rows : row.path = k[2])]
            BY <2>3, <3>1
      <4>2. gs = Over(h, fs)
            BY <2>4, <3>1
      <4> QED BY <4>1, <4>2 DEF RowsShown
    <3>4. WishTyped /\ RequestsTrue
          BY <1>1
    <3>5. FilesFit(gs, U, I) /\ DOMAIN fs \subseteq DOMAIN gs
          BY <2>6, <3>2, <3>3, <3>4, RequestedFilesFit
    <3> QED BY <3>1, <3>5
  <2> QED BY <1>1, <1>5, <2>1, <2>5, <2>7
<1>14. CASE DownloadingDelivered
  <2>1. PICK e \in Events : e = Head(events) /\ e.kind = "downloading" /\ EventTrue(e)
        BY <1>14, EventNext DEF DownloadingDelivered
  <2>2. PICK k, hs, gs : k = <<e.peer, e.path>> /\ hs = FileShown(files, e) /\ gs = RootShown(hs, e)
        OBVIOUS
  <2>3. /\ files' = gs /\ UNCHANGED results
        /\ hs[k].size = Unknown => e.req \in unsized'
        BY <1>14, <2>1, <2>2 DEF DownloadingDelivered
  <2>4. FilesFit(hs, U, I) /\ DOMAIN hs = DOMAIN files \cup {k}
    <3>1. PICK fs : fs = files
          OBVIOUS
    <3>2. FilesFit(fs, U, I) /\ 0 \in I /\ hs = FileShown(fs, e)
          BY <1>4, <2>2, <3>1
    <3>3. hs[k].size = Unknown => e.req \in U
          BY <1>3, <2>3
    <3>4. FilesFit(hs, U, I)
      <4>1. e \in Events /\ e.kind = "downloading" /\ EventTrue(e) /\ k = <<e.peer, e.path>>
            BY <2>1, <2>2
      <4>2. WishTyped /\ RequestsTrue
            BY <1>1
      <4> QED BY <3>2, <3>3, <4>1, <4>2, FileShownFits
    <3>5. DOMAIN hs = DOMAIN fs \cup {k}
          BY <2>1, <2>2, <3>2 DEF FileShown, With
    <3> QED BY <3>1, <3>4, <3>5
  <2>5. FilesFit(gs, U, I) /\ DOMAIN gs = DOMAIN hs
        BY <1>1, <2>1, <2>2, <2>4, RootShownFits
  <2> QED BY <1>1, <1>5, <2>3, <2>4, <2>5
<1>15. CASE CompletedDelivered
  <2>1. PICK e \in Events : e = Head(events) /\ e.kind = "completed" /\ EventTrue(e)
        BY <1>15, EventNext DEF CompletedDelivered
  <2>2. PICK k : k = <<e.peer, e.path>>
        OBVIOUS
  <2>3. PICK gs : gs = IF k \in DOMAIN files THEN [files EXCEPT ![k].status = Status("Downloaded", e.req)] ELSE files
        OBVIOUS
  <2>4. files' = gs /\ UNCHANGED results
        BY <1>15, <2>1, <2>2, <2>3 DEF CompletedDelivered
  <2>5. FilesFit(gs, U, I) /\ DOMAIN gs = DOMAIN files
        BY <1>1, <1>4, <2>1, <2>2, <2>3, CompletedFits
  <2> QED BY <1>1, <1>5, <2>4, <2>5
<1>16. CASE UNCHANGED files /\ ~ UNCHANGED results /\ \E l \in listings : ListingAnswered(l)
  <2>1. results' = {}
        BY <1>16 DEF ListingAnswered
  <2> QED BY <1>7, <1>16, <2>1
<1>17. Goal
       BY <1>7, <1>8, <1>9, <1>10, <1>11, <1>12, <1>13, <1>14, <1>15, <1>16, FilesFrame, ResultsFrame
<1> QED BY <1>17
-----------------------------------------------------------------------------
(* Truth is an invariant *)

LEMMA TableSteps ==
    ASSUME Truth, Next
    PROVE  listed' \subseteq Peer /\ closing' \subseteq listed' /\ dialling' \subseteq Peer /\ waiting' \subseteq Peer
<1> DEFINE Goal == listed' \subseteq Peer /\ closing' \subseteq listed' /\ dialling' \subseteq Peer /\ waiting' \subseteq Peer
<1>1. listed \subseteq Peer /\ closing \subseteq listed /\ dialling \subseteq Peer /\ waiting \subseteq Peer
      BY DEF Truth, Typed
<1>2. ASSUME NEW c \in clicks, ServeConnect(c) PROVE Goal
  <2>1. c.peer \in Peer
        BY <1>2 DEF ServeConnect, Truth, ClickTrue
  <2> QED BY <1>1, <1>2, <2>1 DEF ServeConnect
<1>3. ASSUME NEW c \in clicks, ServeDisconnect(c) PROVE Goal
      BY <1>1, <1>3 DEF ServeDisconnect
<1>4. ASSUME NEW p \in Peer, DialEnds(p) PROVE Goal
      BY <1>1, <1>4 DEF DialEnds
<1>5. ASSUME NEW p \in Peer, PeerConnects(p) PROVE Goal
      BY <1>1, <1>5 DEF PeerConnects
<1>6. ASSUME NEW p \in Peer, ConnectionLost(p) PROVE Goal
      BY <1>1, <1>6 DEF ConnectionLost
<1>7. ASSUME NEW p \in Peer, Teardown(p) PROVE Goal
      BY <1>1, <1>7 DEF Teardown
<1>8. ASSUME UNCHANGED <<listed, closing, dialling, waiting>> PROVE Goal
      BY <1>1, <1>8
<1> HIDE DEF Goal
<1>9. Goal
      BY <1>2, <1>3, <1>4, <1>5, <1>6, <1>7, <1>8, TableFrame
<1> QED BY <1>9 DEF Goal

LEMMA MineSteps ==
    ASSUME Truth, Next
    PROVE  mine' \subseteq DOMAIN Tree[Self]
<1>1. mine \subseteq DOMAIN Tree[Self]
      BY DEF Truth, Typed
<1>2. ASSUME NEW c \in clicks, ServeShare(c) PROVE mine' \subseteq DOMAIN Tree[Self]
      BY <1>1, <1>2 DEF ServeShare, Truth, ClickTrue
<1> QED BY <1>1, <1>2, MineFrame

LEMMA PeersSteps ==
    ASSUME Truth, Next
    PROVE  peers' \subseteq Peer /\ pending' \subseteq Peer
<1> DEFINE Goal == peers' \subseteq Peer /\ pending' \subseteq Peer
<1>1. peers \subseteq Peer /\ pending \subseteq Peer
      BY DEF Truth, Typed
<1>2. ASSUME NEW c \in clicks, ConnectAnswered(c) PROVE Goal
      BY <1>1, <1>2 DEF ConnectAnswered
<1>3. ASSUME NEW c \in clicks, DisconnectAnswered(c) PROVE Goal
      BY <1>1, <1>3 DEF DisconnectAnswered, ForgetPeer
<1>4. ASSUME NEW l \in listings, ListingItem(l) PROVE Goal
  <2>1. l.peer = Self \/ l.peer \in Peer
        BY <1>4, InterfaceAssumption DEF ListingItem, Truth, ListingTrue
  <2> QED BY <1>1, <1>4, <2>1 DEF ListingItem
<1>5. ASSUME ConnectedDelivered PROVE Goal
  <2>1. Head(events).peer \in Peer
        BY <1>5, EventNext DEF ConnectedDelivered
  <2> QED BY <1>1, <1>5, <2>1 DEF ConnectedDelivered
<1>6. ASSUME DisconnectedDelivered PROVE Goal
      BY <1>1, <1>6 DEF DisconnectedDelivered, ForgetPeer
<1>7. ASSUME FailedDelivered PROVE Goal
      BY <1>1, <1>7 DEF FailedDelivered
<1>8. ASSUME NEW p \in Peer, ClickConnect(p) PROVE Goal
      BY <1>1, <1>8 DEF ClickConnect, elsewhere
<1>9. ASSUME UNCHANGED <<peers, pending>> PROVE Goal
      BY <1>1, <1>9
<1> HIDE DEF Goal
<1>10. Goal
      BY <1>2, <1>3, <1>4, <1>5, <1>6, <1>7, <1>8, <1>9, PeersFrame
<1> QED BY <1>10 DEF Goal

LEMMA TruthStep ==
    ASSUME Truth, Next
    PROVE  Truth'
<1>1. Typed'
  <2>1. socket' \in BOOLEAN
        BY SocketFrame DEF Truth, Typed
  <2>2. results' \subseteq Key /\ DOMAIN files' \subseteq Key /\ files' \in [DOMAIN files' -> Entries]
        BY FilesSteps
  <2>3. requests' \subseteq {0, 1} \X Req
        BY RequestsGrow
  <2>4. events' \in Seq(Events) /\ Len(events') <= MaxQueue
        BY EventSteps
  <2> QED BY <2>1, <2>2, <2>3, <2>4, TableSteps, MineSteps, PeersSteps, WishSteps, WorkerSteps, ClickSteps,
             ListingSteps, SnapshotSteps DEF Typed
<1>2. ListsShown'
      BY FilesSteps DEF ListsShown
<1> QED BY <1>1, <1>2, WishSteps, WorkerSteps, EventSteps, ClickSteps, ListingSteps, SnapshotSteps, FilesSteps
        DEF Truth

LEMMA TruthStutter ==
    ASSUME Truth, UNCHANGED vars
    PROVE  Truth'
<1>1. Typed' /\ RequestsTrue' /\ ListsShown'
      BY DEF Truth, Typed, WishTyped, RequestsTrue, ListsShown, RequestIds, vars, backendVars, callVars, viewVars
<1>2. WorkersTrue'
      BY DEF Truth, WorkersTrue, WorkerTrue, Read, vars, backendVars
<1>3. (\A e \in Range(events) : EventTrue(e))'
      BY DEF Truth, EventTrue, Received, Read, vars, backendVars
<1>4. (\A c \in clicks : ClickTrue(c))' /\ (\A l \in listings : ListingTrue(l))'
      BY DEF Truth, ClickTrue, ListingTrue, vars, backendVars, callVars
<1>5. (\A s \in snapshots : SnapshotTrue(s))'
      BY DEF Truth, SnapshotTrue, RowTrue, Received, vars, backendVars, callVars
<1>6. FilesTrue'
      BY DEF Truth, FilesTrue, EntryTrue, SizeTrue, StatusTrue, RootOf, Covering, vars, backendVars, viewVars,
             historyVars
<1> QED BY <1>1, <1>2, <1>3, <1>4, <1>5, <1>6 DEF Truth

LEMMA TruthInit == Init => Truth
<1> SUFFICES ASSUME Init PROVE Truth
    OBVIOUS
<1>1. PICK s \in Sessions :
          /\ listed = s.listed /\ mine = s.mine /\ socket = s.open /\ left = s.left
          /\ wish = [r \in DOMAIN s.wish |-> NewRequest(s.wish[r][1], s.wish[r][2])]
      BY DEF Init
<1>2. /\ s.listed \subseteq Peer /\ s.mine \subseteq DOMAIN Tree[Self] /\ s.open \in BOOLEAN
      /\ s.wish \in Seq(Peer \X Path) /\ Len(s.wish) <= MaxReq
      /\ \A r \in DOMAIN s.wish : s.wish[r][2] \in DOMAIN Tree[s.wish[r][1]]
      BY InterfaceAssumption
<1>3. ASSUME NEW r \in DOMAIN wish
      PROVE  /\ wish[r] \in Wishes /\ wish[r].peer \in Peer /\ wish[r].path \in DOMAIN Tree[wish[r].peer]
             /\ DOMAIN wish[r].got = FilesOf(wish[r].peer, wish[r].path) /\ wish[r].done = {}
             /\ \A k \in DOMAIN wish[r].got : wish[r].got[k] <= Tree[wish[r].peer][k]
  <2>1. PICK p, path : p = s.wish[r][1] /\ path = s.wish[r][2]
        OBVIOUS
  <2>2. wish[r] = NewRequest(p, path) /\ p \in Peer /\ path \in DOMAIN Tree[p]
        BY <1>1, <1>2, <2>1
  <2> QED BY <2>2, NewIs
<1>4. DOMAIN wish = 1..Len(s.wish) /\ Len(s.wish) \in Nat
      BY <1>1, <1>2
<1>5. WishTyped
  <2>1. PICK n \in Nat : n = Len(s.wish)
        BY <1>4
  <2>2. wish \in [1..n -> Wishes]
        BY <1>1, <1>3, <1>4, <2>1
  <2>3. wish \in Seq(Wishes) /\ Len(wish) = n
        BY <2>2
  <2> QED BY <1>2, <2>1, <2>3 DEF WishTyped
<1>6. RequestsTrue
      BY <1>3 DEF RequestsTrue
<1>7. worker \in [Peer -> {None} \cup Workers] /\ WorkersTrue
      BY DEF Init, WorkersTrue
<1>8. events \in Seq(Events) /\ Len(events) <= MaxQueue /\ \A e \in Range(events) : EventTrue(e)
  <2>1. events = <<>>
        BY DEF Init
  <2>2. events \in Seq(Events) /\ Len(events) = 0 /\ Range(events) = {}
        BY <2>1, EmptySeq DEF Range
  <2> QED BY <2>2, InterfaceAssumption
<1>9. listings \subseteq Listings /\ \A l \in listings : ListingTrue(l)
  <2>1. Self \in DOMAIN Tree \cup {None} /\ None \in DOMAIN Tree \cup {None} /\ Root \in Path \cup {Root}
        BY InterfaceAssumption
  <2>2. Listing(Self, Root, FALSE) \in Listings /\ ListingTrue(Listing(Self, Root, FALSE))
        BY <2>1, ListingIs
  <2>3. Listing(None, Root, FALSE) \in Listings /\ ListingTrue(Listing(None, Root, FALSE))
        BY <2>1, ListingIs
  <2>4. listings = {Listing(Self, Root, FALSE), Listing(None, Root, FALSE)}
        BY DEF Init
  <2> QED BY <2>2, <2>3, <2>4
<1>10. snapshots \subseteq Snapshots /\ \A x \in snapshots : SnapshotTrue(x)
  <2>1. snapshots = {Snapshot(0)}
        BY DEF Init
  <2>2. Snapshot(0) \in Snapshots /\ Snapshot(0).req = 0 /\ Snapshot(0).rows = {}
        BY InterfaceAssumption DEF Snapshot, Snapshots
  <2> QED BY <2>1, <2>2 DEF SnapshotTrue
<1>11. DOMAIN files = {}
       BY DEF Init
<1>12. DOMAIN files \subseteq Key /\ files \in [DOMAIN files -> Entries] /\ FilesTrue /\ ListsShown
  <2>1. files = <<>> /\ results = {}
        BY DEF Init
  <2>2. files = [k \in {} |-> None]
        BY <2>1
  <2> QED BY <1>11, <2>1, <2>2 DEF FilesTrue, ListsShown
<1>13. Typed
       BY <1>1, <1>2, <1>5, <1>7, <1>8, <1>9, <1>10, <1>12 DEF Init, Typed
<1> QED BY <1>5, <1>6, <1>7, <1>8, <1>9, <1>10, <1>12, <1>13 DEF Init, Truth

LEMMA TruthAlways == Spec => []Truth
<1>1. Truth /\ [Next]_vars => Truth'
      BY TruthStep, TruthStutter
<1> QED BY <1>1, TruthInit, PTL DEF Spec

-----------------------------------------------------------------------------
(* What is shown *)

\* The type invariant: what the program and the interface keep has its form, no file is
\* received beyond its size, and a worker counts what there is of its file.
THEOREM TypeCorrect == Spec => []TypeOK
<1>1. ASSUME Truth PROVE TypeOK
  <2>1. ASSUME NEW r \in DOMAIN wish, NEW k \in DOMAIN wish[r].got
        PROVE  wish[r].got[k] \in 0..Tree[wish[r].peer][k]
    <3>1. wish[r].got[k] \in Nat /\ wish[r].got[k] <= Tree[wish[r].peer][k]
          BY <1>1, ReadIs DEF Truth, Typed, RequestsTrue
    <3>2. Tree[wish[r].peer][k] \in Nat
          BY <1>1, ReadIs, FilesAre, InterfaceAssumption DEF Truth, Typed
    <3> QED BY <3>1, <3>2
  <2>2. ASSUME NEW p \in Peer, worker[p] # None
        PROVE  worker[p].bytes + worker[p].since = wish[worker[p].req].got[worker[p].file]
        BY <1>1, <2>2 DEF Truth, WorkersTrue, WorkerTrue
  <2>3. ASSUME NEW k \in DOMAIN files
        PROVE  /\ files[k].size \in {Unknown} \cup Nat /\ files[k].req \in 0..MaxReq
               /\ files[k].status.kind \in {"Nothing", "Requested", "Downloading", "Downloaded"}
    <3>1. files[k] \in Entries /\ k \in Key
          BY <1>1 DEF Truth, Typed
    <3>2. files[k].size \in {Unknown, SizeAt(k)}
          BY <1>1 DEF Truth, FilesTrue, EntryTrue, SizeTrue
    <3> QED BY <3>1, <3>2, SizeKnown DEF Entries, Statuses, Kinds
  <2> QED BY <1>1, <2>1, <2>2, <2>3 DEF Truth, Typed, TypeOK
<1> QED BY <1>1, TruthAlways, PTL

\* Whatever a search has found is known as an entry, and every request an entry is the
\* root of is in the list of requests: answers and events that add to one add to the
\* other, and a peer that leaves is taken out of all.
THEOREM ListsCorrect == Spec => []ListsShown
<1>1. Truth => ListsShown
      BY DEF Truth
<1> QED BY <1>1, TruthAlways, PTL

\* What is shown as downloaded has been received in full, whatever the order in which
\* snapshots of the requests and events about them reach the interface.
THEOREM DownloadedCorrect == Spec => []ShownDownloadedIsReceived
<1>1. Truth => ShownDownloadedIsReceived
      BY DEF Truth, FilesTrue, EntryTrue, StatusTrue, ShownDownloadedIsReceived
<1> QED BY <1>1, TruthAlways, PTL

LEMMA ItemAdvances ==
    ASSUME Truth, NEW l \in listings, ListingItem(l)
    PROVE  \A x \in DOMAIN files : files'[x].status = files[x].status
<1>1. l.found \in SUBSET Key
      BY DEF Truth, Typed, Listings
<1>2. PICK F, gs, fs : F = l.found /\ gs = files' /\ fs = files
      OBVIOUS
<1>3. \/ gs = Over(fs, [x \in F |-> Insert(x)])
      \/ gs = Over([x \in F |-> Found(fs, x)], fs)
      BY <1>2 DEF ListingItem
<1>4. PICK U, I : FilesFit(fs, U, I) /\ 0 \in I
      BY <1>2, FitNow
<1>5. \A x \in DOMAIN fs : gs[x].status = fs[x].status
  <2>1. F \in SUBSET Key
        BY <1>1, <1>2
  <2>2. \A x \in DOMAIN fs : fs[x] \in Entries
        BY <1>4, FitAt
  <2>3. ASSUME NEW x \in DOMAIN fs, NEW y, y = fs[x] PROVE gs[x] = y \/ gs[x] = [y EXCEPT !.size = SizeAt(x)]
        BY <1>3, <2>3 DEF Over, Found
  <2>4. ASSUME NEW x \in DOMAIN fs PROVE gs[x].status = fs[x].status
    <3>1. PICK y \in Entries : y = fs[x]
          BY <2>2
    <3>2. CASE gs[x] = y
          BY <3>1, <3>2
    <3>3. CASE gs[x] = [y EXCEPT !.size = SizeAt(x)]
      <4>1. PICK z : z = SizeAt(x)
            OBVIOUS
      <4>2. [y EXCEPT !.size = z].status = y.status
            BY DEF Entries
      <4> QED BY <3>1, <3>3, <4>1, <4>2
    <3> QED BY <2>3, <3>1, <3>2, <3>3
  <2> QED BY <2>4
<1> QED BY <1>2, <1>5

LEMMA RequestedAdvances ==
    ASSUME Truth, NEW s \in snapshots, RequestedFilesAnswered(s)
    PROVE  \A x \in DOMAIN files :
               Cardinality(Covering(x)) = 1 => Rank[files[x].status.kind] <= Rank[files'[x].status.kind]
<1>1. /\ s.req # 0 /\ s.rows \in SUBSET Lines /\ s.req \in DOMAIN wish
      /\ \A row \in s.rows : RowTrue(s, row)
      BY DEF RequestedFilesAnswered, Truth, Typed, Snapshots, SnapshotTrue
<1>2. PICK rows, r, fs : rows = s.rows /\ r = s.req /\ fs = files
      OBVIOUS
<1>3. PICK h : h = [x \in {<<wish[r].peer, row.path>> : row \in rows} |->
                       RequestedFile(fs, x, CHOOSE row \in rows : row.path = x[2])]
      OBVIOUS
<1>4. PICK gs : gs = Over(h, fs) /\ RowsShown(fs, r, rows, gs)
      BY <1>3 DEF RowsShown
<1>5. files' = gs
      BY <1>2, <1>3, <1>4 DEF RequestedFilesAnswered
<1>6. RowsSay(r, rows)
      BY <1>1, <1>2 DEF RowTrue, RowsSay
<1>7. PICK U, I : FilesFit(fs, U, I) /\ 0 \in I
      BY <1>2, FitNow
<1>8. \A x \in DOMAIN fs :
          Cardinality(Covering(x)) = 1 => Rank[fs[x].status.kind] <= Rank[gs[x].status.kind]
  <2>1. WishTyped /\ RequestsTrue /\ r \in DOMAIN wish /\ rows \in SUBSET Lines
        BY <1>1, <1>2 DEF Truth, Typed
  <2>2. FilesFit(gs, U, I) /\ Higher(fs, gs)
        BY <1>4, <1>6, <1>7, <2>1, RequestedFilesFit
  <2> QED BY <2>2 DEF Higher
<1> QED BY <1>2, <1>5, <1>8

LEMMA RequestsAdvance ==
    ASSUME Truth, NEW s \in snapshots, RequestsAnswered(s)
    PROVE  Advances(files, files')
<1>1. WishTyped /\ RequestsTrue
      BY DEF Truth, Typed
<1>2. PICK U, I : U = unsized \cup Req /\ I = RequestIds \cup {0} \cup Req
      OBVIOUS
<1>3. FilesFit(files, U, I) /\ Req \subseteq U /\ Req \subseteq I
  <2>1. PICK W, K : W = unsized /\ K = RequestIds \cup {0}
        OBVIOUS
  <2>2. FilesFit(files, W, K) /\ W \subseteq U /\ K \subseteq I
        BY <1>2, <2>1, FitNow
  <2> QED BY <1>2, <2>2, FitMore
<1>4. /\ s.req = 0 /\ s.rows \in SUBSET Lines
      /\ \A row \in s.rows : RowTrue(s, row)
      BY DEF RequestsAnswered, Truth, Typed, Snapshots, SnapshotTrue
<1>5. PICK rows, gs : rows = s.rows /\ gs = RequestsShown(files, rows)
      OBVIOUS
<1>6. \A row \in rows :
           /\ row.req \in DOMAIN wish /\ row.path = wish[row.req].path /\ row.req \in I
           /\ row.done => Received(row.req)
           /\ \A root \in {<<wish[row.req].peer, row.path>>} :
                root \in DOMAIN files /\ files[root].size = Unknown => row.req \in U
  <2>1. \A row \in rows : row.req \in I /\ row.req \in U
        BY <1>3, <1>4, <1>5 DEF Lines
  <2> QED BY <1>4, <1>5, <2>1 DEF RowTrue
<1>7. rows \in SUBSET Lines
      BY <1>4, <1>5
<1>8. Advances(files, gs)
      BY <1>1, <1>3, <1>5, <1>6, <1>7, RowsFit
<1>9. files' = gs
      BY <1>5 DEF RequestsAnswered
<1> QED BY <1>8, <1>9

LEMMA AdvanceStep ==
    ASSUME Truth, Next, events' = events, clicks' = clicks,
           NEW k \in DOMAIN files \cap DOMAIN files', Cardinality(Covering(k)) = 1
    PROVE  Rank[files[k].status.kind] <= Rank[files'[k].status.kind]
<1> DEFINE Goal == Rank[files[k].status.kind] <= Rank[files'[k].status.kind]
<1>1. WishTyped /\ RequestsTrue
      BY DEF Truth, Typed
<1>2. PICK U, I : U = unsized \cup Req /\ I = RequestIds \cup {0} \cup Req
      OBVIOUS
<1>3. FilesFit(files, U, I) /\ 0 \in I /\ Req \subseteq U /\ Req \subseteq I
  <2>1. PICK W, K : W = unsized /\ K = RequestIds \cup {0}
        OBVIOUS
  <2>2. FilesFit(files, W, K) /\ W \subseteq U /\ K \subseteq I
        BY <1>2, <2>1, FitNow
  <2> QED BY <1>2, <2>2, FitMore
<1>4. ASSUME NEW kind, Delivered(kind) PROVE FALSE
  <2>1. events # <<>> /\ events \in Seq(Events) /\ events' = Tail(events)
        BY <1>4 DEF Delivered, Truth, Typed
  <2>2. Len(Tail(events)) = Len(events) - 1 /\ Len(events) \in Nat
        BY <2>1, RangeOfTail
  <2> QED BY <2>1, <2>2
<1>5. ASSUME UNCHANGED files PROVE Goal
  <2>1. Rank[files[k].status.kind] \in Nat
        BY <1>3, FitAt, RankIs DEF Entries
  <2> QED BY <1>5, <2>1
<1>6. ASSUME NEW l \in listings, ListingItem(l) PROVE Goal
  <2>1. Rank[files[k].status.kind] \in Nat
        BY <1>3, FitAt, RankIs DEF Entries
  <2> QED BY <1>6, <2>1, ItemAdvances
<1>7. ASSUME NEW s \in snapshots, RequestsAnswered(s) PROVE Goal
      BY <1>7, RequestsAdvance DEF Advances
<1>8. ASSUME NEW s \in snapshots, RequestedFilesAnswered(s) PROVE Goal
      BY <1>8, RequestedAdvances
<1>9. ASSUME NEW c \in clicks, DisconnectAnswered(c) \/ DownloadAnswered(c) PROVE FALSE
      BY <1>9 DEF DisconnectAnswered, DownloadAnswered
<1>10. ASSUME DisconnectedDelivered \/ DownloadingDelivered \/ CompletedDelivered PROVE FALSE
       BY <1>4, <1>10 DEF DisconnectedDelivered, DownloadingDelivered, CompletedDelivered
<1> HIDE DEF Goal
<1>11. Goal
       BY <1>5, <1>6, <1>7, <1>8, <1>9, <1>10, FilesFrame
<1> QED BY <1>11 DEF Goal

\* An answer about requests, which was true when it was made, never takes back what has
\* been shown of the same request since: it is merged, not put in its place.
THEOREM SnapshotsAdvance == Spec => SnapshotsOnlyAdvance
<1>1. Truth /\ [Next]_vars =>
        [events' = events /\ clicks' = clicks =>
           \A k \in DOMAIN files \cap DOMAIN files' :
              Cardinality(Covering(k)) = 1 =>
                  Rank[files[k].status.kind] <= Rank[files'[k].status.kind]]_vars
      BY AdvanceStep
<1> QED BY <1>1, TruthAlways, PTL DEF Spec, SnapshotsOnlyAdvance

-----------------------------------------------------------------------------
(* The order of events *)

\* What is sent says something about a peer; what is sent follows what is on its way.
Mentions(es, kind, p) == \E j \in DOMAIN es : es[j].kind = kind /\ es[j].peer = p
Follow(es) == (\E S : es \in Seq(S)) /\ events' = events \o es

LEMMA OneFollows ==
    ASSUME NEW e, events' = events \o <<e>>, NEW kind, NEW p
    PROVE  Follow(<<e>>) /\ (Mentions(<<e>>, kind, p) <=> e.kind = kind /\ e.peer = p)
<1>1. /\ <<e>> \in Seq({e}) /\ 1 \in DOMAIN <<e>> /\ <<e>>[1] = e
      /\ \A j \in DOMAIN <<e>> : <<e>>[j] = e
      OBVIOUS
<1>2. Follow(<<e>>)
      BY <1>1 DEF Follow
<1>3. Mentions(<<e>>, kind, p) <=> e.kind = kind /\ e.peer = p
      BY <1>1 DEF Mentions
<1> QED BY <1>2, <1>3

\* An event said later is still later when more follow, ...
LEMMA AfterMore ==
    ASSUME events \in Seq(Events), NEW es, Follow(es), NEW kind, NEW p, NEW n \in Nat
    PROVE  /\ After(kind, p, n) => After(kind, p, n)'
           /\ On(kind, p, n)' => On(kind, p, n) \/ Mentions(es, kind, p)
           /\ n <= Len(events) /\ Mentions(es, kind, p) => After(kind, p, n)'
<1>1. PICK S, T : es \in Seq(S) /\ T = Events \cup S
      BY DEF Follow
<1>2. events \in Seq(T) /\ es \in Seq(T)
      BY <1>1
<1>3. PICK fs : fs = events \o es
      OBVIOUS
<1>4. /\ fs \in Seq(T) /\ Len(fs) = Len(events) + Len(es)
      /\ \A i \in 1..Len(events) : fs[i] = events[i]
      /\ \A i \in 1..Len(es) : fs[Len(events) + i] = es[i]
      BY <1>2, <1>3, RangeOfMore
<1>5. /\ Len(events) \in Nat /\ Len(es) \in Nat /\ DOMAIN fs = 1..(Len(events) + Len(es))
      /\ DOMAIN events = 1..Len(events) /\ DOMAIN es = 1..Len(es)
      BY <1>2, <1>4
<1>6. events' = fs
      BY <1>3 DEF Follow
<1>7. \A j \in DOMAIN events : On(kind, p, j) => j \in DOMAIN events' /\ On(kind, p, j)'
      BY <1>4, <1>5, <1>6 DEF On
<1>8. After(kind, p, n) => After(kind, p, n)'
      BY <1>5, <1>7 DEF After
<1>9. On(kind, p, n)' => On(kind, p, n) \/ Mentions(es, kind, p)
  <2>1. SUFFICES ASSUME On(kind, p, n)', n \notin DOMAIN events
                 PROVE  Mentions(es, kind, p)
        BY <1>4, <1>5, <1>6 DEF On
  <2>2. n \in DOMAIN fs /\ fs[n].kind = kind /\ fs[n].peer = p
        BY <1>6, <2>1 DEF On
  <2>3. PICK j \in 1..Len(es) : n = Len(events) + j
    <3>1. n - Len(events) \in 1..Len(es) /\ n = Len(events) + (n - Len(events))
          BY <1>5, <2>1, <2>2
    <3> QED BY <3>1
  <2> QED BY <1>4, <1>5, <2>2, <2>3 DEF Mentions
<1>10. ASSUME n <= Len(events), NEW j \in DOMAIN es, es[j].kind = kind, es[j].peer = p PROVE After(kind, p, n)'
  <2>1. PICK i : i = Len(events) + j
        OBVIOUS
  <2>2. i \in DOMAIN fs /\ i > n /\ fs[i] = es[j]
        BY <1>4, <1>5, <1>10, <2>1
  <2>3. i \in DOMAIN events' /\ On(kind, p, i)'
        BY <1>6, <1>10, <2>2 DEF On
  <2> QED BY <2>2, <2>3 DEF After
<1>11. n <= Len(events) /\ Mentions(es, kind, p) => After(kind, p, n)'
       BY <1>10 DEF Mentions
<1> QED BY <1>8, <1>9, <1>11

\* ... and when the first is taken.
LEMMA AfterTail ==
    ASSUME events \in Seq(Events), events # <<>>, events' = Tail(events), NEW kind, NEW p, NEW n \in Nat
    PROVE  /\ After(kind, p, n + 1) => After(kind, p, n)'
           /\ n # 0 => (On(kind, p, n)' <=> On(kind, p, n + 1))
           /\ ~ On(kind, p, 0)'
           /\ After(kind, p, 0) => After(kind, p, 0)' \/ On(kind, p, 1)
           /\ On(kind, p, 1) <=> Head(events).kind = kind /\ Head(events).peer = p
<1>1. PICK fs : fs = Tail(events)
      OBVIOUS
<1>2. /\ fs \in Seq(Events) /\ Len(fs) = Len(events) - 1 /\ Head(events) = events[1]
      /\ \A i \in 1..(Len(events) - 1) : fs[i] = events[i + 1]
      BY <1>1, RangeOfTail
<1>3. Len(events) \in Nat /\ Len(events) # 0 /\ DOMAIN events = 1..Len(events) /\ DOMAIN fs = 1..(Len(events) - 1)
      BY <1>2
<1>4. events' = fs
      BY <1>1
<1>5. \A i \in Nat : i # 0 => (On(kind, p, i)' <=> On(kind, p, i + 1))
      BY <1>2, <1>3, <1>4 DEF On
<1>6. ASSUME NEW m \in Nat, NEW j \in DOMAIN events, j > m + 1, On(kind, p, j) PROVE After(kind, p, m)'
  <2>1. PICK i \in Nat : j = i + 1 /\ i # 0 /\ i > m
    <3>1. j - 1 \in Nat /\ j = (j - 1) + 1 /\ j - 1 # 0 /\ j - 1 > m
          BY <1>3, <1>6
    <3> QED BY <3>1
  <2>2. On(kind, p, i)'
        BY <1>5, <1>6, <2>1
  <2>3. i \in DOMAIN events'
        BY <2>2 DEF On
  <2> QED BY <2>1, <2>2, <2>3 DEF After
<1>7. After(kind, p, n + 1) => After(kind, p, n)'
      BY <1>6 DEF After
<1>8. ASSUME After(kind, p, 0), ~ On(kind, p, 1) PROVE After(kind, p, 0)'
  <2>1. PICK j \in DOMAIN events : j > 0 /\ On(kind, p, j)
        BY <1>8 DEF After
  <2>2. j # 1
        BY <1>8, <2>1
  <2>3. j > 0 + 1
        BY <1>3, <2>1, <2>2
  <2> QED BY <1>6, <2>1, <2>3
<1>9. ~ On(kind, p, 0)'
      BY <1>3, <1>4 DEF On
<1>10. On(kind, p, 1) <=> Head(events).kind = kind /\ Head(events).peer = p
       BY <1>2, <1>3 DEF On
<1> QED BY <1>5, <1>7, <1>8, <1>9, <1>10

\* A step leaves events and table alone, takes the first event, or adds events: one about
\* the peer it puts in or out of the table, or some that are not about the table.
TableKinds == {"connected", "disconnected"}
Taken ==
    /\ events # <<>> /\ events' = Tail(events)
    /\ ConnectedDelivered \/ DisconnectedDelivered \/ FailedDelivered \/ DownloadingDelivered \/ CompletedDelivered
Moved ==
    \/ UNCHANGED events /\ listed' = listed
    \/ listed' = listed /\ Taken
    \/ \E p \in Peer : listed' = listed \cup {p} /\ events' = events \o <<PeerEvent("connected", p)>>
    \/ \E p \in Peer : listed' = listed \ {p} /\ events' = events \o <<PeerEvent("disconnected", p)>>
    \/ listed' = listed /\ \E S : \E es \in Seq(S) : events' = events \o es /\ \A e \in S : e.kind \notin TableKinds

LEMMA OthersMove ==
    ASSUME NEW S, NEW es \in Seq(S), events' = events \o es, listed' = listed, \A e \in S : e.kind \notin TableKinds
    PROVE  Moved
BY DEF Moved

LEMMA Said == ASSUME NEW es, SendAll(es), ~ missed' PROVE events' = events \o es
BY DEF SendAll

LEMMA EventsGo ==
    ASSUME Truth, Next, ~ missed'
    PROVE  Moved
<1>1. ASSUME NEW p \in Peer, DialEnds(p) PROVE Moved
  <2>1. CASE listed' = listed \cup {p} /\ SendAll(<<PeerEvent("connected", p)>>)
    <3>1. events' = events \o <<PeerEvent("connected", p)>>
          BY <2>1, Said
    <3> QED BY <2>1, <3>1 DEF Moved
  <2>2. CASE UNCHANGED <<listed, events>>
        BY <2>2 DEF Moved
  <2>3. CASE UNCHANGED listed /\ SendAll(<<PeerEvent("failed", p)>>)
    <3>1. PICK e : e = PeerEvent("failed", p) /\ e.kind = "failed"
          BY PeerEventIs
    <3>2. <<e>> \in Seq({e}) /\ events' = events \o <<e>>
      <4>1. SendAll(<<e>>)
            BY <2>3, <3>1
      <4> QED BY <4>1, Said
    <3>3. \A x \in {e} : x.kind \notin TableKinds
          BY <3>1 DEF TableKinds
    <3> QED BY <2>3, <3>2, <3>3, OthersMove
  <2> QED BY <1>1, <2>1, <2>2, <2>3 DEF DialEnds
<1>2. ASSUME NEW p \in Peer, PeerConnects(p) PROVE Moved
  <2>1. SendAll(<<PeerEvent("connected", p)>>) /\ listed' = listed \cup {p}
        BY <1>2 DEF PeerConnects
  <2>2. events' = events \o <<PeerEvent("connected", p)>>
        BY <2>1, Said
  <2> QED BY <2>1, <2>2 DEF Moved
<1>3. ASSUME NEW p \in Peer, Teardown(p) PROVE Moved
  <2>1. SendAll(<<PeerEvent("disconnected", p)>>) /\ listed' = listed \ {p}
        BY <1>3 DEF Teardown
  <2>2. events' = events \o <<PeerEvent("disconnected", p)>>
        BY <2>1, Said
  <2> QED BY <2>1, <2>2 DEF Moved
<1>4. ASSUME NEW p \in Peer, ReceiveBlock(p) PROVE Moved
  <2>1. PICK w, v : w = [worker[p] EXCEPT !.since = @ + 1] /\ v = Reported(w)
        OBVIOUS
  <2>2. listed' = listed /\ (UNCHANGED events \/ SendAll(<<Download(p, v)>>))
        BY <1>4, <2>1 DEF ReceiveBlock
  <2>3. PICK e : e = Download(p, v) /\ e.kind = "downloading"
    <3>1. Download(p, v).kind = "downloading"
          BY DEF Download, Event
    <3> QED BY <3>1
  <2>4. \A x \in {e} : x.kind \notin TableKinds
        BY <2>3 DEF TableKinds
  <2>5. <<e>> \in Seq({e}) /\ (UNCHANGED events \/ events' = events \o <<e>>)
    <3>1. UNCHANGED events \/ SendAll(<<e>>)
          BY <2>2, <2>3
    <3>2. SendAll(<<e>>) => events' = events \o <<e>>
          BY Said
    <3> QED BY <3>1, <3>2
  <2>6. CASE UNCHANGED events
        BY <2>2, <2>6 DEF Moved
  <2>7. CASE events' = events \o <<e>>
        BY <2>2, <2>4, <2>5, <2>7, OthersMove
  <2> QED BY <2>5, <2>6, <2>7
<1>5. ASSUME NEW p \in Peer, FileEnds(p) PROVE Moved
  <2>1. PICK w : w = worker[p]
        OBVIOUS
  <2>2. PICK e : e = LastReport(p, w) /\ e.kind = "downloading"
    <3>1. LastReport(p, w).kind = "downloading"
          BY DEF LastReport, Download, Event
    <3> QED BY <3>1
  <2>3. PICK d : d = Event("completed", p, w.req, wish[w.req].path, 0, 0) /\ d.kind = "completed"
    <3>1. Event("completed", p, w.req, wish[w.req].path, 0, 0).kind = "completed"
          BY DEF Event
    <3> QED BY <3>1
  <2>4. \A x \in {e, d} : x.kind \notin TableKinds
        BY <2>2, <2>3 DEF TableKinds
  <2>5. PICK es : es = Completed(p, w)
        OBVIOUS
  <2>6. es \in {<<>>, <<d>>}
        BY <2>3, <2>5 DEF Completed
  <2>7. listed' = listed /\ (SendAll(<<e>>) \/ SendAll(<<e>> \o es))
        BY <1>5, <2>1, <2>2, <2>5 DEF FileEnds
  <2>8. <<e>> \in Seq({e, d}) /\ <<e>> \o es \in Seq({e, d})
    <3>1. <<e>> \in Seq({e, d}) /\ <<d>> \in Seq({e, d}) /\ <<>> \in Seq({e, d})
          BY EmptySeq
    <3>2. es \in Seq({e, d})
          BY <2>6, <3>1
    <3> QED BY <3>1, <3>2, RangeOfMore
  <2>9. events' = events \o <<e>> \/ events' = events \o (<<e>> \o es)
        BY <2>7, Said
  <2>10. CASE events' = events \o <<e>>
         BY <2>4, <2>7, <2>8, <2>10, OthersMove
  <2>11. CASE events' = events \o (<<e>> \o es)
         BY <2>4, <2>7, <2>8, <2>11, OthersMove
  <2> QED BY <2>9, <2>10, <2>11
<1>6. ASSUME SocketCloses PROVE FALSE
      BY <1>6 DEF SocketCloses
<1>7. ASSUME ConnectedDelivered \/ DisconnectedDelivered \/ FailedDelivered
             \/ DownloadingDelivered \/ CompletedDelivered
      PROVE  Moved
  <2>1. events # <<>> /\ events' = Tail(events)
        BY <1>7 DEF ConnectedDelivered, DisconnectedDelivered, FailedDelivered, DownloadingDelivered,
            CompletedDelivered, Delivered
  <2>2. listed' = listed
        BY <1>7 DEF ConnectedDelivered, DisconnectedDelivered, FailedDelivered, DownloadingDelivered,
            CompletedDelivered, programVars, backendVars
  <2> QED BY <1>7, <2>1, <2>2 DEF Moved, Taken
<1>8. ASSUME UNCHANGED events PROVE Moved
  <2>1. ASSUME NEW c \in clicks, ServeConnect(c) \/ ServeDisconnect(c) PROVE Moved
        BY <1>8, <2>1 DEF ServeConnect, ServeDisconnect, Moved
  <2>2. ASSUME NEW p \in Peer, ConnectionLost(p) PROVE Moved
        BY <1>8, <2>2 DEF ConnectionLost, Moved
  <2>3. ASSUME UNCHANGED listed PROVE Moved
        BY <1>8, <2>3 DEF Moved
  <2> QED BY <1>1, <1>2, <1>3, <2>1, <2>2, <2>3, TableFrame
<1> QED BY <1>1, <1>2, <1>3, <1>4, <1>5, <1>6, <1>7, <1>8, EventsFrame

LEMMA EventsAgreeStep ==
    ASSUME Truth, Next, ~ missed', EventsAgree
    PROVE  EventsAgree'
<1> SUFFICES ASSUME NEW p \in Peer, NEW i \in DOMAIN events'
             PROVE  /\ On("disconnected", p, i)' /\ p \in listed' => After("connected", p, i)'
                    /\ On("connected", p, i)' /\ p \notin listed' => After("disconnected", p, i)'
    BY DEF EventsAgree
<1> DEFINE Goal == /\ On("disconnected", p, i)' /\ p \in listed' => After("connected", p, i)'
                   /\ On("connected", p, i)' /\ p \notin listed' => After("disconnected", p, i)'
<1>1. events \in Seq(Events) /\ Len(events) \in Nat /\ DOMAIN events = 1..Len(events)
      /\ i \in Nat /\ i # 0 /\ i + 1 \in Nat
  <2>1. events' \in Seq(Events)
        BY EventSteps
  <2> QED BY <2>1 DEF Truth, Typed
<1>2. /\ On("disconnected", p, i) /\ p \in listed => After("connected", p, i)
      /\ On("connected", p, i) /\ p \notin listed => After("disconnected", p, i)
      /\ On("disconnected", p, i + 1) /\ p \in listed => After("connected", p, i + 1)
      /\ On("connected", p, i + 1) /\ p \notin listed => After("disconnected", p, i + 1)
      BY DEF EventsAgree, On, After
<1>3. ASSUME On("connected", p, i)' => On("connected", p, i), On("disconnected", p, i)' => On("disconnected", p, i),
             After("connected", p, i) => After("connected", p, i)',
             After("disconnected", p, i) => After("disconnected", p, i)',
             p \in listed' <=> p \in listed
      PROVE  Goal
      BY <1>1, <1>2, <1>3
<1>4. ASSUME UNCHANGED events, listed' = listed PROVE Goal
  <2>1. /\ On("connected", p, i)' <=> On("connected", p, i)
        /\ On("disconnected", p, i)' <=> On("disconnected", p, i)
        BY <1>4 DEF On
  <2>2. /\ After("connected", p, i)' <=> After("connected", p, i)
        /\ After("disconnected", p, i)' <=> After("disconnected", p, i)
        BY <1>4 DEF On, After
  <2> QED BY <1>3, <1>4, <2>1, <2>2
<1>5. ASSUME events # <<>>, events' = Tail(events), listed' = listed PROVE Goal
  <2>1. /\ On("connected", p, i)' => On("connected", p, i + 1)
        /\ After("connected", p, i + 1) => After("connected", p, i)'
        BY <1>1, <1>5, AfterTail
  <2>2. /\ On("disconnected", p, i)' => On("disconnected", p, i + 1)
        /\ After("disconnected", p, i + 1) => After("disconnected", p, i)'
        BY <1>1, <1>5, AfterTail
  <2> QED BY <1>1, <1>2, <1>5, <2>1, <2>2
<1>6. ASSUME NEW es, Follow(es), p \in listed' <=> p \in listed,
             ~ Mentions(es, "connected", p), ~ Mentions(es, "disconnected", p)
      PROVE  Goal
  <2>1. /\ On("connected", p, i)' => On("connected", p, i)
        /\ After("connected", p, i) => After("connected", p, i)'
        BY <1>1, <1>6, AfterMore
  <2>2. /\ On("disconnected", p, i)' => On("disconnected", p, i)
        /\ After("disconnected", p, i) => After("disconnected", p, i)'
        BY <1>1, <1>6, AfterMore
  <2> QED BY <1>3, <1>6, <2>1, <2>2
<1>7. ASSUME NEW e, events' = events \o <<e>>, e.peer = p, e.kind = "connected", p \in listed'
      PROVE  Goal
  <2>1. Follow(<<e>>) /\ Mentions(<<e>>, "connected", p) /\ ~ Mentions(<<e>>, "disconnected", p)
        BY <1>7, OneFollows
  <2>2. On("disconnected", p, i)' => On("disconnected", p, i)
        BY <1>1, <2>1, AfterMore
  <2>3. i <= Len(events) => After("connected", p, i)'
        BY <1>1, <2>1, AfterMore
  <2>4. On("disconnected", p, i) => i <= Len(events)
        BY <1>1 DEF On
  <2> QED BY <1>7, <2>2, <2>3, <2>4
<1>8. ASSUME NEW e, events' = events \o <<e>>, e.peer = p, e.kind = "disconnected", p \notin listed'
      PROVE  Goal
  <2>1. Follow(<<e>>) /\ Mentions(<<e>>, "disconnected", p) /\ ~ Mentions(<<e>>, "connected", p)
        BY <1>8, OneFollows
  <2>2. On("connected", p, i)' => On("connected", p, i)
        BY <1>1, <2>1, AfterMore
  <2>3. i <= Len(events) => After("disconnected", p, i)'
        BY <1>1, <2>1, AfterMore
  <2>4. On("connected", p, i) => i <= Len(events)
        BY <1>1 DEF On
  <2> QED BY <1>8, <2>2, <2>3, <2>4
<1>9. ASSUME NEW q \in Peer, listed' = listed \cup {q}, events' = events \o <<PeerEvent("connected", q)>> PROVE Goal
  <2>1. PICK e : e = PeerEvent("connected", q) /\ e.kind = "connected" /\ e.peer = q
        BY PeerEventIs
  <2>2. CASE q = p
        BY <1>7, <1>9, <2>1, <2>2
  <2>3. CASE q # p
    <3>1. Follow(<<e>>) /\ ~ Mentions(<<e>>, "connected", p) /\ ~ Mentions(<<e>>, "disconnected", p)
          BY <1>9, <2>1, <2>3, OneFollows
    <3> QED BY <1>6, <1>9, <2>3, <3>1
  <2> QED BY <2>2, <2>3
<1>10. ASSUME NEW q \in Peer, listed' = listed \ {q}, events' = events \o <<PeerEvent("disconnected", q)>> PROVE Goal
  <2>1. PICK e : e = PeerEvent("disconnected", q) /\ e.kind = "disconnected" /\ e.peer = q
        BY PeerEventIs
  <2>2. CASE q = p
        BY <1>8, <1>10, <2>1, <2>2
  <2>3. CASE q # p
    <3>1. Follow(<<e>>) /\ ~ Mentions(<<e>>, "connected", p) /\ ~ Mentions(<<e>>, "disconnected", p)
          BY <1>10, <2>1, <2>3, OneFollows
    <3> QED BY <1>6, <1>10, <2>3, <3>1
  <2> QED BY <2>2, <2>3
<1>11. ASSUME NEW S, NEW es \in Seq(S), events' = events \o es, listed' = listed,
              \A e \in S : e.kind \notin TableKinds
       PROVE  Goal
  <2>1. \A j \in DOMAIN es : es[j].kind \notin TableKinds
        BY <1>11
  <2>2. ~ Mentions(es, "connected", p) /\ ~ Mentions(es, "disconnected", p)
        BY <2>1 DEF Mentions, TableKinds
  <2>3. Follow(es)
        BY <1>11 DEF Follow
  <2> QED BY <1>6, <1>11, <2>2, <2>3
<1> HIDE DEF Goal
<1>12. Goal
       BY <1>4, <1>5, <1>9, <1>10, <1>11, EventsGo DEF Moved, Taken
<1> QED BY <1>12 DEF Goal

\* An event that is no longer on its way has been delivered.
LEMMA AfterKept ==
    ASSUME Truth, Next, ~ missed', NEW kind, NEW p, After(kind, p, 0), ~ After(kind, p, 0)'
    PROVE  Taken /\ Head(events).kind = kind /\ Head(events).peer = p
<1>1. events \in Seq(Events) /\ 0 \in Nat
      BY DEF Truth, Typed
<1>2. ASSUME UNCHANGED events PROVE FALSE
  <2>1. After(kind, p, 0)' <=> After(kind, p, 0)
        BY <1>2 DEF On, After
  <2> QED BY <2>1
<1>3. ASSUME NEW es, Follow(es) PROVE FALSE
      BY <1>1, <1>3, AfterMore
<1>4. ASSUME NEW e, events' = events \o <<e>> PROVE FALSE
      BY <1>3, <1>4, OneFollows
<1>5. Taken
      BY <1>2, <1>3, <1>4, EventsGo DEF Moved, Follow
<1>6. On(kind, p, 1)
      BY <1>1, <1>5, AfterTail DEF Taken
<1>7. Head(events).kind = kind /\ Head(events).peer = p
      BY <1>1, <1>5, <1>6, AfterTail DEF Taken
<1> QED BY <1>5, <1>7

\* A peer comes into the table with an event, and goes out with one.
LEMMA AfterComes ==
    ASSUME Truth, Next, ~ missed', NEW p, p \in listed', p \notin listed
    PROVE  After("connected", p, 0)'
<1>1. events' = events \o <<PeerEvent("connected", p)>> /\ p \in Peer
      BY EventsGo DEF Moved
<1>2. PICK e : e = PeerEvent("connected", p) /\ e.kind = "connected" /\ e.peer = p
      BY <1>1, PeerEventIs
<1>3. Follow(<<e>>) /\ Mentions(<<e>>, "connected", p)
      BY <1>1, <1>2, OneFollows
<1>4. events \in Seq(Events) /\ 0 \in Nat /\ 0 <= Len(events)
      BY DEF Truth, Typed
<1> QED BY <1>3, <1>4, AfterMore

LEMMA AfterGoes ==
    ASSUME Truth, Next, ~ missed', NEW p, p \notin listed', p \in listed
    PROVE  After("disconnected", p, 0)'
<1>1. events' = events \o <<PeerEvent("disconnected", p)>> /\ p \in Peer
      BY EventsGo DEF Moved, Truth, Typed
<1>2. PICK e : e = PeerEvent("disconnected", p) /\ e.kind = "disconnected" /\ e.peer = p
      BY <1>1, PeerEventIs
<1>3. Follow(<<e>>) /\ Mentions(<<e>>, "disconnected", p)
      BY <1>1, <1>2, OneFollows
<1>4. events \in Seq(Events) /\ 0 \in Nat /\ 0 <= Len(events)
      BY DEF Truth, Typed
<1> QED BY <1>3, <1>4, AfterMore

-----------------------------------------------------------------------------
(* Dials that are shown end *)

LEMMA DialsStep ==
    ASSUME Truth, Next, DialsTrue
    PROVE  DialsTrue'
<1> SUFFICES ASSUME ~ missed', NEW p \in pending' PROVE Ends(p)'
    BY DEF DialsTrue
<1>1. ~ missed /\ p \in Peer
      BY MissedFrame, PeersSteps
<1>2. CASE p \notin pending
  <2>1. ASSUME NEW c \in clicks, ConnectAnswered(c) PROVE FALSE
        BY <1>2, <2>1 DEF ConnectAnswered
  <2>2. ASSUME NEW c \in clicks, DisconnectAnswered(c) PROVE FALSE
        BY <1>2, <2>2 DEF DisconnectAnswered
  <2>3. ASSUME NEW l \in listings, ListingItem(l) PROVE FALSE
        BY <1>2, <2>3 DEF ListingItem
  <2>4. ASSUME ConnectedDelivered \/ DisconnectedDelivered \/ FailedDelivered PROVE FALSE
        BY <1>2, <2>4 DEF ConnectedDelivered, DisconnectedDelivered, FailedDelivered
  <2>5. PICK q \in Peer : ClickConnect(q)
        BY <1>2, <2>1, <2>2, <2>3, <2>4, PeersFrame
  <2>6. q = p /\ clicks' = clicks \cup {Click("connect", p, Root)}
        BY <1>2, <2>5 DEF ClickConnect, UserCalls
  <2>7. PICK c : c = Click("connect", p, Root)
        OBVIOUS
  <2>8. c \in clicks' /\ c.kind = "connect" /\ c.peer = p /\ c.answer = "asked"
        BY <2>6, <2>7 DEF Click
  <2> QED BY <2>8 DEF Ends
<1>3. CASE p \in waiting /\ p \notin waiting'
  <2>1. ASSUME NEW c \in clicks, ServeConnect(c) \/ ServeDisconnect(c) PROVE FALSE
        BY <1>3, <2>1 DEF ServeConnect, ServeDisconnect
  <2>2. ASSUME NEW q \in Peer, DialEnds(q) \/ PeerConnects(q) PROVE q = p /\ p \notin listed /\ p \in listed'
        BY <1>3, <2>2 DEF DialEnds, PeerConnects
  <2>3. ASSUME NEW q \in Peer, ConnectionLost(q) \/ Teardown(q) PROVE FALSE
        BY <1>3, <2>3 DEF ConnectionLost, Teardown
  <2>4. p \notin listed /\ p \in listed'
        BY <1>3, <2>1, <2>2, <2>3, TableFrame
  <2> QED BY <2>4, AfterComes DEF Ends
<1>4. CASE p \in dialling \ listed /\ p \notin dialling' \ listed'
  <2>1. CASE p \in listed'
        BY <1>4, <2>1, AfterComes DEF Ends
  <2>2. CASE p \notin listed'
    <3>1. ASSUME NEW c \in clicks, ServeConnect(c) \/ ServeDisconnect(c) PROVE FALSE
          BY <1>4, <2>2, <3>1 DEF ServeConnect, ServeDisconnect
    <3>2. ASSUME NEW q \in Peer, PeerConnects(q) \/ ConnectionLost(q) \/ Teardown(q) PROVE FALSE
          BY <1>4, <2>2, <3>2 DEF PeerConnects, ConnectionLost, Teardown
    <3>3. PICK q \in Peer : DialEnds(q)
          BY <1>4, <2>2, <3>1, <3>2, TableFrame
    <3>4. q = p
          BY <1>4, <2>2, <3>3 DEF DialEnds
    <3>5. events' = events \o <<PeerEvent("failed", p)>>
      <4>1. SendAll(<<PeerEvent("failed", p)>>)
            BY <1>4, <2>2, <3>3, <3>4 DEF DialEnds
      <4> QED BY <4>1, Said
    <3>6. PICK e : e = PeerEvent("failed", p) /\ e.kind = "failed" /\ e.peer = p
          BY <1>1, PeerEventIs
    <3>7. Follow(<<e>>) /\ Mentions(<<e>>, "failed", p)
          BY <3>5, <3>6, OneFollows
    <3>8. events \in Seq(Events) /\ 0 \in Nat /\ 0 <= Len(events)
          BY DEF Truth, Typed
    <3>9. After("failed", p, 0)'
          BY <3>7, <3>8, AfterMore
    <3> QED BY <3>9 DEF Ends
  <2> QED BY <2>1, <2>2
<1>5. ASSUME NEW c \in clicks, c.kind = "connect", c.peer = p, c.answer \in {"asked", "error"}, c \notin clicks'
      PROVE  Ends(p)'
  <2>1. c \in Clicks
        BY DEF Truth, Typed
  <2>2. ASSUME NEW d \in clicks, ServeConnect(d) PROVE Ends(p)'
    <3>1. d = c
          BY <1>5, <2>2 DEF ServeConnect, Answered
    <3>2. CASE clicks' = Answered(clicks, c, "error")
      <4>1. PICK e \in Clicks : e = [c EXCEPT !.answer = "error"] /\ e.answer = "error" /\ e.kind = "connect" /\ e.peer = p
        <5>1. PICK e \in Clicks : /\ e = [c EXCEPT !.answer = "error"] /\ e.answer = "error"
                                 /\ e.kind = c.kind /\ e.peer = c.peer /\ e.path = c.path /\ e.req = c.req
              BY <2>1, AnswerTyped
        <5> QED BY <1>5, <5>1
      <4>2. e \in clicks'
            BY <3>2, <4>1 DEF Answered
      <4> QED BY <4>1, <4>2 DEF Ends
    <3>3. CASE clicks' # Answered(clicks, c, "error")
      <4>1. p \in waiting' \/ p \in dialling' \ listed'
            BY <1>5, <2>2, <3>1, <3>3 DEF ServeConnect
      <4> QED BY <4>1 DEF Ends
    <3> QED BY <3>2, <3>3
  <2>3. ASSUME NEW d \in clicks, ServeDisconnect(d) \/ ServeDownload(d) \/ ServeShare(d) PROVE FALSE
        BY <1>5, <2>3 DEF ServeDisconnect, ServeDownload, ServeShare, Answered
  <2>4. ASSUME NEW d \in clicks, ConnectAnswered(d) PROVE FALSE
        BY <1>5, <2>4 DEF ConnectAnswered
  <2>5. ASSUME NEW d \in clicks, DisconnectAnswered(d) \/ DownloadAnswered(d) \/ ShareAnswered(d) PROVE FALSE
        BY <1>5, <2>5 DEF DisconnectAnswered, DownloadAnswered, ShareAnswered
  <2>6. ASSUME NEW q \in Peer, ClickConnect(q) \/ ClickDisconnect(q) PROVE FALSE
        BY <1>5, <2>6 DEF ClickConnect, ClickDisconnect, UserCalls
  <2>7. ASSUME NEW k \in DOMAIN files, ClickDownload(k) PROVE FALSE
        BY <1>5, <2>7 DEF ClickDownload, UserCalls
  <2>8. ASSUME NEW path \in DOMAIN Tree[Self], ClickShare(path) PROVE FALSE
        BY <1>5, <2>8 DEF ClickShare, UserCalls
  <2> QED BY <1>5, <2>2, <2>3, <2>4, <2>5, <2>6, <2>7, <2>8, ClicksFrame
<1>6. ASSUME After("connected", p, 0), ~ After("connected", p, 0)' PROVE FALSE
  <2>1. Taken /\ Head(events).kind = "connected" /\ Head(events).peer = p
        BY <1>6, AfterKept
  <2>2. ConnectedDelivered
        BY <2>1 DEF Taken, ConnectedDelivered, DisconnectedDelivered, FailedDelivered, DownloadingDelivered,
            CompletedDelivered, Delivered
  <2> QED BY <2>1, <2>2 DEF ConnectedDelivered
<1>7. ASSUME After("failed", p, 0), ~ After("failed", p, 0)' PROVE FALSE
  <2>1. Taken /\ Head(events).kind = "failed" /\ Head(events).peer = p
        BY <1>7, AfterKept
  <2>2. FailedDelivered
        BY <2>1 DEF Taken, ConnectedDelivered, DisconnectedDelivered, FailedDelivered, DownloadingDelivered,
            CompletedDelivered, Delivered
  <2> QED BY <2>1, <2>2 DEF FailedDelivered
<1>8. CASE p \in pending
  <2>1. Ends(p)
        BY <1>1, <1>8 DEF DialsTrue
  <2>2. CASE p \in waiting
        BY <1>3, <2>2 DEF Ends
  <2>3. CASE p \in dialling \ listed
        BY <1>4, <2>3 DEF Ends
  <2>4. ASSUME NEW c \in clicks, c.kind = "connect", c.peer = p, c.answer \in {"asked", "error"} PROVE Ends(p)'
        BY <1>5, <2>4 DEF Ends
  <2>5. CASE After("connected", p, 0)
        BY <1>6, <2>5 DEF Ends
  <2>6. CASE After("failed", p, 0)
        BY <1>7, <2>6 DEF Ends
  <2> QED BY <2>1, <2>2, <2>3, <2>4, <2>5, <2>6 DEF Ends
<1> QED BY <1>2, <1>8

\* Every dial that is shown ends: when nothing is on its way any more and no event was
\* lost, no peer is shown as being connected to but those that are expected to dial.
THEOREM DialsCorrect == Spec => []DialsShownEnded
<1>1. Init => DialsTrue
      BY DEF Init, DialsTrue
<1>2. Truth /\ DialsTrue /\ [Next]_vars => DialsTrue'
  <2>1. ASSUME DialsTrue, UNCHANGED vars PROVE DialsTrue'
        BY <2>1 DEF DialsTrue, Ends, After, On, vars, backendVars, callVars, viewVars, historyVars
  <2> QED BY <2>1, DialsStep
<1>3. DialsTrue => DialsShownEnded
      BY DEF DialsTrue, DialsShownEnded, Quiet, Ends, After, On
<1> QED BY <1>1, <1>2, <1>3, TruthAlways, PTL DEF Spec

-----------------------------------------------------------------------------
(* What is shared and who is connected is shown *)

\* Entries are taken out with their peer only, so those of one's own stay.
LEMMA OwnStays ==
    ASSUME Truth, Next, NEW k \in DOMAIN files, k[1] \notin Peer
    PROVE  k \in DOMAIN files'
<1>1. ASSUME NEW p \in Peer, ForgetPeer(p) PROVE k \in DOMAIN files'
      BY <1>1 DEF ForgetPeer, WithoutPeer, Restrict
<1>2. ASSUME NEW h, files' = Over(h, files) PROVE k \in DOMAIN files'
      BY <1>2, OverIs
<1>3. ASSUME NEW c \in clicks, DisconnectAnswered(c) PROVE k \in DOMAIN files'
  <2>1. c.peer \in Peer
        BY <1>3 DEF DisconnectAnswered, Truth, ClickTrue
  <2>2. CASE c.answer = "ok"
        BY <1>1, <1>3, <2>1, <2>2 DEF DisconnectAnswered
  <2>3. CASE c.answer # "ok"
        BY <1>3, <2>3 DEF DisconnectAnswered
  <2> QED BY <2>2, <2>3
<1>4. ASSUME NEW c \in clicks, DownloadAnswered(c) PROVE k \in DOMAIN files'
  <2>1. CASE c.answer = "error"
        BY <1>4, <2>1 DEF DownloadAnswered
  <2>2. CASE c.answer # "error"
    <3>1. PICK hs : hs = SetRequest(files, <<c.peer, c.path>>, c.req, Entry(Unknown, Status("Requested", c.req), c.req))
          OBVIOUS
    <3>2. k \in DOMAIN hs
          BY <3>1 DEF SetRequest, With
    <3>3. PICK h : files' = Over(h, hs)
          BY <1>4, <2>2, <3>1 DEF DownloadAnswered
    <3> QED BY <3>2, <3>3, OverIs
  <2> QED BY <2>1, <2>2
<1>5. ASSUME NEW l \in listings, ListingItem(l) PROVE k \in DOMAIN files'
  <2>1. CASE l.peer = Self
    <3>1. PICK h : files' = Over(files, h)
          BY <1>5, <2>1 DEF ListingItem
    <3> QED BY <3>1, OverIs
  <2>2. CASE l.peer # Self
        BY <1>2, <1>5, <2>2 DEF ListingItem
  <2> QED BY <2>1, <2>2
<1>6. ASSUME NEW s \in snapshots, RequestsAnswered(s) PROVE k \in DOMAIN files'
      BY <1>6, RequestsAdvance DEF Advances
<1>7. ASSUME NEW s \in snapshots, RequestedFilesAnswered(s) PROVE k \in DOMAIN files'
      BY <1>2, <1>7 DEF RequestedFilesAnswered
<1>8. ASSUME DisconnectedDelivered PROVE k \in DOMAIN files'
  <2>1. Head(events).peer \in Peer
        BY <1>8, EventNext DEF DisconnectedDelivered
  <2> QED BY <1>1, <1>8, <2>1 DEF DisconnectedDelivered
<1>9. ASSUME DownloadingDelivered PROVE k \in DOMAIN files'
      BY <1>9 DEF DownloadingDelivered, RootShown, FileShown, With
<1>10. ASSUME CompletedDelivered PROVE k \in DOMAIN files'
       BY <1>10 DEF CompletedDelivered
<1> QED BY <1>3, <1>4, <1>5, <1>6, <1>7, <1>8, <1>9, <1>10, FilesFrame

\* A listing of the root of what is shared finds every directory.
LEMMA OwnShown ==
    ASSUME Truth, NEW path \in mine, NEW l, l.path = Root
    PROVE  <<Self, path>> \in Shown(Self, l)
<1>1. path \in DOMAIN Tree[Self] /\ Self \in DOMAIN Tree
      BY InterfaceAssumption DEF Truth, Typed
<1>2. path \in Path /\ Parts(path) = 1
      BY <1>1, KeyMade, InterfaceAssumption
<1>3. Parts(Root) = 0
  <2>1. PICK S : S = {i \in DOMAIN Root : Root[i] = "/"}
        OBVIOUS
  <2>2. S = {}
        BY <2>1 DEF Root
  <2>3. Cardinality(S) = 0
        BY <2>2, FS_EmptySet
  <2> QED BY <2>1, <2>3 DEF Parts
<1>4. Within(Root, path)
  <2>1. path \in Seq(Part) /\ Root \in Seq(Part) /\ Len(Root) = 0 /\ Len(path) \in Nat
        BY <1>2, PathTyped, EmptySeq DEF Root
  <2>2. Len(Root) <= Len(path) /\ \A i \in 1..Len(Root) : Root[i] = path[i]
        BY <2>1
  <2>3. IsPrefix(Root, path)
        BY <2>1, <2>2, PrefixIs
  <2> QED BY <2>3 DEF Within, IsStrictPrefix
<1> QED BY <1>1, <1>2, <1>3, <1>4 DEF Shown

LEMMA OwnListed ==
    ASSUME Truth, Next, NEW path \in mine, NEW l \in listings, BringsOwn(l, path)
    PROVE  <<Self, path>> \in DOMAIN files' \/ \E m \in listings' : BringsOwn(m, path)
<1> DEFINE Goal == <<Self, path>> \in DOMAIN files' \/ \E m \in listings' : BringsOwn(m, path)
<1>1. l \in Listings /\ ListingTrue(l)
      BY DEF Truth, Typed
<1>2. ASSUME l \in listings' PROVE Goal
      BY <1>2
<1>3. ASSUME NEW n \in listings, ServeListing(n), l \notin listings' PROVE Goal
  <2>1. n = l /\ l.answer = "asked"
        BY <1>3 DEF ServeListing
  <2>2. l.peer = Self /\ l.path = Root
        BY <2>1 DEF BringsOwn
  <2>3. Self # None
        BY InterfaceAssumption
  <2>4. AskedPeers(l) = {Self}
        BY <2>2, <2>3 DEF AskedPeers
  <2>5. PICK m \in listings' : m.answer = "ok" /\ m.found = UNION {Shown(p, l) : p \in AskedPeers(l)}
        BY <1>3, <2>1, <2>4, ServedIs
  <2>6. <<Self, path>> \in m.found
        BY <2>2, <2>4, <2>5, OwnShown
  <2>7. BringsOwn(m, path)
        BY <2>5, <2>6 DEF BringsOwn
  <2> QED BY <2>7
<1>4. ASSUME NEW n \in listings, ListingAnswered(n), l \notin listings' PROVE Goal
  <2>1. n = l /\ l.answer # "asked"
        BY <1>4 DEF ListingAnswered
  <2>2. PICK k \in l.found : k = <<Self, path>> /\ k[1] = Self
        BY <2>1 DEF BringsOwn
  <2>3. PICK m \in listings' : m.answer = "item" /\ m.found = {x \in l.found : x[1] = m.peer} /\ m.peer = k[1]
        BY <1>4, <2>1, <2>2, ItemsAre
  <2>4. BringsOwn(m, path)
        BY <2>2, <2>3 DEF BringsOwn
  <2> QED BY <2>4
<1>5. ASSUME NEW n \in listings, ListingItem(n), l \notin listings' PROVE Goal
  <2>1. n = l /\ l.answer = "item"
        BY <1>5 DEF ListingItem
  <2>2. PICK k \in l.found : k = <<Self, path>> /\ k[1] = Self
        BY <2>1 DEF BringsOwn
  <2>3. l.peer = Self
        BY <1>1, <2>1, <2>2 DEF ListingTrue
  <2>4. PICK h : h = [x \in l.found |-> Insert(x)]
        OBVIOUS
  <2>5. files' = Over(files, h) /\ k \in DOMAIN h
        BY <1>5, <2>1, <2>2, <2>3, <2>4 DEF ListingItem
  <2>6. k \in DOMAIN files'
        BY <2>5, OverIs
  <2> QED BY <2>2, <2>6
<1>6. ASSUME (\E c \in clicks : ShareAnswered(c)) \/ (\E k \in DOMAIN files : Expand(k)) \/ Search \/ ConnectedDelivered
      PROVE  l \in listings'
      BY <1>6 DEF ShareAnswered, Expand, Search, ConnectedDelivered, UserAsks
<1> HIDE DEF Goal
<1>7. Goal
      BY <1>2, <1>3, <1>4, <1>5, <1>6, ListingsFrame
<1> QED BY <1>7 DEF Goal

LEMMA OwnStep ==
    ASSUME Truth, Next, OwnAgree
    PROVE  OwnAgree'
<1> SUFFICES ASSUME NEW path \in mine'
             PROVE  \/ <<Self, path>> \in DOMAIN files'
                    \/ \E c \in clicks' : c.kind \in {"add", "remove"} /\ c.answer = "ok"
                    \/ \E l \in listings' : BringsOwn(l, path)
    BY DEF OwnAgree, BringsOwn
<1> DEFINE Goal == \/ <<Self, path>> \in DOMAIN files'
                   \/ \E c \in clicks' : c.kind \in {"add", "remove"} /\ c.answer = "ok"
                   \/ \E l \in listings' : BringsOwn(l, path)
<1>1. Self \notin Peer
      BY InterfaceAssumption
<1>2. ASSUME NEW c \in clicks, ServeShare(c) PROVE Goal
  <2>1. c \in Clicks /\ "ok" \in {"asked", "ok", "error"}
        BY DEF Truth, Typed
  <2>2. PICK d \in Clicks : /\ d = [c EXCEPT !.answer = "ok"] /\ d.answer = "ok"
                           /\ d.kind = c.kind /\ d.peer = c.peer /\ d.path = c.path /\ d.req = c.req
        BY <2>1, AnswerTyped
  <2>3. d \in clicks' /\ d.kind \in {"add", "remove"}
        BY <1>2, <2>2 DEF ServeShare, Answered
  <2> QED BY <2>2, <2>3
<1>3. ASSUME path \in mine, <<Self, path>> \in DOMAIN files PROVE Goal
      BY <1>1, <1>3, OwnStays
<1>4. ASSUME path \in mine, NEW l \in listings, BringsOwn(l, path) PROVE Goal
      BY <1>4, OwnListed
<1>5. ASSUME NEW c \in clicks, c.kind \in {"add", "remove"}, c.answer = "ok", c \notin clicks' PROVE Goal
  <2>1. ASSUME NEW d \in clicks, ServeConnect(d) \/ ServeDisconnect(d) \/ ServeDownload(d) \/ ServeShare(d) PROVE FALSE
        BY <1>5, <2>1 DEF ServeConnect, ServeDisconnect, ServeDownload, ServeShare, Answered
  <2>2. ASSUME NEW d \in clicks, ConnectAnswered(d) \/ DisconnectAnswered(d) \/ DownloadAnswered(d) PROVE FALSE
        BY <1>5, <2>2 DEF ConnectAnswered, DisconnectAnswered, DownloadAnswered
  <2>3. ASSUME NEW q \in Peer, ClickConnect(q) \/ ClickDisconnect(q) PROVE FALSE
        BY <1>5, <2>3 DEF ClickConnect, ClickDisconnect, UserCalls
  <2>4. ASSUME NEW k \in DOMAIN files, ClickDownload(k) PROVE FALSE
        BY <1>5, <2>4 DEF ClickDownload, UserCalls
  <2>5. ASSUME NEW q \in DOMAIN Tree[Self], ClickShare(q) PROVE FALSE
        BY <1>5, <2>5 DEF ClickShare, UserCalls
  <2>6. PICK d \in clicks : ShareAnswered(d)
        BY <1>5, <2>1, <2>2, <2>3, <2>4, <2>5, ClicksFrame
  <2>7. PICK l : l = Listing(Self, Root, FALSE)
        OBVIOUS
  <2>8. l \in listings' /\ l.answer = "asked" /\ l.peer = Self /\ l.path = Root
        BY <2>6, <2>7 DEF ShareAnswered, Listing
  <2> QED BY <2>8 DEF BringsOwn
<1>6. ASSUME NEW c \in clicks, c.kind \in {"add", "remove"}, c.answer = "ok" PROVE Goal
      BY <1>5, <1>6
<1> HIDE DEF Goal
<1>7. ASSUME path \in mine PROVE Goal
      BY <1>3, <1>4, <1>6, <1>7 DEF OwnAgree
<1>8. Goal
      BY <1>2, <1>7, MineFrame
<1> QED BY <1>8 DEF Goal

\* A listing on its way that will bring a connected peer is followed by its answer, and
\* that by its items, unless it fails, which excuses the peer; the item shows the peer.
LEMMA BringsOn ==
    ASSUME Truth, Next, NEW p \in Peer, p \in listed \ closing, NEW l \in listings, Brings(l, p)
    PROVE  p \in excused' \/ p \in peers' \/ \E m \in listings' : Brings(m, p)
<1> DEFINE Goal == p \in excused' \/ p \in peers' \/ \E m \in listings' : Brings(m, p)
<1>1. l \in Listings /\ ListingTrue(l) /\ ~ l.search
      BY DEF Truth, Typed, Brings
<1>2. p # Self /\ p # None /\ p \in DOMAIN Tree
      BY InterfaceAssumption
<1>3. ASSUME l \in listings' PROVE Goal
      BY <1>3
<1>4. ASSUME NEW n \in listings, ServeListing(n), l \notin listings' PROVE Goal
  <2>1. n = l /\ l.answer = "asked"
        BY <1>4 DEF ServeListing
  <2>2. l.path = Root /\ p \in AskedPeers(l) /\ Root \in DOMAIN Tree[p]
        BY <1>2, <2>1 DEF Brings, AskedPeers
  <2>3. CASE AskedPeers(l) \subseteq (listed \ closing) \cup {Self}
    <3>1. PICK m \in listings' : /\ m.answer = "ok" /\ m.found = UNION {Shown(q, l) : q \in AskedPeers(l)}
                                /\ m.search = l.search
          BY <1>4, <2>1, <2>3, ServedIs
    <3>2. PICK k : k = <<p, Root>> /\ k[1] = p
      <4>1. <<p, Root>>[1] = p
            OBVIOUS
      <4> QED BY <4>1
    <3>3. k \in Shown(p, l)
          BY <1>2, <2>2, <3>2 DEF Shown
    <3>4. k \in m.found
          BY <2>2, <3>1, <3>3
    <3>5. Brings(m, p)
          BY <1>1, <3>1, <3>2, <3>4 DEF Brings
    <3> QED BY <3>5
  <2>4. CASE ~ AskedPeers(l) \subseteq (listed \ closing) \cup {Self}
        BY <1>1, <1>4, <2>1, <2>2, <2>4 DEF ServeListing
  <2> QED BY <2>3, <2>4
<1>5. ASSUME NEW n \in listings, ListingAnswered(n), l \notin listings' PROVE Goal
  <2>1. n = l /\ l.answer # "asked"
        BY <1>5 DEF ListingAnswered
  <2>2. PICK k \in l.found : k[1] = p
        BY <2>1 DEF Brings
  <2>3. PICK m \in listings' : /\ m.answer = "item" /\ m.found = {x \in l.found : x[1] = m.peer} /\ m.peer = k[1]
                              /\ m.search = l.search
        BY <1>5, <2>1, <2>2, ItemsAre
  <2>4. Brings(m, p)
        BY <1>1, <2>2, <2>3 DEF Brings
  <2> QED BY <2>4
<1>6. ASSUME NEW n \in listings, ListingItem(n), l \notin listings' PROVE Goal
  <2>1. n = l /\ l.answer = "item"
        BY <1>6 DEF ListingItem
  <2>2. l.peer = p
        BY <1>1, <2>1 DEF ListingTrue, Brings
  <2> QED BY <1>1, <1>2, <1>6, <2>1, <2>2 DEF ListingItem
<1>7. ASSUME (\E c \in clicks : ShareAnswered(c)) \/ (\E k \in DOMAIN files : Expand(k)) \/ Search \/ ConnectedDelivered
      PROVE  l \in listings'
      BY <1>7 DEF ShareAnswered, Expand, Search, ConnectedDelivered, UserAsks
<1> HIDE DEF Goal
<1>8. Goal
      BY <1>3, <1>4, <1>5, <1>6, <1>7, ListingsFrame
<1> QED BY <1>8 DEF Goal

\* A peer is no longer excused when an event about it arrives.
LEMMA ExcusedEnds ==
    ASSUME Truth, Next, NEW p \in excused, p \notin excused'
    PROVE  Head(events).peer = p /\ (ConnectedDelivered \/ DisconnectedDelivered)
<1>1. ASSUME NEW c \in clicks, DisconnectAnswered(c) PROVE FALSE
      BY <1>1 DEF DisconnectAnswered
<1>2. ASSUME NEW l \in listings, ServeListing(l) \/ ListingItem(l) PROVE FALSE
      BY <1>2 DEF ServeListing, ListingItem
<1>3. ASSUME FailedDelivered PROVE FALSE
      BY <1>3 DEF FailedDelivered
<1>4. ConnectedDelivered \/ DisconnectedDelivered
      BY <1>1, <1>2, <1>3, ExcusedFrame
<1> QED BY <1>4 DEF ConnectedDelivered, DisconnectedDelivered

\* An event about the table that is delivered and not so any more is followed by one
\* that says what is so.
LEMMA FollowedByConnected ==
    ASSUME Truth, Next, EventsAgree, DisconnectedDelivered, NEW p, Head(events).peer = p, p \in listed
    PROVE  After("connected", p, 0)'
<1>1. /\ events \in Seq(Events) /\ events # <<>> /\ events' = Tail(events)
      /\ Head(events).kind = "disconnected" /\ p \in Peer
      BY DEF DisconnectedDelivered, Delivered, Truth, Typed
<1>2. On("disconnected", p, 1) /\ 1 \in DOMAIN events
      BY <1>1, AfterTail DEF On
<1>3. After("connected", p, 1)
      BY <1>1, <1>2 DEF EventsAgree, On, After
<1>4. 0 \in Nat /\ 0 + 1 = 1
      OBVIOUS
<1> QED BY <1>1, <1>3, <1>4, AfterTail

LEMMA FollowedByDisconnected ==
    ASSUME Truth, Next, EventsAgree, ConnectedDelivered, NEW p \in Peer, Head(events).peer = p, p \notin listed
    PROVE  After("disconnected", p, 0)'
<1>1. /\ events \in Seq(Events) /\ events # <<>> /\ events' = Tail(events)
      /\ Head(events).kind = "connected"
      BY DEF ConnectedDelivered, Delivered, Truth, Typed
<1>2. On("connected", p, 1) /\ 1 \in DOMAIN events
      BY <1>1, AfterTail DEF On
<1>3. After("disconnected", p, 1)
      BY <1>1, <1>2 DEF EventsAgree, On, After
<1>4. 0 \in Nat /\ 0 + 1 = 1
      OBVIOUS
<1> QED BY <1>1, <1>3, <1>4, AfterTail

\* A connected peer that is not shown will be.
LEMMA AppearsStep ==
    ASSUME Truth, Next, ~ missed', EventsAgree, PeersAgree, NEW p \in Peer \ excused',
           p \in (listed' \ closing') \ peers'
    PROVE  Appears(p)'
<1>1. ASSUME After("connected", p, 0)' PROVE Appears(p)'
      BY <1>1 DEF Appears
<1>2. ASSUME NEW m \in listings', Brings(m, p) PROVE Appears(p)'
      BY <1>2 DEF Appears, Brings
<1>3. CASE p \notin listed
      BY <1>1, <1>3, AfterComes
<1>4. CASE p \in listed /\ p \in closing
  <2>1. ASSUME NEW c \in clicks, ServeConnect(c) \/ ServeDisconnect(c) PROVE FALSE
        BY <1>4, <2>1 DEF ServeConnect, ServeDisconnect
  <2>2. ASSUME NEW q \in Peer, DialEnds(q) \/ PeerConnects(q) \/ ConnectionLost(q) \/ Teardown(q) PROVE FALSE
        BY <1>4, <2>2 DEF DialEnds, PeerConnects, ConnectionLost, Teardown
  <2> QED BY <1>4, <2>1, <2>2, TableFrame
<1>5. ASSUME p \in listed, DisconnectedDelivered, Head(events).peer = p PROVE Appears(p)'
      BY <1>1, <1>5, FollowedByConnected
<1>6. CASE p \in listed \ closing /\ p \in excused
  <2>1. ASSUME ConnectedDelivered, Head(events).peer = p PROVE FALSE
        BY <2>1 DEF ConnectedDelivered
  <2> QED BY <1>5, <1>6, <2>1, ExcusedEnds
<1>7. CASE p \in listed \ closing /\ p \notin excused /\ p \in peers
  <2>1. ASSUME NEW c \in clicks, ConnectAnswered(c) PROVE FALSE
        BY <1>7, <2>1 DEF ConnectAnswered
  <2>2. ASSUME NEW c \in clicks, DisconnectAnswered(c) PROVE FALSE
        BY <1>7, <2>2 DEF DisconnectAnswered, ForgetPeer
  <2>3. ASSUME NEW l \in listings, ListingItem(l) PROVE FALSE
        BY <1>7, <2>3 DEF ListingItem
  <2>4. ASSUME ConnectedDelivered \/ FailedDelivered PROVE FALSE
        BY <1>7, <2>4 DEF ConnectedDelivered, FailedDelivered
  <2>5. ASSUME NEW q \in Peer, ClickConnect(q) PROVE FALSE
        BY <1>7, <2>5 DEF ClickConnect, elsewhere
  <2>6. ASSUME DisconnectedDelivered PROVE Appears(p)'
    <3>1. Head(events).peer = p
          BY <1>7, <2>6 DEF DisconnectedDelivered, ForgetPeer
    <3> QED BY <1>5, <1>7, <2>6, <3>1
  <2> QED BY <1>7, <2>1, <2>2, <2>3, <2>4, <2>5, <2>6, PeersFrame
<1>8. CASE p \in listed \ closing /\ p \notin excused /\ p \notin peers
  <2>1. Appears(p)
        BY <1>8 DEF PeersAgree
  <2>2. CASE After("connected", p, 0)
    <3>1. ASSUME ~ After("connected", p, 0)' PROVE FALSE
      <4>1. Taken /\ Head(events).kind = "connected" /\ Head(events).peer = p
            BY <2>2, <3>1, AfterKept
      <4>2. ConnectedDelivered
            BY <4>1 DEF Taken, ConnectedDelivered, DisconnectedDelivered, FailedDelivered, DownloadingDelivered,
                CompletedDelivered, Delivered
      <4> QED BY <4>1, <4>2 DEF ConnectedDelivered
    <3> QED BY <1>1, <3>1
  <2>3. ASSUME NEW l \in listings, Brings(l, p) PROVE Appears(p)'
        BY <1>2, <1>8, <2>3, BringsOn
  <2> QED BY <2>1, <2>2, <2>3 DEF Appears
<1> QED BY <1>3, <1>4, <1>6, <1>7, <1>8

\* A peer that is shown and not connected will be taken away.
LEMMA GoesStep ==
    ASSUME Truth, Next, ~ missed', EventsAgree, PeersAgree, NEW p \in Peer \ excused', p \in peers' \ listed'
    PROVE  After("disconnected", p, 0)'
<1> DEFINE Goal == After("disconnected", p, 0)'
<1>1. CASE p \in listed
      BY <1>1, AfterGoes
<1>2. ASSUME p \notin listed, ConnectedDelivered, Head(events).peer = p PROVE Goal
      BY <1>2, FollowedByDisconnected
<1>3. ASSUME DisconnectedDelivered, Head(events).peer = p PROVE FALSE
      BY <1>3 DEF DisconnectedDelivered, ForgetPeer
<1>4. CASE p \notin listed /\ p \in excused
      BY <1>2, <1>3, <1>4, ExcusedEnds
<1>5. CASE p \notin listed /\ p \notin excused /\ p \notin peers
  <2>1. ASSUME NEW c \in clicks, ConnectAnswered(c) \/ DisconnectAnswered(c) PROVE FALSE
        BY <1>5, <2>1 DEF ConnectAnswered, DisconnectAnswered, ForgetPeer
  <2>2. ASSUME NEW l \in listings, ListingItem(l) PROVE FALSE
    <3>1. p # Self
          BY InterfaceAssumption
    <3> QED BY <1>5, <2>2, <3>1 DEF ListingItem
  <2>3. ASSUME DisconnectedDelivered \/ FailedDelivered PROVE FALSE
        BY <1>5, <2>3 DEF DisconnectedDelivered, FailedDelivered, ForgetPeer
  <2>4. ASSUME NEW q \in Peer, ClickConnect(q) PROVE FALSE
        BY <1>5, <2>4 DEF ClickConnect, elsewhere
  <2>5. ASSUME ConnectedDelivered PROVE Goal
    <3>1. Head(events).peer = p
          BY <1>5, <2>5 DEF ConnectedDelivered
    <3> QED BY <1>2, <1>5, <2>5, <3>1
  <2> QED BY <1>5, <2>1, <2>2, <2>3, <2>4, <2>5, PeersFrame
<1>6. CASE p \notin listed /\ p \notin excused /\ p \in peers
  <2>1. After("disconnected", p, 0)
        BY <1>6 DEF PeersAgree
  <2>2. ASSUME ~ After("disconnected", p, 0)' PROVE FALSE
    <3>1. Taken /\ Head(events).kind = "disconnected" /\ Head(events).peer = p
          BY <2>1, <2>2, AfterKept
    <3>2. DisconnectedDelivered
          BY <3>1 DEF Taken, ConnectedDelivered, DisconnectedDelivered, FailedDelivered, DownloadingDelivered,
              CompletedDelivered, Delivered
    <3> QED BY <1>3, <3>1, <3>2
  <2> QED BY <2>2
<1> QED BY <1>1, <1>4, <1>5, <1>6

LEMMA ViewStep ==
    ASSUME Truth, Next, ViewTrue
    PROVE  ViewTrue'
<1>1. OwnAgree'
      BY OwnStep DEF ViewTrue
<1>2. ASSUME ~ missed' PROVE EventsAgree' /\ PeersAgree'
  <2>1. EventsAgree /\ PeersAgree
        BY <1>2, MissedFrame DEF ViewTrue
  <2>2. EventsAgree'
        BY <1>2, <2>1, EventsAgreeStep
  <2>3. \A p \in Peer \ excused' : p \in (listed' \ closing') \ peers' => Appears(p)'
        BY <1>2, <2>1, AppearsStep
  <2>4. \A p \in Peer \ excused' : p \in peers' \ listed' => After("disconnected", p, 0)'
        BY <1>2, <2>1, GoesStep
  <2>5. PeersAgree'
        BY <2>3, <2>4 DEF PeersAgree
  <2> QED BY <2>2, <2>5
<1> QED BY <1>1, <1>2 DEF ViewTrue

LEMMA ViewInit == Init => ViewTrue
<1> SUFFICES ASSUME Init PROVE ViewTrue
    OBVIOUS
<1>1. /\ events = <<>> /\ peers = {} /\ closing = {}
      /\ listings = {Listing(Self, Root, FALSE), Listing(None, Root, FALSE)}
      /\ excused = {p \in listed : DOMAIN Tree[p] = {}}
      BY DEF Init
<1>2. EventsAgree
      BY <1>1 DEF EventsAgree
<1>3. PeersAgree
  <2>1. ASSUME NEW p \in Peer \ excused, p \in listed PROVE Appears(p)
    <3>1. Root \in DOMAIN Tree[p]
          BY <1>1, <2>1, InterfaceAssumption
    <3>2. PICK l : l = Listing(None, Root, FALSE)
          OBVIOUS
    <3>3. l \in listings /\ l.answer = "asked" /\ l.path = Root /\ l.peer = None /\ l.search = FALSE
          BY <1>1, <3>2 DEF Listing
    <3>4. Brings(l, p)
          BY <3>1, <3>3 DEF Brings
    <3> QED BY <3>3, <3>4 DEF Appears
  <2> QED BY <1>1, <2>1 DEF PeersAgree
<1>4. OwnAgree
  <2>1. PICK l : l = Listing(Self, Root, FALSE)
        OBVIOUS
  <2>2. l \in listings /\ l.answer = "asked" /\ l.path = Root /\ l.peer = Self
        BY <1>1, <2>1 DEF Listing
  <2>3. \A path \in mine : BringsOwn(l, path)
        BY <2>2 DEF BringsOwn
  <2> QED BY <2>2, <2>3 DEF OwnAgree
<1> QED BY <1>2, <1>3, <1>4 DEF ViewTrue

\* When nothing is on its way and no event was lost, the peers shown are those that are
\* connected, but for those an answer spoke of out of turn, and all that is shared is
\* shown.
THEOREM ViewCorrect == Spec => []ViewAgrees
<1>1. Truth /\ ViewTrue /\ [Next]_vars => ViewTrue'
  <2>1. ASSUME ViewTrue, UNCHANGED vars PROVE ViewTrue'
    <3>1. OwnAgree => OwnAgree'
          BY <2>1 DEF OwnAgree, BringsOwn, vars, backendVars, callVars, viewVars
    <3>2. EventsAgree => EventsAgree'
          BY <2>1 DEF EventsAgree, After, On, vars, backendVars
    <3>3. PeersAgree => PeersAgree'
          BY <2>1 DEF PeersAgree, Appears, Brings, After, On, vars, backendVars, callVars, viewVars, historyVars
    <3>4. missed' = missed
          BY <2>1 DEF vars, historyVars
    <3> QED BY <2>1, <3>1, <3>2, <3>3, <3>4 DEF ViewTrue
  <2> QED BY <2>1, ViewStep
<1>2. ViewTrue => ViewAgrees
  <2> SUFFICES ASSUME ViewTrue, Quiet PROVE /\ ~missed => \A p \in Peer \ excused : p \in peers <=> p \in listed
                                            /\ \A path \in mine : <<Self, path>> \in DOMAIN files
      BY DEF ViewAgrees
  <2>1. events = <<>> /\ clicks = {} /\ listings = {} /\ closing = {}
        BY DEF Quiet
  <2>2. ASSUME ~missed, NEW p \in Peer \ excused PROVE p \in peers <=> p \in listed
    <3>1. \A kind : ~ After(kind, p, 0)
          BY <2>1 DEF After
    <3>2. ~ Appears(p)
          BY <2>1, <3>1 DEF Appears
    <3>3. PeersAgree
          BY <2>2 DEF ViewTrue
    <3> QED BY <2>1, <3>1, <3>2, <3>3 DEF PeersAgree
  <2>3. \A path \in mine : <<Self, path>> \in DOMAIN files
        BY <2>1 DEF ViewTrue, OwnAgree
  <2> QED BY <2>2, <2>3
<1> QED BY <1>1, <1>2, ViewInit, TruthAlways, PTL DEF Spec

=============================================================================
