---------------------------- MODULE LibraryProofs ----------------------------
(***************************************************************************)
(* What is proved of Library, and with it of the index in Shares.          *)
(***************************************************************************)
EXTENDS Library, Sums, WellFoundedInduction, TLAPS

-----------------------------------------------------------------------------
(* Names and keys.                                                         *)

LEMMA SepTyped == Sep \in Seq(Token) /\ Len(Sep) = 1 /\ Sep[1] = "/"
  <1>1. "/" \in Token
    BY SharesAssumption
  <1>2. Len(Sep) = 1 /\ Sep[1] = "/"
    BY DEF Sep
  <1>3. Sep \in Seq(Token)
    BY <1>1 DEF Sep
  <1> QED BY <1>2, <1>3

\* A share's own entry and all beneath it are told by their first part.
LEMMA NameOf ==
    ASSUME NEW n, IsName(n), NEW k \in Seq(Token), KeyMatches(k, n)
    PROVE  ShareOf(k) = n
  <1>0. n \in Seq(Token) /\ ~ \E i \in 1..Len(n) : n[i] = "/"
    BY DEF IsName, Contains
  <1>1. CASE k = n
    BY <1>0, <1>1 DEF ShareOf, Contains
  <1>2. CASE IsPrefix(n \o Sep, k)
    <2> DEFINE I == {i \in 1..Len(k) : k[i] = "/"}
               L == Len(n) + 1
    <2>1. L <= Len(k) /\ \A i \in 1..L : k[i] = (n \o Sep)[i]
      BY <1>0, <1>2 DEF IsPrefix, Sep
    <2>2. L \in I /\ \A i \in I : L <= i
      BY <1>0, <2>1 DEF Sep
    <2>3. Min(I) = L
      BY <2>2 DEF Min
    <2>4. ShareOf(k) = SubSeq(k, 1, L - 1)
      BY <2>2, <2>3 DEF ShareOf, Contains, SelectInSeq
    <2>5. \A i \in 1..Len(n) : k[i] = n[i]
      BY <1>0, <2>1 DEF Sep
    <2> QED BY <1>0, <2>1, <2>4, <2>5
  <1> QED BY <1>1, <1>2 DEF KeyMatches

\* Two names one of which is not the other share no key.
LEMMA OneName ==
    ASSUME NEW m, IsName(m), NEW n, IsName(n), NEW k \in Seq(Token),
           KeyMatches(k, m), KeyMatches(k, n)
    PROVE  m = n
  <1>1. ShareOf(k) = m
    BY NameOf
  <1>2. ShareOf(k) = n
    BY NameOf
  <1> QED BY <1>1, <1>2

\* The name comes first in the key, and the first separator after it.
LEMMA FileKeyParts ==
    ASSUME NEW n \in Seq(Token), NEW p \in Seq(Token)
    PROVE  /\ n \o Sep \in Seq(Token) /\ Len(n \o Sep) = Len(n) + 1
           /\ (n \o Sep)[Len(n) + 1] = "/"
           /\ \A i \in 1..Len(n) : (n \o Sep)[i] = n[i]
           /\ FileKey(n, p) \in Seq(Token) /\ Len(FileKey(n, p)) = Len(n) + 1 + Len(p)
           /\ \A i \in 1..(Len(n) + 1) : FileKey(n, p)[i] = (n \o Sep)[i]
  <1>1. \A s, t \in Seq(Token) :
           /\ s \o t \in Seq(Token) /\ Len(s \o t) = Len(s) + Len(t)
           /\ \A i \in 1..Len(s) : (s \o t)[i] = s[i]
           /\ \A i \in 1..Len(t) : (s \o t)[Len(s) + i] = t[i]
    OBVIOUS
  <1>2. PICK e \in Seq(Token) : e = Sep /\ Len(e) = 1 /\ e[1] = "/"
    BY SepTyped
  <1>3. PICK h \in Seq(Token) : h = n \o Sep
    BY <1>1, <1>2
  <1>4. Len(h) = Len(n) + 1 /\ h[Len(n) + 1] = "/" /\ \A i \in 1..Len(n) : h[i] = n[i]
    <2>0. h = n \o e
      BY <1>2, <1>3
    <2>1. Len(h) = Len(n) + 1
      <3>1. Len(h) = Len(n) + Len(e)
        BY <2>0
      <3>2. Len(n) \in Nat /\ Len(e) = 1
        BY <1>2
      <3> QED BY <3>1, <3>2
    <2>4. \A i \in 1..Len(n) : h[i] = n[i]
      BY <2>0
    <2>2. 1 \in 1..Len(e)
      BY <1>2
    <2>3. h[Len(n) + 1] = e[1]
      BY <1>1, <1>2, <1>3, <2>2
    <2> QED BY <1>2, <2>1, <2>3, <2>4
  <1>5. FileKey(n, p) = h \o p
    BY <1>3 DEF FileKey
  <1>6. /\ FileKey(n, p) \in Seq(Token) /\ Len(FileKey(n, p)) = Len(h) + Len(p)
        /\ \A i \in 1..Len(h) : FileKey(n, p)[i] = h[i]
    BY <1>1, <1>5
  <1> QED BY <1>3, <1>4, <1>6

LEMMA FileKeyMatches ==
    ASSUME NEW n, IsName(n), NEW p \in Seq(Token)
    PROVE  /\ FileKey(n, p) \in Seq(Token)
           /\ KeyMatches(FileKey(n, p), n)
           /\ ShareOf(FileKey(n, p)) = n
  <1>1. n \in Seq(Token)
    BY DEF IsName
  <1>2. PICK k \in Seq(Token) : k = FileKey(n, p)
    BY <1>1, FileKeyParts
  <1>3. PICK t \in Seq(Token) : t = n \o Sep
    BY <1>1, FileKeyParts
  <1>4. Len(t) <= Len(k) /\ \A i \in 1..Len(t) : k[i] = t[i]
    <2>1. Len(t) = Len(n) + 1 /\ Len(k) = Len(n) + 1 + Len(p)
      BY <1>1, <1>2, <1>3, FileKeyParts
    <2>2. \A i \in 1..(Len(n) + 1) : k[i] = t[i]
      BY <1>1, <1>2, <1>3, FileKeyParts
    <2> QED BY <1>1, <2>1, <2>2
  <1>5. SubSeq(t, 1, Len(t)) = SubSeq(k, 1, Len(t))
    BY <1>4
  <1>6. KeyMatches(k, n)
    BY <1>3, <1>4, <1>5 DEF IsPrefix, KeyMatches
  <1> QED BY <1>2, <1>6, NameOf

\* The directories of a file are the root, its share's own and some beneath that.
LEMMA AncestorsMatch ==
    ASSUME NEW n, IsName(n), NEW p \in Seq(Token), NEW a \in Ancestors(FileKey(n, p))
    PROVE  a \in Seq(Token) /\ (a = Root \/ KeyMatches(a, n))
  <1>1. n \in Seq(Token) /\ ~ \E i \in 1..Len(n) : n[i] = "/"
    BY DEF IsName, Contains
  <1>2. PICK k \in Seq(Token) : k = FileKey(n, p)
    BY <1>1, FileKeyParts
  <1>3. PICK t \in Seq(Token) : t = n \o Sep
    BY <1>1, FileKeyParts
  <1>4. /\ Len(t) = Len(n) + 1 /\ Len(k) = Len(n) + 1 + Len(p)
        /\ \A i \in 1..Len(t) : k[i] = t[i]
        /\ t[Len(t)] = "/" /\ \A i \in 1..Len(n) : t[i] = n[i]
    <2>1. Len(n) \in Nat
      BY <1>1
    <2>2. Len(t) = Len(n) + 1
      BY <1>1, <1>3, FileKeyParts
    <2>3. Len(k) = Len(n) + 1 + Len(p)
      BY <1>1, <1>2, FileKeyParts
    <2>4. \A i \in 1..(Len(n) + 1) : k[i] = t[i]
      <3>1. n \in Seq(Token)
        BY <1>1
      <3> QED BY <1>2, <1>3, <3>1, FileKeyParts
    <2>5. t[Len(n) + 1] = "/"
      BY <1>1, <1>3, FileKeyParts
    <2>6. \A i \in 1..Len(n) : t[i] = n[i]
      BY <1>1, <1>3, FileKeyParts
    <2> QED BY <2>1, <2>2, <2>3, <2>4, <2>5, <2>6
  <1>5. CASE a = Root
    BY <1>5 DEF Root
  <1>6. CASE a # Root
    <2>1. PICK j \in 1..Len(k) : k[j] = "/" /\ a = SubSeq(k, 1, j - 1)
      BY <1>2, <1>6 DEF Ancestors
    <2>2. a \in Seq(Token) /\ Len(a) = j - 1 /\ \A i \in 1..(j - 1) : a[i] = k[i]
      BY <2>1
    <2>3. j >= Len(t)
      <3>1. SUFFICES ASSUME j < Len(t) PROVE FALSE
        BY <1>4
      <3>2. j \in 1..Len(n) /\ j \in 1..Len(t)
        BY <1>1, <1>4, <3>1
      <3>3. n[j] = "/"
        BY <1>4, <2>1, <3>2
      <3> QED BY <1>1, <3>2, <3>3
    <2>4. CASE j = Len(t)
      <3>1. a = n
        BY <1>1, <1>4, <2>2, <2>4
      <3> QED BY <2>2, <3>1 DEF KeyMatches
    <2>5. CASE j > Len(t)
      <3>1. SubSeq(t, 1, Len(t)) = SubSeq(a, 1, Len(t))
        BY <1>4, <2>2, <2>5
      <3> QED BY <1>3, <2>2, <2>5, <3>1 DEF KeyMatches, IsPrefix
    <2> QED BY <2>3, <2>4, <2>5
  <1> QED BY <1>5, <1>6

-----------------------------------------------------------------------------
(* Names that are chosen.                                                  *)

LEMMA EndIsName ==
    ASSUME NEW d \in Directories, NEW p \in Starts(d)
    PROVE  IsName(EndOf(d, p))
  <1>1. d \in Seq(Token) /\ d # <<>> /\ d[Len(d)] # "/"
    BY SharesAssumption DEF IsPath
  <1>2. PICK L \in Nat : L = Len(d) /\ DOMAIN d = 1..L /\ L > 0
    BY <1>1
  <1>3. p \in 0..(L - 1)
    BY <1>1, <1>2 DEF Starts
  <1>4. PICK N \in Nat \ {0} : N = L - p
    <2>1. PICK i \in Int : i = p /\ 0 <= i /\ i <= L - 1
      BY <1>3
    <2>2. L - i \in Nat \ {0}
      BY <2>1
    <2> QED BY <2>1, <2>2
  <1>5. EndOf(d, p) = [i \in 1..N |-> IF d[p + i] = "/" THEN " - " ELSE d[p + i]]
    BY <1>2, <1>4 DEF EndOf
  <1>6. \A i \in 1..N : d[p + i] \in Token
    <2>1. \A i \in 1..N : p + i \in 1..L
      BY <1>2, <1>3, <1>4
    <2>2. \A j \in 1..L : d[j] \in Token
      BY <1>1, <1>2
    <2> QED BY <2>1, <2>2
  <1>7. " - " \in Token
    BY SharesAssumption
  <1>8. \A i \in 1..N : EndOf(d, p)[i] \in Token
    BY <1>5, <1>6, <1>7
  <1>9. \A i \in 1..N : EndOf(d, p)[i] # "/"
    BY <1>5
  <1>10. EndOf(d, p) \in [1..N -> Token]
    BY <1>5, <1>8
  <1>11. EndOf(d, p) \in Seq(Token) /\ Len(EndOf(d, p)) = N
    BY <1>4, <1>10
  <1> QED BY <1>4, <1>9, <1>11 DEF IsName, Contains

LEMMA NumberedIsName ==
    ASSUME NEW d \in Directories, NEW p \in Starts(d), NEW i \in DOMAIN Numerals
    PROVE  IsName(Numbered(d, p, i))
  <1>1. PICK e \in Seq(Token) : e = EndOf(d, p) /\ \A j \in 1..Len(e) : e[j] # "/"
    BY EndIsName DEF IsName, Contains
  <1>2. PICK x \in Token : x = Numerals[i] /\ x # "/"
    <2>1. Numerals \in Seq(Token \ {"/"})
      BY SharesAssumption
    <2> QED BY <2>1
  <1>3. PICK y \in Token : y = " - " /\ y # "/"
    BY SharesAssumption
  <1>4. PICK t \in Seq(Token) : t = <<y, x>>
    <2>1. <<y, x>> \in Token \X Token
      OBVIOUS
    <2>2. <<y, x>> \in Seq(Token)
      BY <2>1
    <2> QED BY <2>2
  <1>5. Numbered(d, p, i) = e \o t
    BY <1>1, <1>2, <1>3, <1>4 DEF Numbered
  <1>6. Len(t) = 2 /\ t[1] = y /\ t[2] = x
    BY <1>4
  <1>7. e \o t \in Seq(Token) /\ Len(e \o t) = Len(e) + Len(t)
    OBVIOUS
  <1>8. \A j \in 1..Len(e \o t) : (e \o t)[j] # "/"
    <2>1. SUFFICES ASSUME NEW j \in 1..Len(e \o t) PROVE (e \o t)[j] # "/"
      OBVIOUS
    <2>2. CASE j <= Len(e)
      <3>1. j \in 1..Len(e) /\ (e \o t)[j] = e[j]
        BY <1>7, <2>2
      <3> QED BY <1>1, <3>1
    <2>3. CASE j > Len(e)
      <3>1. (e \o t)[j] = t[j - Len(e)]
        BY <1>7, <2>3
      <3>2. PICK l \in Nat : l = j - Len(e) /\ 1 <= l /\ l <= Len(t)
        <4>1. PICK a \in Nat, b \in Nat : a = Len(e) /\ b = Len(t)
          OBVIOUS
        <4>2. Len(e \o t) = a + b
          BY <1>7, <4>1
        <4>3. j \in 1..(a + b) /\ j > a
          BY <2>3, <4>1, <4>2
        <4>4. j - a \in Nat /\ 1 <= j - a /\ j - a <= b
          BY <4>3
        <4> QED BY <4>1, <4>4
      <3>3. l \in {1, 2}
        BY <1>6, <3>2
      <3> QED BY <1>2, <1>3, <1>6, <3>1, <3>2, <3>3
    <2> QED BY <2>2, <2>3, <1>7
  <1>9. e \o t # <<>>
    <2>1. Len(e \o t) = Len(e) + Len(t) /\ Len(t) \in Nat /\ Len(e) \in Nat
      BY <1>7
    <2>2. Len(e \o t) # 0
      BY <1>6, <2>1
    <2> QED BY <2>2
  <1> QED BY <1>5, <1>7, <1>8, <1>9 DEF IsName, Contains

-----------------------------------------------------------------------------
(* The index.                                                              *)

File == [path : Seq(Token), size : Nat]
Op == [phase : {"idle", "subtract", "dirs", "files", "name", "insert", "walk", "merge"},
       scan : BOOLEAN, name : Seq(Token), dir : Directories \cup {None}, existing : Nat,
       last : Seq(Token) \cup {None}, todo : SUBSET File, file : File \cup {None},
       merges : SUBSET Seq(Token)]

\* What the trees hold, and what a call knows of what it is about.
OpTyped == op \in [Slot -> Op]
FilesTyped ==
    \A k \in DOMAIN files : k \in Seq(Token) /\ KeyMatches(k, ShareOf(k)) /\ files[k] \in Nat
DirsTyped == \A k \in DOMAIN dirs : k \in Seq(Token) /\ dirs[k] \in 0..(SizeMod - 1)
NamesTyped == \A n \in DOMAIN shareNames : IsName(n) /\ shareNames[n] \in Directories
AboutAShare ==
    \A s \in Slot : /\ ~At(s, "idle") => IsName(op[s].name) /\ op[s].dir \in Directories
                    /\ At(s, "merge") => op[s].file \in File
                    /\ \A d \in op[s].merges : d = Root \/ KeyMatches(d, op[s].name)
IndexTyped == OpTyped /\ FilesTyped /\ DirsTyped /\ NamesTyped /\ AboutAShare

\* Two calls are about one share only if it is torn.
OneCall == \A s, t \in Slot : ~At(s, "idle") /\ ~At(t, "idle") /\ op[s].name = op[t].name
                              => s = t \/ op[s].name \in torn
\* The directory a call is about is that of the share, and a scan has entered it before
\* it enters files.
Agrees == \A s \in Slot : ~At(s, "idle") /\ op[s].name \in DOMAIN shareNames
                          => op[s].name \in torn \/ shareNames[op[s].name] = op[s].dir
EnteredAt(s) == At(s, "walk") \/ At(s, "merge") => op[s].name \in torn \cup DOMAIN shareNames
\* The files a removal has not passed yet, and none when the name is to go.
PassedAt(s) == At(s, "files") /\ op[s].name \notin torn
                 => \A k \in DOMAIN files : KeyMatches(k, op[s].name)
                                            => op[s].last = None \/ Before(op[s].last, k)
EmptiedAt(s) == At(s, "name") /\ op[s].name \notin torn
                  => \A k \in DOMAIN files : ~KeyMatches(k, op[s].name)
OnTheWay == \A s \in Slot : EnteredAt(s) /\ PassedAt(s) /\ EmptiedAt(s)

IndexInv == IndexTyped /\ OneCall /\ Agrees /\ OnTheWay /\ FilesResolve

LEMMA ChosenName ==
    ASSUME NamesTyped, NEW d \in Directories, NEW n \in Owned(d) \cup Candidates(d), ShareNameFor(d, n)
    PROVE  IsName(n) /\ (n \in DOMAIN shareNames => shareNames[n] = d)
  <1>1. CASE Owned(d) # {}
    BY <1>1 DEF ShareNameFor, IsFirst, Owned, NamesTyped
  <1>2. CASE Owned(d) = {}
    <2>1. n \in Candidates(d)
      BY <1>2
    <2>2. IsName(n)
      BY <2>1, EndIsName, NumberedIsName DEF Candidates
    <2>3. ~Taken(n)
      BY <1>2 DEF ShareNameFor, FreeEnd, FreeNumber
    <2> QED BY <2>2, <2>3 DEF Taken
  <1> QED BY <1>1, <1>2

\* A call that goes on, or ends, and touches no name but its own: what is known of the
\* other calls is as it was.
Continues(s, o) ==
    /\ ~At(s, "idle") /\ op' = [op EXCEPT ![s] = o] /\ torn' = torn
    /\ o.phase = "idle" \/ (o.name = op[s].name /\ o.dir = op[s].dir)
    /\ \/ shareNames' = shareNames
       \/ shareNames' = Drop(shareNames, op[s].name)
       \/ shareNames' = Put(shareNames, op[s].name, op[s].dir)
    /\ \A k \in DOMAIN files' : k \in DOMAIN files \/ (k \in Seq(Token) /\ KeyMatches(k, op[s].name))
LEMMA OthersGoOn ==
    ASSUME IndexInv, NEW s \in Slot, NEW o \in Op, Continues(s, o)
    PROVE  /\ OpTyped' /\ NamesTyped' /\ OneCall' /\ Agrees'
           /\ \A t \in Slot \ {s} : (EnteredAt(t) /\ PassedAt(t) /\ EmptiedAt(t))'
  <1>1. OpTyped /\ NamesTyped /\ AboutAShare /\ OneCall /\ Agrees /\ OnTheWay
    BY DEF IndexInv, IndexTyped
  <1>2. OpTyped'
    BY <1>1 DEF OpTyped, Continues
  <1>3. op'[s] = o /\ \A t \in Slot \ {s} : op'[t] = op[t]
    BY <1>1 DEF OpTyped, Continues
  <1>4. IsName(op[s].name) /\ op[s].dir \in Directories
    BY <1>1 DEF AboutAShare, Continues
  <1>5. \A n \in DOMAIN shareNames' : \/ n = op[s].name /\ shareNames'[n] = op[s].dir
                                      \/ n \in DOMAIN shareNames /\ shareNames'[n] = shareNames[n]
    <2>1. CASE shareNames' = Drop(shareNames, op[s].name)
      BY <2>1 DEF Drop, Restrict
    <2>2. CASE shareNames' = Put(shareNames, op[s].name, op[s].dir)
      BY <2>2 DEF Put
    <2> QED BY <2>1, <2>2 DEF Continues
  <1>6. \A n \in DOMAIN shareNames : n = op[s].name \/ n \in DOMAIN shareNames'
    <2>1. CASE shareNames' = Drop(shareNames, op[s].name)
      BY <2>1 DEF Drop, Restrict
    <2>2. CASE shareNames' = Put(shareNames, op[s].name, op[s].dir)
      BY <2>2 DEF Put
    <2> QED BY <2>1, <2>2 DEF Continues
  <1>7. NamesTyped'
    BY <1>1, <1>4, <1>5 DEF NamesTyped
  <1>8. OneCall'
    BY <1>1, <1>3 DEF OneCall, At, Continues
  <1>9. Agrees'
    <2>1. SUFFICES ASSUME NEW t \in Slot, ~At(t, "idle")', op'[t].name \in DOMAIN shareNames',
                          op'[t].name \notin torn
                   PROVE  shareNames'[op'[t].name] = op'[t].dir
      BY DEF Agrees, Continues
    <2>2. ~At(t, "idle") /\ op'[t].name = op[t].name /\ op'[t].dir = op[t].dir
      BY <1>3, <2>1 DEF At, Continues
    <2>3. CASE op[t].name = op[s].name
      <3>1. t = s
        BY <1>1, <2>1, <2>2, <2>3 DEF OneCall, Continues
      <3> QED BY <1>1, <1>5, <2>1, <2>2, <3>1 DEF Agrees
    <2>4. CASE op[t].name # op[s].name
      BY <1>1, <1>5, <2>1, <2>2, <2>4 DEF Agrees
    <2> QED BY <2>3, <2>4
  <1>10. ASSUME NEW t \in Slot \ {s} PROVE (EnteredAt(t) /\ PassedAt(t) /\ EmptiedAt(t))'
    <2>1. op'[t] = op[t]
      BY <1>3
    <2>2. CASE At(t, "idle") \/ op[t].name \in torn
      BY <2>1, <2>2 DEF EnteredAt, PassedAt, EmptiedAt, At, Continues
    <2>3. CASE ~At(t, "idle") /\ op[t].name \notin torn
      <3>1. op[t].name # op[s].name /\ IsName(op[t].name)
        BY <1>1, <2>3 DEF OneCall, AboutAShare, Continues
      <3>2. \A k \in DOMAIN files' : KeyMatches(k, op[t].name) => k \in DOMAIN files
        BY <1>4, <3>1, OneName DEF Continues
      <3>3. EnteredAt(t) /\ PassedAt(t) /\ EmptiedAt(t)
        BY <1>1 DEF OnTheWay
      <3>4. EnteredAt(t)'
        BY <1>6, <2>1, <3>1, <3>3 DEF EnteredAt, At, Continues
      <3>5. PassedAt(t)'
        BY <2>1, <3>2, <3>3 DEF PassedAt, At, Continues
      <3>6. EmptiedAt(t)'
        BY <2>1, <3>2, <3>3 DEF EmptiedAt, At, Continues
      <3> QED BY <3>4, <3>5, <3>6
    <2> QED BY <2>2, <2>3
  <1> QED BY <1>2, <1>7, <1>8, <1>9, <1>10

LEMMA StepKeeps ==
    ASSUME IndexInv, NEW s \in Slot, NEW o \in Op, Continues(s, o), FilesTyped', DirsTyped',
           o.phase = "merge" => o.file \in File,
           \A d \in o.merges : d = Root \/ KeyMatches(d, o.name),
           (EnteredAt(s) /\ PassedAt(s) /\ EmptiedAt(s))',
           \A k \in DOMAIN files' : ShareOf(k) = op[s].name => op[s].name \in torn \cup DOMAIN shareNames'
    PROVE  IndexInv'
  <1>1. OpTyped /\ AboutAShare /\ OnTheWay /\ FilesResolve
    BY DEF IndexInv, IndexTyped
  <1>2. op'[s] = o /\ \A t \in Slot \ {s} : op'[t] = op[t]
    BY <1>1 DEF OpTyped, Continues
  <1>3. IsName(op[s].name) /\ op[s].dir \in Directories
    BY <1>1 DEF AboutAShare, Continues
  <1>4. AboutAShare'
    BY <1>1, <1>2, <1>3 DEF AboutAShare, At, Continues
  <1>5. OnTheWay'
    BY OthersGoOn DEF OnTheWay
  <1>6. \A n \in DOMAIN shareNames : n = op[s].name \/ n \in DOMAIN shareNames'
    <2>1. CASE shareNames' = Drop(shareNames, op[s].name)
      BY <2>1 DEF Drop, Restrict
    <2>2. CASE shareNames' = Put(shareNames, op[s].name, op[s].dir)
      BY <2>2 DEF Put
    <2> QED BY <2>1, <2>2 DEF Continues
  <1>7. FilesResolve'
    <2>1. SUFFICES ASSUME NEW k \in DOMAIN files', ShareOf(k) \notin torn
                   PROVE  ShareOf(k) \in DOMAIN shareNames'
      BY DEF FilesResolve, Resolves, Continues
    <2>2. CASE ShareOf(k) = op[s].name
      BY <2>1, <2>2
    <2>3. CASE ShareOf(k) # op[s].name
      <3>1. k \in DOMAIN files
        BY <1>3, <2>3, NameOf DEF Continues
      <3>2. ShareOf(k) \in DOMAIN shareNames
        BY <1>1, <2>1, <3>1 DEF FilesResolve, Resolves
      <3> QED BY <1>6, <2>3, <3>2
    <2> QED BY <2>2, <2>3
  <1> QED BY <1>4, <1>5, <1>7, OthersGoOn DEF IndexInv, IndexTyped

\* What the invariant says of one call.
LEMMA OfOne ==
    ASSUME IndexInv, NEW s \in Slot
    PROVE  /\ OpTyped /\ FilesTyped /\ DirsTyped /\ NamesTyped /\ op[s] \in Op
           /\ ~At(s, "idle") => IsName(op[s].name) /\ op[s].dir \in Directories
           /\ At(s, "merge") => op[s].file \in File
           /\ \A d \in op[s].merges : d = Root \/ KeyMatches(d, op[s].name)
           /\ EnteredAt(s) /\ PassedAt(s) /\ EmptiedAt(s) /\ FilesResolve
  BY DEF IndexInv, IndexTyped, OpTyped, AboutAShare, OnTheWay

LEMMA SubtractRootInv ==
    ASSUME IndexInv, NEW s \in Slot, SubtractRoot(s)
    PROVE  IndexInv'
  <1> DEFINE o == [op[s] EXCEPT !.phase = "dirs", !.last = None]
  <1>1. o \in Op /\ o.phase = "dirs" /\ o.name = op[s].name /\ o.dir = op[s].dir /\ o.merges = op[s].merges
    BY OfOne DEF Op
  <1>2. op' = [op EXCEPT ![s] = o] /\ op'[s] = o
    BY OfOne DEF SubtractRoot, OpTyped
  <1>3. Continues(s, o)
    BY <1>1, <1>2 DEF SubtractRoot, Continues, At
  <1>4. DirsTyped'
    <2>1. RootWithout(op[s].existing) \in 0..(SizeMod - 1)
      <3>0. SizeMod \in Nat \ {0}
        BY SharesAssumption
      <3>1. op[s].existing \in Nat /\ \A k \in DOMAIN dirs : dirs[k] \in Nat
        BY <3>0, OfOne DEF Op, DirsTyped
      <3>2. \A i \in Int : i % SizeMod \in 0..(SizeMod - 1)
        BY <3>0
      <3>3. 0 \in 0..(SizeMod - 1)
        BY <3>0
      <3> QED BY <3>1, <3>2, <3>3 DEF RootWithout
    <2>2. Root \in Seq(Token)
      BY DEF Root
    <2> QED BY <2>1, <2>2, OfOne DEF SubtractRoot, DirsTyped, Put
  <1>5. FilesTyped'
    BY OfOne DEF SubtractRoot, FilesTyped
  <1>6. (EnteredAt(s) /\ PassedAt(s) /\ EmptiedAt(s))'
    BY <1>1, <1>2 DEF EnteredAt, PassedAt, EmptiedAt, At
  <1>7. \A k \in DOMAIN files' : ShareOf(k) = op[s].name => op[s].name \in torn \cup DOMAIN shareNames'
    BY OfOne DEF SubtractRoot, FilesResolve, Resolves
  <1> HIDE DEF o
  <1> QED BY <1>1, <1>3, <1>4, <1>5, <1>6, <1>7, OfOne, StepKeeps

LEMMA RemoveDirsInv ==
    ASSUME IndexInv, NEW s \in Slot, RemoveDirs(s)
    PROVE  IndexInv'
  <1>1. PICK o \in Op : /\ o.phase \in {"dirs", "files"} /\ o.name = op[s].name /\ o.dir = op[s].dir
                        /\ o.merges = op[s].merges /\ op' = [op EXCEPT ![s] = o] /\ op'[s] = o
                        /\ o.phase = "files" => o.last = None
    <2>1. CASE Matching(s, dirs) = {}
      <3> DEFINE o == [op[s] EXCEPT !.phase = "files", !.last = None]
      <3>1. o \in Op /\ o.phase = "files" /\ o.last = None /\ o.name = op[s].name /\ o.dir = op[s].dir
            /\ o.merges = op[s].merges
        BY OfOne DEF Op
      <3>2. op' = [op EXCEPT ![s] = o] /\ op'[s] = o
        BY <2>1, OfOne DEF RemoveDirs, OpTyped
      <3> HIDE DEF o
      <3> QED BY <3>1, <3>2
    <2>2. CASE Matching(s, dirs) # {}
      <3>1. PICK k \in Matching(s, dirs) : op' = [op EXCEPT ![s].last = k]
        BY <2>2 DEF RemoveDirs
      <3> DEFINE o == [op[s] EXCEPT !.last = k]
      <3>2. k \in Seq(Token)
        BY OfOne DEF Matching, DirsTyped
      <3>3. o \in Op /\ o.phase = "dirs" /\ o.name = op[s].name /\ o.dir = op[s].dir
            /\ o.merges = op[s].merges
        BY <3>2, OfOne DEF Op, RemoveDirs, At
      <3>4. op' = [op EXCEPT ![s] = o] /\ op'[s] = o
        BY <3>1, OfOne DEF OpTyped
      <3> HIDE DEF o
      <3> QED BY <3>3, <3>4
    <2> QED BY <2>1, <2>2
  <1>2. Continues(s, o)
    BY <1>1 DEF RemoveDirs, Continues, At
  <1>3. DirsTyped'
    <2>1. \A k \in DOMAIN dirs' : k \in DOMAIN dirs /\ dirs'[k] = dirs[k]
      BY DEF RemoveDirs, Drop, Restrict
    <2> QED BY <2>1, OfOne DEF DirsTyped
  <1>4. FilesTyped'
    BY OfOne DEF RemoveDirs, FilesTyped
  <1>5. (EnteredAt(s) /\ PassedAt(s) /\ EmptiedAt(s))'
    BY <1>1 DEF EnteredAt, PassedAt, EmptiedAt, At
  <1>6. \A k \in DOMAIN files' : ShareOf(k) = op[s].name => op[s].name \in torn \cup DOMAIN shareNames'
    BY OfOne DEF RemoveDirs, FilesResolve, Resolves
  <1> QED BY <1>1, <1>2, <1>3, <1>4, <1>5, <1>6, OfOne, StepKeeps

LEMMA RemoveFilesInv ==
    ASSUME IndexInv, NEW s \in Slot, RemoveFiles(s)
    PROVE  IndexInv'
  <1>0. \A k \in DOMAIN files' : k \in DOMAIN files /\ files'[k] = files[k]
    BY DEF RemoveFiles, Drop, Restrict
  <1>1. PICK o \in Op : /\ o.phase \in {"files", "name"} /\ o.name = op[s].name /\ o.dir = op[s].dir
                        /\ o.merges = op[s].merges /\ op' = [op EXCEPT ![s] = o] /\ op'[s] = o
                        /\ (EnteredAt(s) /\ PassedAt(s) /\ EmptiedAt(s))'
    <2>1. CASE Matching(s, files) = {}
      <3> DEFINE o == [op[s] EXCEPT !.phase = "name", !.last = None]
      <3>1. o \in Op /\ o.phase = "name" /\ o.name = op[s].name /\ o.dir = op[s].dir
            /\ o.merges = op[s].merges
        BY OfOne DEF Op
      <3>2. op' = [op EXCEPT ![s] = o] /\ op'[s] = o
        BY <2>1, OfOne DEF RemoveFiles, OpTyped
      <3> HIDE DEF o
      <3>3. op[s].name \notin torn => \A k \in DOMAIN files : ~KeyMatches(k, op[s].name)
        BY <2>1, OfOne DEF PassedAt, Matching, RemoveFiles
      <3>4. (EnteredAt(s) /\ PassedAt(s) /\ EmptiedAt(s))'
        BY <1>0, <3>1, <3>2, <3>3 DEF EnteredAt, PassedAt, EmptiedAt, At, RemoveFiles
      <3> QED BY <3>1, <3>2, <3>4
    <2>2. CASE Matching(s, files) # {}
      <3>1. PICK k \in Matching(s, files) : /\ IsFirst(k, Matching(s, files))
                                            /\ files' = Drop(files, k) /\ op' = [op EXCEPT ![s].last = k]
        BY <2>2 DEF RemoveFiles
      <3> DEFINE o == [op[s] EXCEPT !.last = k]
      <3>2. k \in Seq(Token)
        BY OfOne DEF Matching, FilesTyped
      <3>3. o \in Op /\ o.phase = "files" /\ o.name = op[s].name /\ o.dir = op[s].dir
            /\ o.merges = op[s].merges /\ o.last = k
        BY <3>2, OfOne DEF Op, RemoveFiles, At
      <3>4. op' = [op EXCEPT ![s] = o] /\ op'[s] = o
        BY <3>1, OfOne DEF OpTyped
      <3> HIDE DEF o
      <3>5. op[s].name \notin torn => \A l \in DOMAIN files' : KeyMatches(l, op[s].name) => Before(k, l)
        <4>1. SUFFICES ASSUME op[s].name \notin torn, NEW l \in DOMAIN files', KeyMatches(l, op[s].name)
                       PROVE  Before(k, l)
          OBVIOUS
        <4>2. l \in DOMAIN files /\ l # k
          BY <3>1 DEF Drop, Restrict
        <4>3. l \in Matching(s, files)
          BY <4>1, <4>2, OfOne DEF PassedAt, Matching, RemoveFiles
        <4> QED BY <3>1, <4>2, <4>3 DEF IsFirst
      <3>6. (EnteredAt(s) /\ PassedAt(s) /\ EmptiedAt(s))'
        BY <3>3, <3>4, <3>5 DEF EnteredAt, PassedAt, EmptiedAt, At, RemoveFiles
      <3> QED BY <3>3, <3>4, <3>6
    <2> QED BY <2>1, <2>2
  <1>2. Continues(s, o)
    BY <1>0, <1>1 DEF RemoveFiles, Continues, At
  <1>3. DirsTyped'
    BY OfOne DEF RemoveFiles, DirsTyped
  <1>4. FilesTyped'
    BY <1>0, OfOne DEF FilesTyped
  <1>5. \A k \in DOMAIN files' : ShareOf(k) = op[s].name => op[s].name \in torn \cup DOMAIN shareNames'
    BY <1>0, OfOne DEF RemoveFiles, FilesResolve, Resolves
  <1> QED BY <1>1, <1>2, <1>3, <1>4, <1>5, OfOne, StepKeeps

LEMMA NoOpTyped == NoOp \in Op /\ NoOp.phase = "idle" /\ NoOp.merges = {}
  BY DEF NoOp, Op, Root

LEMMA RemoveNameInv ==
    ASSUME IndexInv, NEW s \in Slot, RemoveName(s)
    PROVE  IndexInv'
  <1>1. PICK o \in Op : /\ o.phase \in {"insert", "idle"}
                        /\ o.phase = "idle" \/ (o.name = op[s].name /\ o.dir = op[s].dir)
                        /\ \A d \in o.merges : d = Root \/ KeyMatches(d, o.name)
                        /\ op' = [op EXCEPT ![s] = o] /\ op'[s] = o
    <2>1. CASE op[s].scan
      <3> DEFINE o == [op[s] EXCEPT !.phase = "insert"]
      <3>1. o \in Op /\ o.phase = "insert" /\ o.name = op[s].name /\ o.dir = op[s].dir
            /\ o.merges = op[s].merges
        BY OfOne DEF Op
      <3>2. op' = [op EXCEPT ![s] = o] /\ op'[s] = o
        BY <2>1, OfOne DEF RemoveName, OpTyped
      <3> HIDE DEF o
      <3> QED BY <3>1, <3>2, OfOne
    <2>2. CASE ~op[s].scan
      <3>1. op' = [op EXCEPT ![s] = NoOp] /\ op'[s] = NoOp
        BY <2>2, OfOne DEF RemoveName, OpTyped
      <3> QED BY <3>1, NoOpTyped
    <2> QED BY <2>1, <2>2
  <1>2. Continues(s, o)
    BY <1>1 DEF RemoveName, Continues, At
  <1>3. DirsTyped' /\ FilesTyped'
    BY OfOne DEF RemoveName, DirsTyped, FilesTyped
  <1>4. (EnteredAt(s) /\ PassedAt(s) /\ EmptiedAt(s))'
    BY <1>1 DEF EnteredAt, PassedAt, EmptiedAt, At
  <1>5. \A k \in DOMAIN files' : ShareOf(k) = op[s].name => op[s].name \in torn \cup DOMAIN shareNames'
    BY OfOne DEF RemoveName, EmptiedAt, FilesTyped
  <1> QED BY <1>1, <1>2, <1>3, <1>4, <1>5, StepKeeps

LEMMA InsertNameInv ==
    ASSUME IndexInv, NEW s \in Slot, InsertName(s)
    PROVE  IndexInv'
  <1>1. PICK t \in Trees[op[s].dir] : op' = [op EXCEPT ![s].phase = "walk", ![s].todo = t]
    BY DEF InsertName
  <1>2. t \in SUBSET File
    <2>1. op[s].dir \in Directories
      BY OfOne DEF InsertName, At
    <2>2. IsTree(t)
      BY <2>1, SharesAssumption
    <2> QED BY <2>2 DEF IsTree, File
  <1> DEFINE o == [op[s] EXCEPT !.phase = "walk", !.todo = t]
  <1>3. o \in Op /\ o.phase = "walk" /\ o.name = op[s].name /\ o.dir = op[s].dir /\ o.merges = op[s].merges
    BY <1>2, OfOne DEF Op
  <1>4. op' = [op EXCEPT ![s] = o] /\ op'[s] = o
    BY <1>1, OfOne DEF OpTyped
  <1> HIDE DEF o
  <1>5. Continues(s, o)
    BY <1>3, <1>4 DEF InsertName, Continues, At
  <1>6. DirsTyped' /\ FilesTyped'
    BY OfOne DEF InsertName, DirsTyped, FilesTyped
  <1>7. op[s].name \in DOMAIN shareNames'
    BY DEF InsertName, Put
  <1>8. (EnteredAt(s) /\ PassedAt(s) /\ EmptiedAt(s))'
    BY <1>3, <1>4, <1>7 DEF EnteredAt, PassedAt, EmptiedAt, At
  <1> QED BY <1>3, <1>5, <1>6, <1>7, <1>8, OfOne, StepKeeps

LEMMA WalkToInv ==
    ASSUME IndexInv, NEW s \in Slot, WalkTo(s)
    PROVE  IndexInv'
  <1>1. PICK f \in op[s].todo : op' = [op EXCEPT ![s].phase = "merge", ![s].file = f, ![s].todo = @ \ {f},
                                                  ![s].merges = Ancestors(FileKey(op[s].name, f.path))]
    BY DEF WalkTo
  <1>2. PICK A : A = Ancestors(FileKey(op[s].name, f.path))
    OBVIOUS
  <1>3. f \in File /\ IsName(op[s].name)
    BY OfOne DEF WalkTo, At, Op
  <1>4. \A d \in A : d \in Seq(Token) /\ (d = Root \/ KeyMatches(d, op[s].name))
    BY <1>2, <1>3, AncestorsMatch DEF File
  <1> DEFINE o == [op[s] EXCEPT !.phase = "merge", !.file = f, !.todo = @ \ {f}, !.merges = A]
  <1>5. /\ o \in Op /\ o.phase = "merge" /\ o.name = op[s].name /\ o.dir = op[s].dir
        /\ o.merges = A /\ o.file \in File
    BY <1>3, <1>4, OfOne DEF Op
  <1>6. op' = [op EXCEPT ![s] = o] /\ op'[s] = o
    BY <1>1, <1>2, OfOne DEF OpTyped
  <1> HIDE DEF o
  <1>7. Continues(s, o)
    BY <1>5, <1>6 DEF WalkTo, Continues, trees, At
  <1>8. DirsTyped' /\ FilesTyped'
    BY OfOne DEF WalkTo, DirsTyped, trees, FilesTyped
  <1>9. (EnteredAt(s) /\ PassedAt(s) /\ EmptiedAt(s))'
    BY <1>5, <1>6, OfOne DEF EnteredAt, PassedAt, EmptiedAt, At, WalkTo, trees
  <1>10. \A k \in DOMAIN files' : ShareOf(k) = op[s].name => op[s].name \in torn \cup DOMAIN shareNames'
    BY OfOne DEF WalkTo, FilesResolve, trees, Resolves
  <1> QED BY <1>4, <1>5, <1>7, <1>8, <1>9, <1>10, StepKeeps

LEMMA MergeInv ==
    ASSUME IndexInv, NEW s \in Slot, Merge(s)
    PROVE  IndexInv'
  <1>1. PICK d \in op[s].merges : /\ dirs' = Put(dirs, d, (SizeOf(d) + op[s].file.size) % SizeMod)
                                  /\ op' = [op EXCEPT ![s].merges = @ \ {d}]
    BY DEF Merge
  <1> DEFINE o == [op[s] EXCEPT !.merges = @ \ {d}]
  <1>2. /\ o \in Op /\ o.phase = "merge" /\ o.name = op[s].name /\ o.dir = op[s].dir
        /\ o.merges \subseteq op[s].merges /\ o.file \in File
    BY OfOne DEF Op, Merge, At
  <1>3. op' = [op EXCEPT ![s] = o] /\ op'[s] = o
    BY <1>1, OfOne DEF OpTyped
  <1> HIDE DEF o
  <1>4. Continues(s, o)
    BY <1>2, <1>3 DEF Merge, Continues, At
  <1>5. DirsTyped'
    <2>0. SizeMod \in Nat \ {0}
      BY SharesAssumption
    <2>4. op[s].file.size \in Nat
      BY OfOne DEF Merge, File
    <2>5. SizeOf(d) \in Nat
      BY <2>0, OfOne DEF SizeOf, DirsTyped
    <2>1. SizeMod \in Nat \ {0} /\ SizeOf(d) \in Nat /\ op[s].file.size \in Nat
      BY <2>0, <2>4, <2>5
    <2>2. (SizeOf(d) + op[s].file.size) % SizeMod \in 0..(SizeMod - 1)
      BY <2>1
    <2>3. d \in Seq(Token)
      BY OfOne DEF Op
    <2> QED BY <1>1, <2>2, <2>3, OfOne DEF DirsTyped, Put
  <1>6. FilesTyped'
    BY OfOne DEF Merge, FilesTyped
  <1>7. (EnteredAt(s) /\ PassedAt(s) /\ EmptiedAt(s))'
    BY <1>2, <1>3, OfOne DEF EnteredAt, PassedAt, EmptiedAt, At, Merge
  <1>8. \A k \in DOMAIN files' : ShareOf(k) = op[s].name => op[s].name \in torn \cup DOMAIN shareNames'
    BY OfOne DEF Merge, FilesResolve, Resolves
  <1> QED BY <1>2, <1>4, <1>5, <1>6, <1>7, <1>8, OfOne, StepKeeps

LEMMA InsertFileInv ==
    ASSUME IndexInv, NEW s \in Slot, InsertFile(s)
    PROVE  IndexInv'
  <1>1. PICK k : k = FileKey(op[s].name, op[s].file.path)
    OBVIOUS
  <1>2. IsName(op[s].name) /\ op[s].file \in File
    BY OfOne DEF InsertFile, At
  <1>3. k \in Seq(Token) /\ KeyMatches(k, op[s].name) /\ ShareOf(k) = op[s].name
    BY <1>1, <1>2, FileKeyMatches DEF File
  <1> DEFINE o == [op[s] EXCEPT !.phase = "walk", !.file = None]
  <1>4. o \in Op /\ o.phase = "walk" /\ o.name = op[s].name /\ o.dir = op[s].dir /\ o.merges = op[s].merges
    BY OfOne DEF Op
  <1>5. op' = [op EXCEPT ![s] = o] /\ op'[s] = o
    BY OfOne DEF OpTyped, InsertFile
  <1> HIDE DEF o
  <1>6. files' = Put(files, k, op[s].file.size)
    BY <1>1 DEF InsertFile
  <1>7. Continues(s, o)
    BY <1>3, <1>4, <1>5, <1>6 DEF InsertFile, Continues, At, Put
  <1>8. DirsTyped'
    BY OfOne DEF InsertFile, DirsTyped
  <1>9. FilesTyped'
    BY <1>2, <1>3, <1>6, OfOne DEF FilesTyped, Put, File
  <1>10. op[s].name \in torn \cup DOMAIN shareNames'
    BY OfOne DEF InsertFile, EnteredAt
  <1>11. (EnteredAt(s) /\ PassedAt(s) /\ EmptiedAt(s))'
    BY <1>4, <1>5, <1>10 DEF EnteredAt, PassedAt, EmptiedAt, At, InsertFile
  <1> QED BY <1>4, <1>7, <1>8, <1>9, <1>10, <1>11, OfOne, StepKeeps

LEMMA WalkEndsInv ==
    ASSUME IndexInv, NEW s \in Slot, WalkEnds(s)
    PROVE  IndexInv'
  <1>1. op' = [op EXCEPT ![s] = NoOp] /\ op'[s] = NoOp
    BY OfOne DEF WalkEnds, OpTyped
  <1>2. Continues(s, NoOp)
    BY <1>1, NoOpTyped DEF WalkEnds, Continues, trees, At
  <1>3. DirsTyped' /\ FilesTyped'
    BY OfOne DEF WalkEnds, DirsTyped, trees, FilesTyped
  <1>4. (EnteredAt(s) /\ PassedAt(s) /\ EmptiedAt(s))'
    BY <1>1, NoOpTyped DEF EnteredAt, PassedAt, EmptiedAt, At
  <1>5. \A k \in DOMAIN files' : ShareOf(k) = op[s].name => op[s].name \in torn \cup DOMAIN shareNames'
    BY OfOne DEF WalkEnds, FilesResolve, trees, Resolves
  <1> QED BY <1>2, <1>3, <1>4, <1>5, NoOpTyped, StepKeeps

LEMMA BeginInv ==
    ASSUME IndexInv, NEW s \in Slot, NEW scan \in BOOLEAN, NEW d \in Directories, NEW n,
           IsName(n), n \in DOMAIN shareNames => shareNames[n] = d, Begin(s, scan, d, n)
    PROVE  IndexInv'
  <1> DEFINE b == [NoOp EXCEPT !.scan = scan, !.dir = d, !.name = n]
  <1>1. /\ b.scan = scan /\ b.dir = d /\ b.name = n /\ b.merges = {} /\ b \in Op
        /\ [b EXCEPT !.phase = "insert"] \in Op
        /\ \A e \in Nat : [b EXCEPT !.phase = "subtract", !.existing = e] \in Op
    BY NoOpTyped DEF Op, NoOp, IsName
  <1>2. PICK o \in Op : /\ op' = [op EXCEPT ![s] = o] /\ op'[s] = o
                        /\ o.phase \in {"subtract", "insert", "idle"} /\ o.merges = {}
                        /\ o.phase = "idle" \/ (o.name = n /\ o.dir = d)
    <2>1. CASE n \in DOMAIN dirs
      <3>1. PICK e \in Nat : e = dirs[n]
        <4>1. SizeMod \in Nat
          BY SharesAssumption
        <4> QED BY <2>1, <4>1, OfOne DEF DirsTyped
      <3> DEFINE o == [b EXCEPT !.phase = "subtract", !.existing = e]
      <3>2. o \in Op /\ o.phase = "subtract" /\ o.merges = {} /\ o.name = n /\ o.dir = d
        BY <1>1 DEF NoOp
      <3>3. op' = [op EXCEPT ![s] = o] /\ op'[s] = o
        BY <2>1, <3>1, OfOne DEF Begin, OpTyped
      <3> HIDE DEF o
      <3> QED BY <3>2, <3>3
    <2>2. CASE n \notin DOMAIN dirs /\ scan
      <3> DEFINE o == [b EXCEPT !.phase = "insert"]
      <3>2. o \in Op /\ o.phase = "insert" /\ o.merges = {} /\ o.name = n /\ o.dir = d
        BY <1>1 DEF NoOp
      <3>3. op' = [op EXCEPT ![s] = o] /\ op'[s] = o
        BY <2>2, OfOne DEF Begin, OpTyped
      <3> HIDE DEF o
      <3> QED BY <3>2, <3>3
    <2>3. CASE n \notin DOMAIN dirs /\ ~scan
      <3>1. op' = [op EXCEPT ![s] = NoOp] /\ op'[s] = NoOp
        BY <2>3, OfOne DEF Begin, OpTyped
      <3> QED BY <3>1, NoOpTyped
    <2> QED BY <2>1, <2>2, <2>3
  <1> HIDE DEF b
  <1>3. UNCHANGED <<files, dirs, shareNames>> /\ torn \subseteq torn'
    BY DEF Begin, trees
  <1>4. \A t \in Slot : ~At(t, "idle") /\ op[t].name = n => n \in torn'
    BY DEF Begin
  <1>5. \A t \in Slot \ {s} : op'[t] = op[t]
    BY <1>2, OfOne DEF OpTyped
  <1>6. OpTyped /\ FilesTyped /\ DirsTyped /\ NamesTyped /\ AboutAShare /\ OneCall /\ Agrees /\ OnTheWay
        /\ FilesResolve
    BY DEF IndexInv, IndexTyped
  <1>7. OpTyped' /\ FilesTyped' /\ DirsTyped' /\ NamesTyped'
    BY <1>2, <1>3, <1>6 DEF OpTyped, FilesTyped, DirsTyped, NamesTyped
  <1>8. AboutAShare'
    BY <1>2, <1>5, <1>6 DEF AboutAShare, At
  <1>9. OneCall'
    BY <1>2, <1>3, <1>4, <1>5, <1>6 DEF OneCall, At
  <1>10. Agrees'
    BY <1>2, <1>3, <1>5, <1>6 DEF Agrees, At
  <1>11. OnTheWay'
    BY <1>2, <1>3, <1>5, <1>6 DEF OnTheWay, EnteredAt, PassedAt, EmptiedAt, At
  <1>12. FilesResolve'
    BY <1>3, <1>6 DEF FilesResolve, Resolves
  <1> QED BY <1>7, <1>8, <1>9, <1>10, <1>11, <1>12 DEF IndexInv, IndexTyped

LEMMA CrashInv ==
    ASSUME IndexInv, Crash
    PROVE  IndexInv'
  <1>1. OpTyped /\ FilesTyped /\ DirsTyped /\ NamesTyped /\ FilesResolve
    BY DEF IndexInv, IndexTyped
  <1>2. UNCHANGED <<files, dirs, shareNames, torn>>
    BY DEF Crash, trees
  <1>3. OpTyped' /\ \A s \in Slot : op'[s] = NoOp
    BY NoOpTyped DEF Crash, OpTyped
  <1>4. FilesTyped' /\ DirsTyped' /\ NamesTyped' /\ FilesResolve'
    BY <1>1, <1>2 DEF FilesTyped, DirsTyped, NamesTyped, FilesResolve, Resolves
  <1>5. AboutAShare' /\ OneCall' /\ Agrees' /\ OnTheWay'
    BY <1>3, NoOpTyped DEF AboutAShare, OneCall, Agrees, OnTheWay, EnteredAt, PassedAt, EmptiedAt, At
  <1> QED BY <1>3, <1>4, <1>5 DEF IndexInv, IndexTyped

\* No step of the index breaks its invariant.
LEMMA IndexKeeps ==
    ASSUME IndexInv, IndexNext \/ Crash
    PROVE  IndexInv'
  <1>1. ASSUME NEW s \in Slot, Scan(s) PROVE IndexInv'
    <2>1. PICK d \in Directories : \E n \in Owned(d) \cup Candidates(d) :
                                      ShareNameFor(d, n) /\ Begin(s, TRUE, d, n)
      BY <1>1 DEF Scan
    <2>2. PICK n \in Owned(d) \cup Candidates(d) : ShareNameFor(d, n) /\ Begin(s, TRUE, d, n)
      BY <2>1
    <2>3. IsName(n) /\ (n \in DOMAIN shareNames => shareNames[n] = d)
      BY <2>2, ChosenName DEF IndexInv, IndexTyped
    <2> QED BY <2>2, <2>3, BeginInv
  <1>2. ASSUME NEW s \in Slot, RemoveShareDir(s) PROVE IndexInv'
    <2>1. PICK n \in DOMAIN shareNames : Begin(s, FALSE, shareNames[n], n)
      BY <1>2 DEF RemoveShareDir
    <2>2. IsName(n) /\ shareNames[n] \in Directories
      BY DEF IndexInv, IndexTyped, NamesTyped
    <2> QED BY <2>1, <2>2, BeginInv
  <1>3. ASSUME NEW s \in Slot, IndexStep(s) PROVE IndexInv'
    BY <1>3, SubtractRootInv, RemoveDirsInv, RemoveFilesInv, RemoveNameInv, InsertNameInv,
       WalkToInv, MergeInv, InsertFileInv, WalkEndsInv DEF IndexStep
  <1> QED BY <1>1, <1>2, <1>3, CrashInv DEF IndexNext

LEMMA IndexBegins ==
    ASSUME Init
    PROVE  IndexInv
  <1>1. PICK x \in Sessions : IndexInit(x.shared)
    BY DEF Init
  <1>2. PICK shared : shared = x.shared
    OBVIOUS
  <1>3. \A n \in DOMAIN shared : IsName(n) /\ shared[n].dir \in Directories /\ IsTree(shared[n].tree)
    BY <1>1, <1>2, LibraryAssumption
  <1>4. files = IndexedFiles(shared) /\ dirs = IndexedDirs(shared)
        /\ shareNames = [n \in DOMAIN shared |-> shared[n].dir] /\ op = [s \in Slot |-> NoOp]
    BY <1>1, <1>2 DEF IndexInit
  <1> DEFINE keys == UNION {{<<FileKey(n, f.path), f.size>> : f \in shared[n].tree} : n \in DOMAIN shared}
  <1>5. \A y \in keys : \E n \in DOMAIN shared : \E f \in File : IsName(n) /\ y = <<FileKey(n, f.path), f.size>>
    BY <1>3 DEF IsTree, File
  <1>6. \A k \in DOMAIN files : \E n \in DOMAIN shared : \E f \in File :
           IsName(n) /\ k = FileKey(n, f.path) /\ files[k] = f.size
    <2>1. files = [k \in {y[1] : y \in keys} |-> (CHOOSE y \in keys : y[1] = k)[2]]
      BY <1>4 DEF IndexedFiles
    <2> HIDE DEF keys
    <2>2. SUFFICES ASSUME NEW k \in DOMAIN files
                   PROVE  \E n \in DOMAIN shared : \E f \in File :
                             IsName(n) /\ k = FileKey(n, f.path) /\ files[k] = f.size
      OBVIOUS
    <2>3. \E y \in keys : y[1] = k
      BY <2>1
    <2>4. PICK y \in keys : y[1] = k /\ files[k] = y[2]
      BY <2>1, <2>3
    <2> QED BY <1>5, <2>4
  <1>7. \A k \in DOMAIN files : /\ k \in Seq(Token) /\ KeyMatches(k, ShareOf(k)) /\ files[k] \in Nat
                                /\ ShareOf(k) \in DOMAIN shareNames
    BY <1>4, <1>6, FileKeyMatches DEF File
  <1>8. FilesTyped /\ FilesResolve
    BY <1>7 DEF FilesTyped, FilesResolve, Resolves
  <1>9. DirsTyped
    <2>1. \A k \in DOMAIN dirs : dirs[k] \in 0..(SizeMod - 1)
      BY <1>1, <1>2, <1>4, LibraryAssumption
    <2>2. DOMAIN dirs = UNION {Ancestors(k) : k \in DOMAIN files}
      BY <1>4 DEF IndexedDirs
    <2>3. \A k \in DOMAIN files : \A a \in Ancestors(k) : a \in Seq(Token)
      BY <1>6, AncestorsMatch DEF File
    <2> QED BY <2>1, <2>2, <2>3 DEF DirsTyped
  <1>10. NamesTyped
    BY <1>3, <1>4 DEF NamesTyped
  <1>11. OpTyped /\ \A s \in Slot : op[s] = NoOp
    BY <1>4, NoOpTyped DEF OpTyped
  <1>12. AboutAShare /\ OneCall /\ Agrees /\ OnTheWay
    BY <1>11, NoOpTyped DEF AboutAShare, OneCall, Agrees, OnTheWay, EnteredAt, PassedAt, EmptiedAt, At
  <1> QED BY <1>8, <1>9, <1>10, <1>11, <1>12 DEF IndexInv, IndexTyped

-----------------------------------------------------------------------------
(* Steps of Library that leave the index alone.                            *)

LEMMA IndexSteps ==
    ASSUME Next
    PROVE  IndexNext \/ Crash \/ UNCHANGED indexVars
  <1>1. ASSUME NEW c \in Call, PostFiles(c) \/ CallStep(c) \/ ClientCloses(c)
        PROVE  UNCHANGED indexVars
    BY <1>1 DEF PostFiles, CallStep, ClientCloses, LsOpen, LsChunk, Replay, Forward, StreamEnds, PutCache,
                ClientReads, ClientEnds
  <1>2. ASSUME NEW r \in Read, PostRead(r) \/ ReadStep(r) \/ ReaderStops(r)
        PROVE  UNCHANGED indexVars
    BY <1>2 DEF PostRead, ReadStep, ReaderStops, ServeRead, RefuseRead, UploadBlock, UploadEnds, UploadFails,
                ReaderReads, ReaderEnds
  <1> QED BY <1>1, <1>2 DEF Next, IndexChanges, Lose, Restart, Reconnect

LEMMA IndexAlways == Spec => []IndexInv
  <1>1. ASSUME IndexInv, [Next]_vars PROVE IndexInv'
    <2>1. CASE UNCHANGED indexVars
      <3>1. UNCHANGED <<files, dirs, shareNames, op, torn>>
        BY <2>1 DEF indexVars, trees
      <3>2. IndexTyped'
        BY <1>1, <3>1 DEF IndexInv, IndexTyped, OpTyped, FilesTyped, DirsTyped, NamesTyped, AboutAShare, At
      <3>3. OneCall' /\ Agrees'
        BY <1>1, <3>1 DEF IndexInv, OneCall, Agrees, At
      <3>4. OnTheWay'
        BY <1>1, <3>1 DEF IndexInv, OnTheWay, EnteredAt, PassedAt, EmptiedAt, At
      <3>5. FilesResolve'
        BY <1>1, <3>1 DEF IndexInv, FilesResolve, Resolves
      <3> QED BY <3>2, <3>3, <3>4, <3>5 DEF IndexInv
    <2> QED BY <1>1, <2>1, IndexSteps, IndexKeeps DEF vars
  <1> QED BY <1>1, IndexBegins, PTL DEF Spec

\* Every file in the index can be looked up, unless its share is torn: the file is
\* entered after the name of its share, and the name goes when no file is left
\* (Shares::scan, Shares::remove_share_dir, Shares::resolve_path).
THEOREM FilesCorrect == Spec => []FilesResolve
  BY IndexAlways, PTL DEF IndexInv

-----------------------------------------------------------------------------
(* Calls about other shares.                                               *)

\* What a step changes in a tree is the root or of one share.
Only(f, g, m) ==
    \A k \in DOMAIN f \cup DOMAIN g :
        \/ k \in DOMAIN f /\ k \in DOMAIN g /\ f[k] = g[k]
        \/ k \in Seq(Token) /\ (k = Root \/ KeyMatches(k, m))
LEMMA OnlyItsOwn ==
    ASSUME IndexInv, NEW s \in Slot, IndexStep(s)
    PROVE  /\ ~At(s, "idle")
           /\ Only(files, files', op[s].name) /\ Only(dirs, dirs', op[s].name)
           /\ \A n \in DOMAIN shareNames \ {op[s].name} :
                 n \in DOMAIN shareNames' /\ shareNames'[n] = shareNames[n]
  <1> USE DEF At
  <1>1. \A f : Only(f, f, op[s].name)
    BY DEF Only
  <1>2. ASSUME SubtractRoot(s)
        PROVE  ~At(s, "idle") /\ Only(dirs, dirs', op[s].name) /\ UNCHANGED <<files, shareNames>>
    <2>1. Root \in Seq(Token)
      BY DEF Root
    <2> QED BY <1>2, <2>1 DEF SubtractRoot, Only, Put
  <1>3. ASSUME RemoveDirs(s)
        PROVE  ~At(s, "idle") /\ Only(dirs, dirs', op[s].name) /\ UNCHANGED <<files, shareNames>>
    <2>1. CASE Matching(s, dirs) = {}
      BY <1>1, <1>3, <2>1 DEF RemoveDirs
    <2>2. CASE Matching(s, dirs) # {}
      <3>1. PICK k \in Matching(s, dirs) : dirs' = Drop(dirs, k)
        BY <1>3, <2>2 DEF RemoveDirs
      <3>2. k \in Seq(Token) /\ KeyMatches(k, op[s].name)
        BY OfOne DEF Matching, DirsTyped
      <3>3. Only(dirs, dirs', op[s].name)
        BY <3>1, <3>2 DEF Only, Drop, Restrict
      <3> QED BY <1>3, <3>3 DEF RemoveDirs
    <2> QED BY <2>1, <2>2
  <1>4. ASSUME RemoveFiles(s)
        PROVE  ~At(s, "idle") /\ Only(files, files', op[s].name) /\ UNCHANGED <<dirs, shareNames>>
    <2>1. CASE Matching(s, files) = {}
      BY <1>1, <1>4, <2>1 DEF RemoveFiles
    <2>2. CASE Matching(s, files) # {}
      <3>1. PICK k \in Matching(s, files) : files' = Drop(files, k)
        BY <1>4, <2>2 DEF RemoveFiles
      <3>2. k \in Seq(Token) /\ KeyMatches(k, op[s].name)
        BY OfOne DEF Matching, FilesTyped
      <3>3. Only(files, files', op[s].name)
        BY <3>1, <3>2 DEF Only, Drop, Restrict
      <3> QED BY <1>4, <3>3 DEF RemoveFiles
    <2> QED BY <2>1, <2>2
  <1>5. ASSUME RemoveName(s)
        PROVE  /\ ~At(s, "idle") /\ UNCHANGED <<files, dirs>>
               /\ \A n \in DOMAIN shareNames \ {op[s].name} :
                     n \in DOMAIN shareNames' /\ shareNames'[n] = shareNames[n]
    BY <1>5 DEF RemoveName, Drop, Restrict
  <1>6. ASSUME InsertName(s)
        PROVE  /\ ~At(s, "idle") /\ UNCHANGED <<files, dirs>>
               /\ \A n \in DOMAIN shareNames \ {op[s].name} :
                     n \in DOMAIN shareNames' /\ shareNames'[n] = shareNames[n]
    BY <1>6 DEF InsertName, Put
  <1>7. ASSUME WalkTo(s) \/ WalkEnds(s)
        PROVE  ~At(s, "idle") /\ UNCHANGED <<files, dirs, shareNames>>
    BY <1>7 DEF WalkTo, WalkEnds, trees
  <1>8. ASSUME Merge(s)
        PROVE  ~At(s, "idle") /\ Only(dirs, dirs', op[s].name) /\ UNCHANGED <<files, shareNames>>
    <2>1. PICK d \in op[s].merges : dirs' = Put(dirs, d, (SizeOf(d) + op[s].file.size) % SizeMod)
      BY <1>8 DEF Merge
    <2>2. d \in Seq(Token) /\ (d = Root \/ KeyMatches(d, op[s].name))
      BY OfOne DEF Op
    <2>3. Only(dirs, dirs', op[s].name)
      BY <2>1, <2>2 DEF Only, Put
    <2> QED BY <1>8, <2>3 DEF Merge
  <1>9. ASSUME InsertFile(s)
        PROVE  ~At(s, "idle") /\ Only(files, files', op[s].name) /\ UNCHANGED <<dirs, shareNames>>
    <2>1. PICK k : k = FileKey(op[s].name, op[s].file.path)
      OBVIOUS
    <2>2. k \in Seq(Token) /\ KeyMatches(k, op[s].name)
      BY <1>9, <2>1, FileKeyMatches, OfOne DEF InsertFile, File
    <2>3. Only(files, files', op[s].name)
      BY <1>9, <2>1, <2>2 DEF InsertFile, Only, Put
    <2> QED BY <1>9, <2>3 DEF InsertFile
  <1> QED BY <1>1, <1>2, <1>3, <1>4, <1>5, <1>6, <1>7, <1>8, <1>9 DEF IndexStep

LEMMA RootMatchesNone ==
    ASSUME NEW n, IsName(n)
    PROVE  ~KeyMatches(Root, n)
  <1>1. n \in Seq(Token) /\ n # Root
    BY DEF IsName, Root
  <1>2. Len(n \o Sep) = Len(n) + 1 /\ Len(n) \in Nat /\ Len(Root) = 0
    BY <1>1, FileKeyParts DEF Root
  <1> QED BY <1>1, <1>2 DEF KeyMatches, IsPrefix

\* A change of another share is no change of this one's entries.
LEMMA EntriesKept ==
    ASSUME NEW f, NEW g, NEW m, NEW n, IsName(m), IsName(n), m # n, Only(f, g, m)
    PROVE  Entries(f, n) = Entries(g, n)
  <1>1. n # Root
    BY DEF IsName, Root
  <1>2. \A k : k = n \/ Beneath(k, n) => KeyMatches(k, n)
    BY <1>1 DEF Beneath, IsStrictPrefix, KeyMatches
  <1>3. ASSUME NEW k \in DOMAIN f \cup DOMAIN g, k = n \/ Beneath(k, n)
        PROVE  k \in DOMAIN f /\ k \in DOMAIN g /\ f[k] = g[k]
    <2>1. KeyMatches(k, n)
      BY <1>2, <1>3
    <2>2. CASE k \in Seq(Token) /\ (k = Root \/ KeyMatches(k, m))
      BY <2>1, <2>2, RootMatchesNone, OneName
    <2> QED BY <2>2 DEF Only
  <1> QED BY <1>3 DEF Entries

LEMMA OthersStep ==
    ASSUME IndexInv, IndexNext \/ Crash, NEW n \in DOMAIN shareNames, n \notin torn,
           \A s \in Slot : At(s, "idle") \/ op[s].dir # shareNames[n]
    PROVE  /\ n \in DOMAIN shareNames' /\ shareNames'[n] = shareNames[n]
           /\ Entries(files', n) = Entries(files, n)
           /\ Entries(dirs', n) = Entries(dirs, n)
  <1>1. ASSUME NEW s \in Slot, Scan(s) \/ RemoveShareDir(s) PROVE UNCHANGED trees
    BY <1>1 DEF Scan, RemoveShareDir, Begin
  <1>2. ASSUME NEW s \in Slot, IndexStep(s)
        PROVE  /\ n \in DOMAIN shareNames' /\ shareNames'[n] = shareNames[n]
               /\ Entries(files', n) = Entries(files, n)
               /\ Entries(dirs', n) = Entries(dirs, n)
    <2>1. ~At(s, "idle") /\ IsName(op[s].name) /\ IsName(n)
      BY <1>2, OnlyItsOwn, OfOne DEF NamesTyped
    <2>2. op[s].name # n
      BY <2>1 DEF IndexInv, Agrees
    <2> QED BY <1>2, <2>1, <2>2, OnlyItsOwn, EntriesKept
  <1> QED BY <1>1, <1>2 DEF IndexNext, Crash, trees

\* A call about one directory never touches the name or the entries of a share of
\* another, however alike their names are: the name of each share is one part, so no
\* key belongs to two (Shares::share_name_for_path, share_key_matches).
THEOREM OthersCorrect == Spec => OthersUntouched
  <1> DEFINE Untouched == \A n \in DOMAIN shareNames :
                 n \notin torn /\ (\A s \in Slot : At(s, "idle") \/ op[s].dir # shareNames[n])
                   => /\ n \in DOMAIN shareNames' /\ shareNames'[n] = shareNames[n]
                      /\ Entries(files', n) = Entries(files, n)
                      /\ Entries(dirs', n) = Entries(dirs, n)
  <1>1. ASSUME IndexInv, Next PROVE [Untouched]_indexVars
    BY <1>1, IndexSteps, OthersStep
  <1>2. ASSUME IndexInv, [Next]_vars PROVE [Untouched]_indexVars
    BY <1>1, <1>2 DEF vars
  <1> QED BY <1>2, IndexAlways, PTL DEF Spec, OthersUntouched

-----------------------------------------------------------------------------
(* Sizes.                                                                  *)

\* The directories that hold a file are those it lies beneath, among them the root and
\* its share's own; all but the root are of its share.
LEMMA PathKey ==
    ASSUME NEW n, IsName(n), NEW p, IsPath(p)
    PROVE  /\ FileKey(n, p) \in Seq(Token) /\ FileKey(n, p) # Root
           /\ FileKey(n, p)[Len(FileKey(n, p))] # "/"
           /\ Len(FileKey(n, p)) > Len(n) + 1 /\ FileKey(n, p)[Len(n) + 1] = "/"
           /\ \A i \in 1..Len(n) : FileKey(n, p)[i] = n[i]
  <1>1. PICK m \in Seq(Token) : m = n
    BY DEF IsName
  <1>2. PICK q \in Seq(Token) : q = p /\ q # <<>> /\ q[Len(q)] # "/"
    BY DEF IsPath
  <1>3. PICK t \in Seq(Token) : /\ t = m \o Sep /\ Len(t) = Len(m) + 1 /\ t[Len(m) + 1] = "/"
                                /\ \A i \in 1..Len(m) : t[i] = m[i]
    BY FileKeyParts
  <1>4. PICK k \in Seq(Token) : /\ k = FileKey(m, q) /\ Len(k) = Len(m) + 1 + Len(q)
                                /\ \A i \in 1..(Len(m) + 1) : k[i] = t[i]
    <2>1. FileKey(m, q) \in Seq(Token) /\ Len(FileKey(m, q)) = Len(m) + 1 + Len(q)
      BY FileKeyParts
    <2>2. \A i \in 1..(Len(m) + 1) : FileKey(m, q)[i] = (m \o Sep)[i]
      BY FileKeyParts
    <2> QED BY <1>3, <2>1, <2>2
  <1>5. k = t \o q
    BY <1>3, <1>4 DEF FileKey
  <1>6. Len(q) \in Nat \ {0} /\ Len(m) \in Nat
    BY <1>2
  <1>7. k[Len(t) + Len(q)] = q[Len(q)]
    BY <1>5, <1>6
  <1>8. k[Len(k)] # "/"
    BY <1>2, <1>3, <1>4, <1>6, <1>7
  <1>9. Len(k) > Len(m) + 1 /\ k[Len(m) + 1] = "/" /\ \A i \in 1..Len(m) : k[i] = m[i]
    <2>1. Len(m) + 1 \in 1..(Len(m) + 1) /\ \A i \in 1..Len(m) : i \in 1..(Len(m) + 1)
      BY <1>6
    <2> QED BY <1>3, <1>4, <1>6, <2>1
  <1>10. k # Root
    BY <1>6, <1>9 DEF Root
  <1> QED BY <1>1, <1>2, <1>4, <1>8, <1>9, <1>10

LEMMA AncestorsOf ==
    ASSUME NEW n, IsName(n), NEW p, IsPath(p)
    PROVE  /\ Root \in Ancestors(FileKey(n, p)) /\ n \in Ancestors(FileKey(n, p))
           /\ \A a \in Ancestors(FileKey(n, p)) :
                 a \in Seq(Token) /\ (a = Root \/ (ShareOf(a) = n /\ KeyMatches(a, n)))
  <1>1. PICK k \in Seq(Token) : /\ k = FileKey(n, p) /\ Len(k) > Len(n) + 1 /\ k[Len(n) + 1] = "/"
                                /\ \A i \in 1..Len(n) : k[i] = n[i]
    BY PathKey
  <1>2. PICK m \in Seq(Token) : m = n
    BY DEF IsName
  <1>3. m = SubSeq(k, 1, (Len(m) + 1) - 1) /\ Len(m) + 1 \in {j \in 1..Len(k) : k[j] = "/"}
    BY <1>1, <1>2
  <1>4. m \in Ancestors(k) /\ Root \in Ancestors(k)
    BY <1>3 DEF Ancestors
  <1>5. p \in Seq(Token)
    BY DEF IsPath
  <1>6. ASSUME NEW a \in Ancestors(k)
        PROVE  a \in Seq(Token) /\ (a = Root \/ (ShareOf(a) = n /\ KeyMatches(a, n)))
    <2>1. a \in Seq(Token) /\ (a = Root \/ KeyMatches(a, n))
      BY <1>1, <1>5, <1>6, AncestorsMatch
    <2> QED BY <2>1, NameOf
  <1> QED BY <1>1, <1>2, <1>4, <1>6

LEMMA BeneathAncestors ==
    ASSUME NEW n, IsName(n), NEW p, IsPath(p), NEW d \in Seq(Token)
    PROVE  Beneath(FileKey(n, p), d) <=> d \in Ancestors(FileKey(n, p))
  <1>1. PICK k \in Seq(Token) : k = FileKey(n, p) /\ k # Root /\ k[Len(k)] # "/"
    BY PathKey
  <1>2. CASE d = Root
    BY <1>1, <1>2 DEF Beneath, Ancestors
  <1>3. CASE d # Root
    <2>1. PICK t \in Seq(Token) : /\ t = d \o Sep /\ Len(t) = Len(d) + 1 /\ t[Len(d) + 1] = "/"
                                  /\ \A i \in 1..Len(d) : t[i] = d[i]
      BY FileKeyParts
    <2>2. Beneath(k, d) <=> Len(t) <= Len(k) /\ t # k /\ SubSeq(t, 1, Len(t)) = SubSeq(k, 1, Len(t))
      BY <1>3, <2>1 DEF Beneath, IsStrictPrefix, IsPrefix
    <2>3. d \in Ancestors(k) <=> \E j \in 1..Len(k) : k[j] = "/" /\ d = SubSeq(k, 1, j - 1)
      BY <1>3 DEF Ancestors
    <2>4. ASSUME Beneath(k, d) PROVE d \in Ancestors(k)
      <3>1. Len(t) <= Len(k) /\ \A i \in 1..Len(t) : k[i] = t[i]
        <4>1. SubSeq(t, 1, Len(t)) = SubSeq(k, 1, Len(t)) /\ Len(t) <= Len(k)
          BY <2>2, <2>4
        <4>2. \A i \in 1..Len(t) : SubSeq(t, 1, Len(t))[i] = t[i] /\ SubSeq(k, 1, Len(t))[i] = k[i]
          BY <4>1
        <4> QED BY <4>1, <4>2
      <3>2. Len(t) \in 1..Len(k) /\ k[Len(t)] = "/"
        BY <2>1, <3>1
      <3>3. d = SubSeq(k, 1, Len(t) - 1)
        BY <2>1, <3>1
      <3> QED BY <2>3, <3>2, <3>3
    <2>5. ASSUME d \in Ancestors(k) PROVE Beneath(k, d)
      <3>1. PICK j \in 1..Len(k) : k[j] = "/" /\ d = SubSeq(k, 1, j - 1)
        BY <2>3, <2>5
      <3>2. j < Len(k) /\ Len(d) = j - 1 /\ \A i \in 1..Len(d) : d[i] = k[i]
        BY <1>1, <3>1
      <3>3. Len(t) = j /\ \A i \in 1..Len(t) : t[i] = k[i]
        BY <2>1, <3>1, <3>2
      <3>4. t # k /\ SubSeq(t, 1, Len(t)) = SubSeq(k, 1, Len(t))
        BY <3>2, <3>3
      <3> QED BY <2>2, <3>2, <3>3, <3>4
    <2> QED BY <1>1, <2>4, <2>5
  <1> QED BY <1>2, <1>3

\* A key tells the path.
LEMMA PathOf ==
    ASSUME NEW n, IsName(n), NEW p, IsPath(p), NEW q, IsPath(q), FileKey(n, p) = FileKey(n, q)
    PROVE  p = q
  <1>1. PICK t \in Seq(Token) : t = n \o Sep
    BY FileKeyParts DEF IsName
  <1>2. PICK x \in Seq(Token), y \in Seq(Token) : x = p /\ y = q
    BY DEF IsPath
  <1>3. t \o x = t \o y
    BY <1>1, <1>2 DEF FileKey
  <1>4. Len(x) = Len(y)
    <2>1. Len(t \o x) = Len(t) + Len(x) /\ Len(t \o y) = Len(t) + Len(y)
      OBVIOUS
    <2> QED BY <1>3, <2>1
  <1>5. \A i \in 1..Len(x) : x[i] = y[i]
    <2>1. SUFFICES ASSUME NEW i \in 1..Len(x) PROVE x[i] = y[i]
      OBVIOUS
    <2>2. (t \o x)[Len(t) + i] = x[i] /\ (t \o y)[Len(t) + i] = y[i]
      BY <1>4
    <2> QED BY <1>3, <2>2
  <1> QED BY <1>2, <1>4, <1>5

\* Sizes are the same if they differ by a multiple of SizeMod.
Same(a, b) == \E q \in Int : a = b + q * SizeMod

LEMMA SameRules ==
    ASSUME NEW a \in Int, NEW b \in Int
    PROVE  /\ Same(a, a) /\ Same(a % SizeMod, a)
           /\ Same(a, b) => Same(b, a)
           /\ \A c \in Int : Same(a, b) => Same(a + c, b + c)
           /\ \A c \in Int : Same(a, b) /\ Same(b, c) => Same(a, c)
  <1>0. PICK m \in Nat \ {0} : m = SizeMod
    BY SharesAssumption
  <1>1. Same(a, a)
    <2>1. a = a + 0 * m
      OBVIOUS
    <2> QED BY <1>0, <2>1 DEF Same
  <1>2. Same(a % SizeMod, a)
    <2>1. a = m * (a \div m) + (a % m) /\ a \div m \in Int /\ a % m \in Int
      OBVIOUS
    <2>2. PICK q \in Int : q = a \div m /\ a = m * q + (a % m)
      BY <2>1
    <2>3. a % m = a + (-q) * m
      <3>1. (-q) * m = -(m * q)
        OBVIOUS
      <3>2. PICK x \in Int : x = m * q
        OBVIOUS
      <3> QED BY <2>1, <2>2, <3>1, <3>2
    <2>4. PICK x \in Int, r \in Int : x = -q /\ r = a % m /\ r = a + x * m
      BY <2>1, <2>3
    <2>5. Same(r, a)
      BY <1>0, <2>4 DEF Same
    <2> QED BY <1>0, <2>4, <2>5
  <1>3. ASSUME Same(a, b) PROVE Same(b, a)
    <2>1. PICK q \in Int : a = b + q * m
      BY <1>0, <1>3 DEF Same
    <2>2. (-q) * m = -(q * m)
      OBVIOUS
    <2>3. PICK x \in Int : x = q * m
      OBVIOUS
    <2>4. b = a + (-q) * m
      BY <2>1, <2>2, <2>3
    <2> QED BY <1>0, <2>4 DEF Same
  <1>4. ASSUME NEW c \in Int, Same(a, b) PROVE Same(a + c, b + c)
    <2>1. PICK q \in Int : a = b + q * m
      BY <1>0, <1>4 DEF Same
    <2>2. PICK x \in Int : x = q * m
      OBVIOUS
    <2>3. a + c = (b + c) + q * m
      BY <2>1, <2>2
    <2> QED BY <1>0, <2>3 DEF Same
  <1>5. ASSUME NEW c \in Int, Same(a, b), Same(b, c) PROVE Same(a, c)
    <2>1. PICK q \in Int : a = b + q * m
      BY <1>0, <1>5 DEF Same
    <2>2. PICK r \in Int : b = c + r * m
      BY <1>0, <1>5 DEF Same
    <2>3. (q + r) * m = q * m + r * m
      OBVIOUS
    <2>4. PICK x \in Int, y \in Int : x = q * m /\ y = r * m
      OBVIOUS
    <2>5. a = c + (q + r) * m
      BY <2>1, <2>2, <2>3, <2>4
    <2> QED BY <1>0, <2>5 DEF Same
  <1> QED BY <1>1, <1>2, <1>3, <1>4, <1>5

LEMMA SameIs ==
    ASSUME NEW a \in 0..(SizeMod - 1), NEW b \in Int, Same(a, b)
    PROVE  a = b % SizeMod
  <1>0. PICK m \in Nat \ {0} : m = SizeMod
    BY SharesAssumption
  <1>1. PICK q \in Int : a = b + q * m
    BY <1>0 DEF Same
  <1>2. PICK e \in Int : e = b \div m /\ b = m * e + (b % m) /\ b % m \in 0..(m - 1)
    <2>1. b = m * (b \div m) + (b % m) /\ b \div m \in Int
      OBVIOUS
    <2>2. b % m \in 0..(m - 1)
      OBVIOUS
    <2> QED BY <2>1, <2>2
  <1>3. PICK r \in 0..(m - 1) : r = b % m
    BY <1>2
  <1>4. a = r + (e + q) * m
    <2>1. (e + q) * m = m * e + q * m
      OBVIOUS
    <2>2. PICK x \in Int, y \in Int : x = m * e /\ y = q * m
      OBVIOUS
    <2>3. b = x + r /\ a = b + y /\ (e + q) * m = x + y
      BY <1>1, <1>2, <1>3, <2>1, <2>2
    <2> QED BY <2>2, <2>3
  <1>5. PICK z \in Int : z = e + q
    OBVIOUS
  <1>6. a \in 0..(m - 1)
    BY <1>0
  <1>7. CASE z >= 1
    <2>1. z * m >= m
      BY <1>7
    <2>2. PICK x \in Int : x = z * m
      OBVIOUS
    <2> QED BY <1>3, <1>4, <1>5, <1>6, <2>1, <2>2
  <1>8. CASE z <= -1
    <2>1. z * m <= -m
      BY <1>8
    <2>2. PICK x \in Int : x = z * m
      OBVIOUS
    <2> QED BY <1>3, <1>4, <1>5, <1>6, <2>1, <2>2
  <1>9. CASE z = 0
    BY <1>0, <1>3, <1>4, <1>5, <1>9
  <1> QED BY <1>7, <1>8, <1>9

\* Names of the shares whose files, or whose directories, are being removed.
Removing == {op[s].name : s \in {t \in Slot : op[t].phase \in {"dirs", "files"}}}
Clearing == {op[s].name : s \in {t \in Slot : op[t].phase = "dirs"}}

\* The files a directory's size accounts for: the root's no longer for those that are
\* being removed; and what a call has added for a file it has not entered yet.
Counted(d) == {k \in DOMAIN files : d \in Ancestors(k) /\ ShareOf(k) \notin Removing}
KeyFor(o) == FileKey(o.name, o.file.path)
Adds(o, d) == IF o.phase = "merge" /\ d \in Ancestors(KeyFor(o)) \ o.merges THEN o.file.size ELSE 0
Added(d) == [s \in Slot |-> Adds(op[s], d)]
Due(d) == SumOf(files, Counted(d)) + SumOf(Added(d), Slot)

\* That is its size, unless the entry is about to go.
Sound(d) == Right(d) /\ (d = Root \/ ShareOf(d) \notin Clearing)
SizesTrue == \A d \in Seq(Token) : Sound(d) => Same(SizeOf(d), Due(d))

\* Every file has its directories, and the root is never removed.
DirsThere ==
    \A k \in DOMAIN files : ShareOf(k) \notin torn \cup cut \cup Removing => Ancestors(k) \subseteq DOMAIN dirs
Shaped ==
    /\ \A k \in DOMAIN files : \E n, p : IsName(n) /\ IsPath(p) /\ k = FileKey(n, p)
    /\ \A d \in DOMAIN dirs : d = Root \/ (IsName(ShareOf(d)) /\ KeyMatches(d, ShareOf(d)))
    /\ IsFiniteSet(DOMAIN files) /\ (DOMAIN files # {} => Root \in DOMAIN dirs)

\* Of one call: the directories a removal has not passed yet, the directories a scan has
\* added to, the size that is to be subtracted, and that the files to come are new.
Tame(s) == op[s].name \notin torn \cup cut
Of(n) == {k \in DOMAIN files : ShareOf(k) = n}
DirsPassed(s) ==
    At(s, "dirs") /\ op[s].name \notin torn
      => \A k \in DOMAIN dirs : KeyMatches(k, op[s].name) => op[s].last = None \/ Before(op[s].last, k)
MergedThere(s) ==
    At(s, "merge") /\ op[s].name \notin torn => Ancestors(KeyFor(op[s])) \ op[s].merges \subseteq DOMAIN dirs
Existing(s) == At(s, "subtract") /\ Tame(s) => Same(op[s].existing, SumOf(files, Of(op[s].name)))
Fresh(s) ==
    Tame(s) => /\ At(s, "insert") => Of(op[s].name) = {}
               /\ At(s, "walk") \/ At(s, "merge")
                    => \A f \in op[s].todo : FileKey(op[s].name, f.path) \notin DOMAIN files
               /\ At(s, "merge") => KeyFor(op[s]) \notin DOMAIN files
Walked(s) ==
    /\ \A f \in op[s].todo : IsPath(f.path)
    /\ \A f, g \in op[s].todo : f.path = g.path => f = g
    /\ At(s, "merge") => /\ IsPath(op[s].file.path) /\ op[s].merges \subseteq Ancestors(KeyFor(op[s]))
                         /\ \A f \in op[s].todo : f.path # op[s].file.path
                         /\ Root \notin op[s].merges => Root \in DOMAIN dirs
SlotSized(s) == DirsPassed(s) /\ MergedThere(s) /\ Existing(s) /\ Fresh(s) /\ Walked(s)

SizesInv == SizesTrue /\ DirsThere /\ Shaped /\ \A s \in Slot : SlotSized(s)

LEMMA SumZero ==
    ASSUME NEW f, NEW S, IsFiniteSet(S), \A x \in S : f[x] = 0
    PROVE  SumOf(f, S) = 0
  <1> DEFINE P == {T \in SUBSET S : SumOf(f, T) = 0}
  <1>1. {} \in P
    BY SumEmpty
  <1>2. ASSUME NEW T \in P, NEW x \in S \ T PROVE T \cup {x} \in P
    <2>1. IsFiniteSet(T) /\ Values(f, T \cup {x}, Int)
      BY FS_Subset DEF Values
    <2>2. SumOf(f, T \cup {x}) = f[x] + SumOf(f, T)
      BY <1>2, <2>1, SumAdded
    <2> QED BY <1>2, <2>2
  <1>3. P = SUBSET S
    <2> HIDE DEF P
    <2>1. P \in SUBSET SUBSET S
      BY DEF P
    <2> QED BY <1>1, <1>2, <2>1, FiniteInduction
  <1> QED BY <1>3

\* A file in the index, and its directories.
LEMMA FileShaped ==
    ASSUME Shaped, NEW k \in DOMAIN files
    PROVE  /\ k \in Seq(Token) /\ IsName(ShareOf(k)) /\ KeyMatches(k, ShareOf(k))
           /\ Root \in Ancestors(k) /\ ShareOf(k) \in Ancestors(k)
           /\ \A a \in Ancestors(k) :
                 a \in Seq(Token) /\ (a = Root \/ (ShareOf(a) = ShareOf(k) /\ KeyMatches(a, ShareOf(k))))
           /\ \A d \in Seq(Token) : Beneath(k, d) <=> d \in Ancestors(k)
  <1>1. PICK n, p : IsName(n) /\ IsPath(p) /\ k = FileKey(n, p)
    BY DEF Shaped
  <1>2. p \in Seq(Token)
    BY <1>1 DEF IsPath
  <1>3. k \in Seq(Token) /\ ShareOf(k) = n /\ KeyMatches(k, n)
    BY <1>1, <1>2, FileKeyMatches
  <1> QED BY <1>1, <1>3, AncestorsOf, BeneathAncestors

\* The file a scan is at, and its directories.
LEMMA FileAt ==
    ASSUME IndexInv, NEW s \in Slot, Walked(s), At(s, "merge")
    PROVE  /\ IsName(op[s].name) /\ IsPath(op[s].file.path) /\ op[s].file.size \in Nat
           /\ KeyFor(op[s]) \in Seq(Token) /\ ShareOf(KeyFor(op[s])) = op[s].name
           /\ KeyMatches(KeyFor(op[s]), op[s].name)
           /\ Root \in Ancestors(KeyFor(op[s])) /\ op[s].name \in Ancestors(KeyFor(op[s]))
           /\ \A a \in Ancestors(KeyFor(op[s])) :
                 a \in Seq(Token) /\ (a = Root \/ (ShareOf(a) = op[s].name /\ KeyMatches(a, op[s].name)))
  <1>1. IsName(op[s].name) /\ op[s].file \in File /\ IsPath(op[s].file.path)
    BY OfOne DEF Walked, At
  <1>2. op[s].file.path \in Seq(Token) /\ op[s].file.size \in Nat
    BY <1>1 DEF File
  <1> QED BY <1>1, <1>2, FileKeyMatches, AncestorsOf DEF KeyFor

LEMMA AddsTyped ==
    ASSUME IndexInv, NEW d
    PROVE  /\ \A s \in Slot : Adds(op[s], d) \in Nat /\ Added(d)[s] = Adds(op[s], d)
           /\ Values(Added(d), Slot, Int) /\ SumOf(Added(d), Slot) \in Int
  <1>1. ASSUME NEW s \in Slot PROVE Adds(op[s], d) \in Nat
    BY OfOne DEF Adds, At, File
  <1>2. Values(Added(d), Slot, Int)
    BY <1>1 DEF Values, Added
  <1>3. IsFiniteSet(Slot)
    BY SharesAssumption
  <1>4. SumOf(Added(d), Slot) \in Int
    BY <1>2, <1>3, SumType
  <1> QED BY <1>1, <1>2, <1>4 DEF Added

LEMMA FilesSum ==
    ASSUME IndexInv, Shaped, NEW K \in SUBSET DOMAIN files
    PROVE  IsFiniteSet(K) /\ Values(files, K, Int) /\ SumOf(files, K) \in Int
  <1>1. IsFiniteSet(K)
    BY FS_Subset DEF Shaped
  <1>2. Values(files, K, Int)
    BY DEF Values, IndexInv, IndexTyped, FilesTyped
  <1> QED BY <1>1, <1>2, SumType

LEMMA DueInt == ASSUME IndexInv, Shaped, NEW d PROVE Due(d) \in Int
  <1>1. SumOf(files, Counted(d)) \in Int
    BY FilesSum DEF Counted
  <1> QED BY <1>1, AddsTyped DEF Due

LEMMA SizeInt == ASSUME IndexInv, NEW d PROVE SizeOf(d) \in Int
  <1>1. PICK m \in Nat : m = SizeMod
    BY SharesAssumption
  <1>2. \A i \in 0..(SizeMod - 1) : i \in Int
    BY <1>1
  <1> QED BY <1>2 DEF SizeOf, IndexInv, IndexTyped, DirsTyped

\* Nothing that a directory's size accounts for has changed.
LEMMA DueKept ==
    ASSUME IndexInv, SizesInv, NEW d \in Seq(Token), Sound(d), SizeOf(d)' = SizeOf(d),
           Counted(d)' = Counted(d), \A k \in Counted(d) : files'[k] = files[k],
           \A s \in Slot : Adds(op'[s], d) = Adds(op[s], d)
    PROVE  Same(SizeOf(d)', Due(d)')
  <1>1. Counted(d) \in SUBSET DOMAIN files /\ Shaped
    BY DEF Counted, SizesInv
  <1>2. IsFiniteSet(Counted(d)) /\ Values(files, Counted(d), Int)
    BY <1>1, FilesSum
  <1>3. SumOf(files', Counted(d)) = SumOf(files, Counted(d))
    BY <1>2, SumSame
  <1>4. Added(d)' = Added(d)
    BY DEF Added
  <1>5. Due(d)' = Due(d)
    BY <1>3, <1>4 DEF Due
  <1> QED BY <1>5 DEF SizesInv, SizesTrue

LEMMA TwoCalls ==
    ASSUME IndexInv, NEW s \in Slot, NEW t \in Slot, ~At(s, "idle"), ~At(t, "idle"),
           op[s].name = op[t].name, op[s].name \notin torn
    PROVE  s = t
  BY DEF IndexInv, OneCall

\* What is accounted for in a directory is of its share.
LEMMA OfItsShare ==
    ASSUME IndexInv, SizesInv, NEW d, d # Root
    PROVE  /\ \A k \in Counted(d) : ShareOf(k) = ShareOf(d)
           /\ \A t \in Slot : Adds(op[t], d) # 0 => At(t, "merge") /\ ShareOf(d) = op[t].name
  <1>1. \A k \in Counted(d) : ShareOf(k) = ShareOf(d)
    BY FileShaped DEF Counted, SizesInv
  <1>2. ASSUME NEW t \in Slot, Adds(op[t], d) # 0 PROVE At(t, "merge") /\ ShareOf(d) = op[t].name
    BY <1>2, FileAt DEF Adds, At, SizesInv, SlotSized
  <1> QED BY <1>1, <1>2

\* A call changes nothing that another knows of.
LEMMA OthersSized ==
    ASSUME IndexInv, IndexInv', SizesInv, NEW s \in Slot, ~At(s, "idle"), torn' = torn, cut' = cut,
           Only(files, files', op[s].name), Only(dirs, dirs', op[s].name),
           Root \in DOMAIN dirs => Root \in DOMAIN dirs', NEW t \in Slot \ {s}, op'[t] = op[t]
    PROVE  SlotSized(t)'
  <1>1. SlotSized(t) /\ Shaped
    BY DEF SizesInv
  <1>2. Walked(t)'
    BY <1>1 DEF Walked, SlotSized, At
  <1>3. CASE At(t, "idle") \/ op[t].name \in torn
    BY <1>2, <1>3 DEF SlotSized, DirsPassed, MergedThere, Existing, Fresh, Tame, At
  <1>4. CASE ~At(t, "idle") /\ op[t].name \notin torn
    <2>1. PICK n : n = op[t].name /\ IsName(n) /\ n # op[s].name /\ IsName(op[s].name)
      BY <1>4, OfOne, TwoCalls
    <2>2. \A k \in DOMAIN files \cup DOMAIN files' : KeyMatches(k, n)
             => k \in DOMAIN files /\ k \in DOMAIN files' /\ files'[k] = files[k]
      BY <2>1, OneName, RootMatchesNone DEF Only
    <2>3. \A k \in DOMAIN dirs \cup DOMAIN dirs' : KeyMatches(k, n)
             => k \in DOMAIN dirs /\ k \in DOMAIN dirs'
      BY <2>1, OneName, RootMatchesNone DEF Only
    <2>4. DirsPassed(t)'
      BY <1>1, <2>1, <2>3 DEF DirsPassed, SlotSized, At
    <2>5. MergedThere(t)'
      <3>1. SUFFICES ASSUME At(t, "merge"), NEW a \in Ancestors(KeyFor(op[t])) \ op[t].merges
                     PROVE  a \in DOMAIN dirs'
        BY DEF MergedThere, At
      <3>2. a \in DOMAIN dirs /\ (a = Root \/ KeyMatches(a, n))
        BY <1>1, <1>4, <2>1, <3>1, FileAt DEF MergedThere, SlotSized
      <3> QED BY <2>3, <3>2
    <2>6. Of(n)' = Of(n) /\ \A k \in Of(n) : files'[k] = files[k]
      <3>1. \A k \in DOMAIN files : ShareOf(k) = n => KeyMatches(k, n)
        BY DEF IndexInv, IndexTyped, FilesTyped
      <3>2. \A k \in DOMAIN files' : ShareOf(k) = n => KeyMatches(k, n)
        BY DEF IndexInv, IndexTyped, FilesTyped
      <3> QED BY <2>2, <3>1, <3>2 DEF Of
    <2>7. Existing(t)'
      <3>1. IsFiniteSet(Of(n)) /\ Values(files, Of(n), Int)
        BY <1>1, FilesSum DEF Of
      <3>2. SumOf(files', Of(n)) = SumOf(files, Of(n))
        BY <2>6, <3>1, SumSame
      <3> QED BY <1>1, <2>1, <2>6, <3>2 DEF Existing, SlotSized, Tame, At
    <2>8. Fresh(t)'
      <3>1. \A p \in Seq(Token) : KeyMatches(FileKey(n, p), n)
        BY <2>1, FileKeyMatches
      <3>2. \A f \in op[t].todo : f.path \in Seq(Token)
        BY <1>1 DEF SlotSized, Walked, IsPath
      <3>3. At(t, "merge") => op[t].file.path \in Seq(Token)
        BY <1>1 DEF SlotSized, Walked, IsPath
      <3>4. Fresh(t)
        BY <1>1 DEF SlotSized
      <3>5. ASSUME Tame(t), At(t, "insert") PROVE Of(n)' = {}
        BY <2>1, <2>6, <3>4, <3>5 DEF Fresh
      <3>6. ASSUME Tame(t), At(t, "walk") \/ At(t, "merge"), NEW f \in op[t].todo
            PROVE  FileKey(n, f.path) \notin DOMAIN files'
        BY <2>1, <2>2, <3>1, <3>2, <3>4, <3>6 DEF Fresh
      <3>7. ASSUME Tame(t), At(t, "merge")
            PROVE  KeyFor(op[t]) \notin DOMAIN files'
        BY <2>1, <2>2, <3>1, <3>3, <3>4, <3>7 DEF Fresh, KeyFor
      <3> QED BY <2>1, <3>5, <3>6, <3>7 DEF Fresh, Tame, At
    <2> QED BY <1>2, <2>4, <2>5, <2>7, <2>8 DEF SlotSized
  <1> QED BY <1>3, <1>4

\* Who is removing depends on the phases only.
LEMMA RemovingKept ==
    ASSUME NEW s \in Slot, \A t \in Slot \ {s} : op'[t] = op[t],
           \/ op'[s].name = op[s].name /\ (op'[s].phase \in {"dirs", "files"} <=> op[s].phase \in {"dirs", "files"})
           \/ op'[s].phase \notin {"dirs", "files"} /\ op[s].phase \notin {"dirs", "files"}
    PROVE  Removing' = Removing
  <1>1. ASSUME NEW n PROVE n \in Removing' <=> n \in Removing
    BY DEF Removing
  <1> QED BY <1>1 DEF Removing
LEMMA ClearingKept ==
    ASSUME NEW s \in Slot, \A t \in Slot \ {s} : op'[t] = op[t],
           \/ op'[s].name = op[s].name /\ (op'[s].phase = "dirs" <=> op[s].phase = "dirs")
           \/ op'[s].phase # "dirs" /\ op[s].phase # "dirs"
    PROVE  Clearing' = Clearing
  <1>1. ASSUME NEW n PROVE n \in Clearing' <=> n \in Clearing
    BY DEF Clearing
  <1> QED BY <1>1 DEF Clearing

\* The share of a file that a right directory holds is not torn.
LEMMA RightFiles ==
    ASSUME Shaped, NEW d, Right(d), NEW k \in DOMAIN files, d \in Ancestors(k)
    PROVE  ShareOf(k) \notin cut \cup torn
  BY FileShaped DEF Right

\* The trees are left as they are.
LEMMA QuietSized ==
    ASSUME IndexInv, IndexInv', SizesInv, NEW s \in Slot, ~At(s, "idle"), UNCHANGED <<files, dirs, torn, cut>>,
           \A t \in Slot \ {s} : op'[t] = op[t], Clearing' = Clearing,
           \A k \in DOMAIN files : ShareOf(k) \notin torn => (ShareOf(k) \in Removing' <=> ShareOf(k) \in Removing),
           \A d \in Seq(Token) : Adds(op'[s], d) = Adds(op[s], d), SlotSized(s)'
    PROVE  SizesInv'
  <1>1. Shaped /\ Shaped'
    BY DEF SizesInv, Shaped
  <1>2. DirsThere'
    BY DEF SizesInv, DirsThere
  <1>3. ASSUME NEW d \in Seq(Token), Sound(d)' PROVE Same(SizeOf(d)', Due(d)')
    <2>1. Sound(d)
      BY <1>3 DEF Sound, Right
    <2>2. Counted(d)' = Counted(d)
      BY <1>1, <2>1, RightFiles DEF Counted, Sound
    <2>3. SizeOf(d)' = SizeOf(d)
      BY DEF SizeOf
    <2> QED BY <2>1, <2>2, <2>3, DueKept
  <1>4. SizesTrue'
    BY <1>3 DEF SizesTrue
  <1>5. Only(files, files', op[s].name) /\ Only(dirs, dirs', op[s].name)
    BY DEF Only
  <1>6. \A t \in Slot : SlotSized(t)'
    BY <1>5, OthersSized
  <1> QED BY <1>1, <1>2, <1>4, <1>6 DEF SizesInv

\* What a call does next, after a step that changes its record alone.
LEMMA RemoveNameSized ==
    ASSUME IndexInv, IndexInv', SizesInv, NEW s \in Slot, RemoveName(s)
    PROVE  SizesInv'
  <1>1. /\ \A t \in Slot \ {s} : op'[t] = op[t]
        /\ op'[s] = IF op[s].scan THEN [op[s] EXCEPT !.phase = "insert"] ELSE NoOp
    BY OfOne DEF RemoveName, OpTyped
  <1>2. At(s, "name") /\ UNCHANGED <<files, dirs, torn, cut>>
    BY DEF RemoveName
  <1>3. \/ op'[s].phase = "insert" /\ op'[s].name = op[s].name /\ op'[s].todo = op[s].todo
        \/ op'[s].phase = "idle" /\ op'[s].todo = {}
    BY <1>1, OfOne DEF NoOp, Op
  <1>4. Removing' = Removing /\ Clearing' = Clearing
    BY <1>1, <1>2, <1>3, RemovingKept, ClearingKept DEF At
  <1>5. \A d \in Seq(Token) : Adds(op'[s], d) = Adds(op[s], d)
    BY <1>2, <1>3 DEF Adds, At
  <1>6. op[s].name \notin torn => Of(op[s].name) = {}
    BY <1>2, OfOne DEF EmptiedAt, Of, FilesTyped
  <1>7. Walked(s)
    BY DEF SizesInv, SlotSized
  <1>8. SlotSized(s)'
    BY <1>2, <1>3, <1>6, <1>7 DEF SlotSized, DirsPassed, MergedThere, Existing, Fresh, Walked, Tame, Of, At
  <1> QED BY <1>1, <1>2, <1>4, <1>5, <1>8, QuietSized DEF At

LEMMA InsertNameSized ==
    ASSUME IndexInv, IndexInv', SizesInv, NEW s \in Slot, InsertName(s)
    PROVE  SizesInv'
  <1>1. PICK t \in Trees[op[s].dir] : op' = [op EXCEPT ![s].phase = "walk", ![s].todo = t]
    BY DEF InsertName
  <1>2. At(s, "insert") /\ UNCHANGED <<files, dirs, torn, cut>>
    BY DEF InsertName
  <1>3. IsTree(t)
    <2>1. op[s].dir \in Directories
      BY <1>2, OfOne DEF At
    <2> QED BY <2>1, SharesAssumption
  <1>4. op'[s] = [op[s] EXCEPT !.phase = "walk", !.todo = t] /\ \A u \in Slot \ {s} : op'[u] = op[u]
    BY <1>1, OfOne DEF OpTyped
  <1>5. op'[s].phase = "walk" /\ op'[s].name = op[s].name /\ op'[s].todo = t
    BY <1>4, OfOne DEF Op
  <1>6. Removing' = Removing /\ Clearing' = Clearing
    BY <1>2, <1>4, <1>5, RemovingKept, ClearingKept DEF At
  <1>7. \A d \in Seq(Token) : Adds(op'[s], d) = Adds(op[s], d)
    BY <1>2, <1>5 DEF Adds, At
  <1>8. Fresh(s)'
    <2>1. SUFFICES ASSUME Tame(s), NEW f \in t PROVE FileKey(op[s].name, f.path) \notin DOMAIN files
      BY <1>2, <1>5 DEF Fresh, Tame, At
    <2>2. f.path \in Seq(Token) /\ IsName(op[s].name)
      BY <1>2, <1>3, OfOne DEF IsTree, IsPath, At
    <2>3. ShareOf(FileKey(op[s].name, f.path)) = op[s].name
      BY <2>2, FileKeyMatches
    <2> QED BY <1>2, <2>1, <2>3 DEF SizesInv, SlotSized, Fresh, Of
  <1>9. SlotSized(s)'
    BY <1>2, <1>3, <1>5, <1>8 DEF SlotSized, DirsPassed, MergedThere, Existing, Walked, IsTree, At
  <1> QED BY <1>2, <1>4, <1>6, <1>7, <1>9, QuietSized DEF At

LEMMA WalkEndsSized ==
    ASSUME IndexInv, IndexInv', SizesInv, NEW s \in Slot, WalkEnds(s)
    PROVE  SizesInv'
  <1>1. (\A t \in Slot \ {s} : op'[t] = op[t]) /\ op'[s] = NoOp
    BY OfOne DEF WalkEnds, OpTyped
  <1>2. At(s, "walk") /\ UNCHANGED <<files, dirs, torn, cut>>
    BY DEF WalkEnds, trees
  <1>3. op'[s].phase = "idle" /\ op'[s].todo = {}
    BY <1>1 DEF NoOp
  <1>4. Removing' = Removing /\ Clearing' = Clearing
    BY <1>1, <1>2, <1>3, RemovingKept, ClearingKept DEF At
  <1>5. \A d \in Seq(Token) : Adds(op'[s], d) = Adds(op[s], d)
    BY <1>2, <1>3 DEF Adds, At
  <1>6. SlotSized(s)'
    BY <1>3 DEF SlotSized, DirsPassed, MergedThere, Existing, Fresh, Walked, At
  <1> QED BY <1>1, <1>2, <1>4, <1>5, <1>6, QuietSized DEF At

LEMMA WalkToSized ==
    ASSUME IndexInv, IndexInv', SizesInv, NEW s \in Slot, WalkTo(s)
    PROVE  SizesInv'
  <1>1. PICK f \in op[s].todo : op' = [op EXCEPT ![s].phase = "merge", ![s].file = f, ![s].todo = @ \ {f},
                                                  ![s].merges = Ancestors(FileKey(op[s].name, f.path))]
    BY DEF WalkTo
  <1>2. At(s, "walk") /\ UNCHANGED <<files, dirs, torn, cut>>
    BY DEF WalkTo, trees
  <1>3. PICK k, A : k = FileKey(op[s].name, f.path) /\ A = Ancestors(k)
    OBVIOUS
  <1>4. /\ op'[s] = [op[s] EXCEPT !.phase = "merge", !.file = f, !.todo = @ \ {f}, !.merges = A]
        /\ \A u \in Slot \ {s} : op'[u] = op[u]
    BY <1>1, <1>3, OfOne DEF OpTyped
  <1>5. /\ op'[s].phase = "merge" /\ op'[s].name = op[s].name /\ op'[s].todo = op[s].todo \ {f}
        /\ op'[s].file = f /\ op'[s].merges = A
    BY <1>4, OfOne DEF Op
  <1>6. Removing' = Removing /\ Clearing' = Clearing
    BY <1>2, <1>4, <1>5, RemovingKept, ClearingKept DEF At
  <1>7. \A d \in Seq(Token) : Adds(op'[s], d) = Adds(op[s], d)
    BY <1>2, <1>3, <1>5 DEF Adds, At, KeyFor
  <1>8. Walked(s) /\ Fresh(s)
    BY DEF SizesInv, SlotSized
  <1>9. Root \in A
    <2>1. IsName(op[s].name) /\ IsPath(f.path)
      BY <1>2, <1>8, OfOne DEF Walked, At
    <2> QED BY <1>3, <2>1, AncestorsOf
  <1>10. Walked(s)'
    BY <1>3, <1>5, <1>8, <1>9 DEF Walked, At, KeyFor
  <1>11. Fresh(s)'
    BY <1>2, <1>3, <1>5, <1>8 DEF Fresh, At, KeyFor, Tame
  <1>12. SlotSized(s)'
    BY <1>3, <1>5, <1>10, <1>11 DEF SlotSized, DirsPassed, MergedThere, Existing, At, KeyFor
  <1> QED BY <1>2, <1>4, <1>6, <1>7, <1>12, QuietSized DEF At

LEMMA SameMinus ==
    ASSUME NEW a \in Int, NEW b \in Int, NEW c \in Int, NEW d \in Int, Same(a, b), Same(c, d)
    PROVE  Same((a - c) % SizeMod, b - d)
  <1>1. Same(a - c, b - c)
    <2>1. PICK e \in Int : e = -c
      OBVIOUS
    <2>2. Same(a + e, b + e)
      BY SameRules
    <2> QED BY <2>1, <2>2
  <1>2. Same(b - c, b - d)
    <2>1. PICK e \in Int : e = b - c - d
      OBVIOUS
    <2>2. Same(d, c)
      BY SameRules
    <2>3. Same(d + e, c + e)
      BY <2>2, SameRules
    <2>4. d + e = b - c /\ c + e = b - d
      BY <2>1
    <2> QED BY <2>3, <2>4
  <1>3. PICK x \in Int, y \in Int, z \in Int : x = a - c /\ y = b - c /\ z = b - d
    OBVIOUS
  <1>4. Same(x, z)
    BY <1>1, <1>2, <1>3, SameRules
  <1>5. PICK w \in Int : w = x % SizeMod
    <2>1. PICK m \in Nat \ {0} : m = SizeMod
      BY SharesAssumption
    <2>2. x % m \in Int
      OBVIOUS
    <2> QED BY <2>1, <2>2
  <1>6. Same(w, z)
    <2>1. Same(w, x)
      BY <1>5, SameRules
    <2> QED BY <1>4, <2>1, SameRules
  <1> QED BY <1>3, <1>5, <1>6

\* The root is put right by what is about to be removed.
LEMMA SubtractRootSized ==
    ASSUME IndexInv, IndexInv', SizesInv, NEW s \in Slot, SubtractRoot(s)
    PROVE  SizesInv'
  <1>1. op'[s] = [op[s] EXCEPT !.phase = "dirs", !.last = None] /\ \A t \in Slot \ {s} : op'[t] = op[t]
    BY OfOne DEF SubtractRoot, OpTyped
  <1>2. At(s, "subtract") /\ UNCHANGED <<files, torn, cut>> /\ dirs' = Put(dirs, Root, RootWithout(op[s].existing))
    BY DEF SubtractRoot
  <1>3. /\ op'[s].phase = "dirs" /\ op'[s].last = None /\ op'[s].name = op[s].name
        /\ op'[s].todo = op[s].todo
    BY <1>1, OfOne DEF Op
  <1>4. PICK n : n = op[s].name /\ IsName(n)
    BY <1>2, OfOne DEF At
  <1>5. Removing' = Removing \cup {n} /\ n \in Clearing' /\ Clearing \subseteq Clearing'
    <2>1. op[s].phase = "subtract" /\ op'[s].phase = "dirs" /\ op'[s].name = n
      BY <1>2, <1>3, <1>4 DEF At
    <2>2. n \in Removing' /\ n \in Clearing'
      BY <2>1 DEF Removing, Clearing
    <2>3. \A m : m \in Removing => m \in Removing'
      BY <1>1, <2>1 DEF Removing
    <2>4. \A m : m \in Removing' => m \in Removing \/ m = n
      <3>1. SUFFICES ASSUME NEW m \in Removing' PROVE m \in Removing \/ m = n
        OBVIOUS
      <3>2. PICK t \in Slot : op'[t].phase \in {"dirs", "files"} /\ m = op'[t].name
        BY <3>1 DEF Removing
      <3>3. CASE t # s
        BY <1>1, <3>2, <3>3 DEF Removing
      <3> QED BY <2>1, <3>2, <3>3
    <2>5. \A m : m \in Clearing => m \in Clearing'
      BY <1>1, <2>1 DEF Clearing
    <2>6. Removing' \subseteq Removing \cup {n} /\ Removing \cup {n} \subseteq Removing'
      BY <2>2, <2>3, <2>4
    <2> QED BY <2>2, <2>5, <2>6
  <1>6. Shaped /\ Walked(s) /\ Existing(s) /\ DirsThere /\ SizesTrue
    BY DEF SizesInv, SlotSized
  <1>7. Shaped'
    BY <1>2, <1>6 DEF Shaped, Put
  <1>8. DirsThere'
    BY <1>2, <1>5, <1>6 DEF DirsThere, Put
  <1>9. SlotSized(s)'
    BY <1>3, <1>6 DEF SlotSized, DirsPassed, MergedThere, Existing, Fresh, Walked, At
  <1>10. \A t \in Slot : SlotSized(t)'
    <2>1. Root \in Seq(Token)
      BY DEF Root
    <2>2. Only(files, files', op[s].name) /\ Only(dirs, dirs', op[s].name)
      BY <1>2, <2>1 DEF Only, Put
    <2>3. Root \in DOMAIN dirs'
      BY <1>2 DEF Put
    <2> QED BY <1>1, <1>2, <1>9, <2>2, <2>3, OthersSized DEF At
  <1>11. \A d : \A t \in Slot : Adds(op'[t], d) = Adds(op[t], d)
    BY <1>1, <1>2, <1>3 DEF Adds, At
  <1>12. ASSUME NEW d \in Seq(Token), Sound(d)', d # Root PROVE Same(SizeOf(d)', Due(d)')
    <2>1. Sound(d) /\ ShareOf(d) # n
      BY <1>2, <1>5, <1>12 DEF Sound, Right
    <2>2. Counted(d)' = Counted(d)
      BY <1>2, <1>5, <1>6, <1>12, <2>1, FileShaped DEF Counted
    <2>3. SizeOf(d)' = SizeOf(d)
      BY <1>2, <1>12 DEF SizeOf, Put
    <2> QED BY <1>2, <1>11, <2>1, <2>2, <2>3, DueKept
  <1>13. ASSUME Sound(Root)' PROVE Same(SizeOf(Root)', Due(Root)')
    <2>1. cut \cup torn = {} /\ Sound(Root)
      BY <1>2, <1>13 DEF Sound, Right
    <2>2. Root \in Seq(Token)
      BY DEF Root
    <2>3. Same(SizeOf(Root), Due(Root))
      BY <1>6, <2>1, <2>2 DEF SizesTrue
    <2>4. CASE Root \notin DOMAIN dirs
      <3>1. SizeOf(Root)' = SizeOf(Root)
        BY <1>2, <2>4 DEF SizeOf, Put, RootWithout
      <3>2. Counted(Root)' = Counted(Root)
        BY <1>2, <1>6, <2>4 DEF Counted, Shaped
      <3> QED BY <1>2, <1>11, <2>1, <2>2, <3>1, <3>2, DueKept
    <2>5. CASE Root \in DOMAIN dirs
      <3>1. n \notin Removing
        BY <1>2, <1>4, <2>1, TwoCalls DEF Removing, At
      <3>2. /\ Counted(Root) = Counted(Root)' \cup Of(n) /\ Counted(Root)' \cap Of(n) = {}
            /\ Counted(Root)' \in SUBSET DOMAIN files /\ Of(n) \in SUBSET DOMAIN files
        BY <1>2, <1>5, <1>6, <3>1, FileShaped DEF Counted, Of
      <3>3. PICK K \in SUBSET DOMAIN files : K = Counted(Root)'
        BY <3>2
      <3>4. PICK F : F = Of(n)
        OBVIOUS
      <3>5. SumOf(files, Counted(Root)) = SumOf(files, K) + SumOf(files, F)
        <4>1. IsFiniteSet(K) /\ IsFiniteSet(F) /\ Values(files, K \cup F, Int)
          BY <1>6, <3>2, <3>3, <3>4, FilesSum
        <4> QED BY <3>2, <3>3, <3>4, <4>1, SumUnion
      <3>6. PICK a \in Int, b \in Int, c \in Int :
              a = SumOf(files, K) /\ b = SumOf(files, F) /\ c = SumOf(Added(Root), Slot)
        BY <1>6, <3>2, <3>3, <3>4, FilesSum, AddsTyped
      <3>7. Due(Root) = (a + b) + c
        BY <3>5, <3>6 DEF Due
      <3>8. Added(Root)' = Added(Root)
        BY <1>11 DEF Added
      <3>9. Due(Root)' = a + c
        BY <1>2, <3>3, <3>6, <3>8 DEF Due
      <3>10. PICK e \in Int : e = op[s].existing /\ Same(e, b)
        <4>1. op[s].existing \in Int
          BY OfOne DEF Op
        <4> QED BY <1>2, <1>4, <1>6, <2>1, <3>4, <3>6, <4>1 DEF Existing, Tame
      <3>11. PICK r \in Int : r = dirs[Root] /\ Same(r, (a + b) + c)
        <4>1. SizeOf(Root) = dirs[Root]
          BY <2>5 DEF SizeOf
        <4> QED BY <2>3, <3>7, <4>1, SizeInt
      <3>12. Same((r - e) % SizeMod, ((a + b) + c) - b)
        BY <3>10, <3>11, SameMinus
      <3>13. ((a + b) + c) - b = a + c
        OBVIOUS
      <3>14. SizeOf(Root)' = (r - e) % SizeMod
        BY <1>2, <2>5, <3>10, <3>11 DEF SizeOf, Put, RootWithout
      <3> QED BY <3>9, <3>12, <3>13, <3>14
    <2> QED BY <2>4, <2>5
  <1>14. SizesTrue'
    BY <1>12, <1>13 DEF SizesTrue
  <1> QED BY <1>7, <1>8, <1>10, <1>14 DEF SizesInv

\* A directory that goes was one of the share that is being removed.
LEMMA DropDirSized ==
    ASSUME IndexInv, IndexInv', SizesInv, NEW s \in Slot, RemoveDirs(s), Matching(s, dirs) # {}
    PROVE  SizesInv'
  <1>1. PICK k \in Matching(s, dirs) : /\ IsFirst(k, Matching(s, dirs))
                                       /\ dirs' = Drop(dirs, k) /\ op' = [op EXCEPT ![s].last = k]
    BY DEF RemoveDirs
  <1>2. At(s, "dirs") /\ UNCHANGED <<files, torn, cut>>
    BY DEF RemoveDirs
  <1>3. op'[s] = [op[s] EXCEPT !.last = k] /\ \A t \in Slot \ {s} : op'[t] = op[t]
    BY <1>1, OfOne DEF OpTyped
  <1>4. /\ op'[s].phase = "dirs" /\ op'[s].last = k /\ op'[s].name = op[s].name
        /\ op'[s].todo = op[s].todo
    BY <1>2, <1>3, OfOne DEF Op, At
  <1>5. PICK n : n = op[s].name /\ IsName(n) /\ KeyMatches(k, n) /\ k \in Seq(Token) /\ k \in DOMAIN dirs
    BY <1>1, <1>2, OfOne DEF Matching, DirsTyped, At
  <1>6. k # Root /\ ShareOf(k) = n
    BY <1>5, RootMatchesNone, NameOf
  <1>7. n \in Removing /\ n \in Clearing /\ Removing' = Removing /\ Clearing' = Clearing
    <2>1. n \in Removing /\ n \in Clearing
      BY <1>2, <1>5 DEF Removing, Clearing, At
    <2> QED BY <1>2, <1>3, <1>4, <2>1, RemovingKept, ClearingKept DEF At
  <1>8. Shaped /\ Walked(s) /\ DirsThere /\ DirsPassed(s)
    BY DEF SizesInv, SlotSized
  <1>9. DOMAIN dirs' = DOMAIN dirs \ {k} /\ \A d \in DOMAIN dirs' : dirs'[d] = dirs[d]
    BY <1>1 DEF Drop, Restrict
  <1>10. Shaped'
    BY <1>2, <1>6, <1>8, <1>9 DEF Shaped
  <1>11. DirsThere'
    BY <1>2, <1>6, <1>7, <1>8, <1>9, FileShaped DEF DirsThere
  <1>12. DirsPassed(s)'
    <2>1. SUFFICES ASSUME op[s].name \notin torn, NEW l \in DOMAIN dirs', KeyMatches(l, op[s].name)
                   PROVE  Before(k, l)
      BY <1>2, <1>4 DEF DirsPassed, At
    <2>2. l \in Matching(s, dirs) /\ l # k
      BY <1>2, <1>8, <1>9, <2>1 DEF DirsPassed, Matching
    <2> QED BY <1>1, <2>2 DEF IsFirst
  <1>13. SlotSized(s)'
    BY <1>4, <1>8, <1>12 DEF SlotSized, MergedThere, Existing, Fresh, Walked, At
  <1>14. \A t \in Slot : SlotSized(t)'
    <2>1. Only(files, files', op[s].name) /\ Only(dirs, dirs', op[s].name)
      BY <1>2, <1>5, <1>9 DEF Only
    <2>2. Root \in DOMAIN dirs => Root \in DOMAIN dirs'
      BY <1>6, <1>9
    <2> QED BY <1>2, <1>3, <1>13, <2>1, <2>2, OthersSized DEF At
  <1>15. ASSUME NEW d \in Seq(Token), Sound(d)' PROVE Same(SizeOf(d)', Due(d)')
    <2>1. Sound(d) /\ d # k
      BY <1>2, <1>6, <1>7, <1>15 DEF Sound, Right
    <2>2. Counted(d)' = Counted(d)
      BY <1>2, <1>7 DEF Counted
    <2>3. SizeOf(d)' = SizeOf(d)
      BY <1>9, <2>1 DEF SizeOf
    <2>4. \A t \in Slot : Adds(op'[t], d) = Adds(op[t], d)
      BY <1>2, <1>3, <1>4 DEF Adds, At
    <2> QED BY <1>2, <2>1, <2>2, <2>3, <2>4, DueKept
  <1>16. SizesTrue'
    BY <1>15 DEF SizesTrue
  <1> QED BY <1>10, <1>11, <1>14, <1>16 DEF SizesInv

\* When they are all gone none is left, and none is accounted for.
LEMMA DirsGoneSized ==
    ASSUME IndexInv, IndexInv', SizesInv, NEW s \in Slot, RemoveDirs(s), Matching(s, dirs) = {}
    PROVE  SizesInv'
  <1>1. op' = [op EXCEPT ![s].phase = "files", ![s].last = None]
    BY DEF RemoveDirs
  <1>2. At(s, "dirs") /\ UNCHANGED <<files, dirs, torn, cut>>
    BY DEF RemoveDirs
  <1>3. op'[s] = [op[s] EXCEPT !.phase = "files", !.last = None] /\ \A t \in Slot \ {s} : op'[t] = op[t]
    BY <1>1, OfOne DEF OpTyped
  <1>4. op'[s].phase = "files" /\ op'[s].name = op[s].name /\ op'[s].todo = op[s].todo
    BY <1>3, OfOne DEF Op
  <1>5. PICK n : n = op[s].name /\ IsName(n)
    BY <1>2, OfOne DEF At
  <1>6. n \in Removing /\ Removing' = Removing /\ \A m \in Clearing : m # n => m \in Clearing'
    <2>1. n \in Removing
      BY <1>2, <1>5 DEF Removing, At
    <2>2. \A m \in Clearing : m # n => m \in Clearing'
      BY <1>3, <1>5 DEF Clearing
    <2> QED BY <1>2, <1>3, <1>4, <2>1, <2>2, RemovingKept DEF At
  <1>7. Shaped /\ Walked(s) /\ DirsThere /\ DirsPassed(s)
    BY DEF SizesInv, SlotSized
  <1>8. Shaped' /\ DirsThere'
    BY <1>2, <1>6, <1>7 DEF Shaped, DirsThere
  <1>9. SlotSized(s)'
    BY <1>4, <1>7 DEF SlotSized, DirsPassed, MergedThere, Existing, Fresh, Walked, At
  <1>10. \A t \in Slot : SlotSized(t)'
    <2>1. Only(files, files', op[s].name) /\ Only(dirs, dirs', op[s].name)
      BY <1>2 DEF Only
    <2> QED BY <1>2, <1>3, <1>9, <2>1, OthersSized DEF At
  <1>11. ASSUME NEW d \in Seq(Token), Sound(d)' PROVE Same(SizeOf(d)', Due(d)')
    <2>1. Right(d) /\ SizeOf(d)' = SizeOf(d) /\ Counted(d)' = Counted(d)
      BY <1>2, <1>6, <1>11 DEF Sound, Right, SizeOf, Counted
    <2>2. \A t \in Slot : Adds(op'[t], d) = Adds(op[t], d)
      BY <1>2, <1>3, <1>4 DEF Adds, At
    <2>3. CASE d = Root \/ ShareOf(d) # n
      <3>1. Sound(d)
        BY <1>6, <1>11, <2>1, <2>3 DEF Sound
      <3> QED BY <1>2, <2>1, <2>2, <3>1, DueKept
    <2>4. CASE d # Root /\ ShareOf(d) = n
      <3>1. n \notin torn
        BY <2>1, <2>4 DEF Right
      <3>2. d \notin DOMAIN dirs
        BY <1>2, <1>5, <1>7, <2>4, <3>1 DEF Shaped, DirsPassed, Matching
      <3>3. SizeOf(d)' = 0
        BY <2>1, <3>2 DEF SizeOf
      <3>4. Counted(d)' = {}
        BY <1>6, <1>7, <2>1, <2>4, FileShaped DEF Counted
      <3>5. \A t \in Slot : Adds(op[t], d) = 0
        <4>1. SUFFICES ASSUME NEW t \in Slot, Adds(op[t], d) # 0 PROVE FALSE
          OBVIOUS
        <4>2. At(t, "merge") /\ op[t].name = n
          BY <2>4, <4>1, OfItsShare
        <4> QED BY <1>2, <1>5, <3>1, <4>2, TwoCalls DEF At
      <3>6. Due(d)' = 0
        <4>1. \A t \in Slot : (Added(d)')[t] = 0
          BY <2>2, <3>5 DEF Added
        <4>2. SumOf(Added(d)', Slot) = 0
          BY <4>1, SharesAssumption, SumZero
        <4>3. SumOf(files', {}) = 0
          BY SumEmpty
        <4> QED BY <3>4, <4>2, <4>3 DEF Due
      <3> QED BY <3>3, <3>6, SameRules
    <2> QED BY <2>3, <2>4
  <1>12. SizesTrue'
    BY <1>11 DEF SizesTrue
  <1> QED BY <1>8, <1>10, <1>12 DEF SizesInv

\* A file that goes is no longer accounted for.
LEMMA DropFileSized ==
    ASSUME IndexInv, IndexInv', SizesInv, NEW s \in Slot, RemoveFiles(s), Matching(s, files) # {}
    PROVE  SizesInv'
  <1>1. PICK k \in Matching(s, files) : files' = Drop(files, k) /\ op' = [op EXCEPT ![s].last = k]
    BY DEF RemoveFiles
  <1>2. At(s, "files") /\ UNCHANGED <<dirs, torn, cut>>
    BY DEF RemoveFiles
  <1>3. op'[s] = [op[s] EXCEPT !.last = k] /\ \A t \in Slot \ {s} : op'[t] = op[t]
    BY <1>1, OfOne DEF OpTyped
  <1>4. op'[s].phase = "files" /\ op'[s].name = op[s].name /\ op'[s].todo = op[s].todo
    BY <1>2, <1>3, OfOne DEF Op, At
  <1>5. PICK n : n = op[s].name /\ IsName(n) /\ KeyMatches(k, n) /\ k \in Seq(Token) /\ k \in DOMAIN files
    BY <1>1, <1>2, OfOne DEF Matching, FilesTyped, At
  <1>6. k # Root /\ ShareOf(k) = n
    BY <1>5, RootMatchesNone, NameOf
  <1>7. n \in Removing /\ Removing' = Removing /\ Clearing' = Clearing
    <2>1. n \in Removing
      BY <1>2, <1>5 DEF Removing, At
    <2> QED BY <1>2, <1>3, <1>4, <2>1, RemovingKept, ClearingKept DEF At
  <1>8. Shaped /\ Walked(s) /\ DirsThere
    BY DEF SizesInv, SlotSized
  <1>9. DOMAIN files' = DOMAIN files \ {k} /\ \A l \in DOMAIN files' : files'[l] = files[l]
    BY <1>1 DEF Drop, Restrict
  <1>10. Shaped'
    <2>1. IsFiniteSet(DOMAIN files')
      BY <1>8, <1>9, FS_Subset DEF Shaped
    <2> QED BY <1>2, <1>8, <1>9, <2>1 DEF Shaped
  <1>11. DirsThere'
    BY <1>2, <1>7, <1>8, <1>9 DEF DirsThere
  <1>12. SlotSized(s)'
    BY <1>4, <1>8 DEF SlotSized, DirsPassed, MergedThere, Existing, Fresh, Walked, At
  <1>13. \A t \in Slot : SlotSized(t)'
    <2>1. Only(files, files', op[s].name) /\ Only(dirs, dirs', op[s].name)
      BY <1>2, <1>5, <1>9 DEF Only
    <2> QED BY <1>2, <1>3, <1>12, <2>1, OthersSized DEF At
  <1>14. ASSUME NEW d \in Seq(Token), Sound(d)' PROVE Same(SizeOf(d)', Due(d)')
    <2>1. Sound(d) /\ SizeOf(d)' = SizeOf(d)
      BY <1>2, <1>7, <1>14 DEF Sound, Right, SizeOf
    <2>2. Counted(d)' = Counted(d) /\ k \notin Counted(d)
      BY <1>6, <1>7, <1>9 DEF Counted
    <2>3. \A l \in Counted(d) : files'[l] = files[l]
      BY <1>9, <2>2 DEF Counted
    <2>4. \A t \in Slot : Adds(op'[t], d) = Adds(op[t], d)
      BY <1>2, <1>3, <1>4 DEF Adds, At
    <2> QED BY <2>1, <2>2, <2>3, <2>4, DueKept
  <1>15. SizesTrue'
    BY <1>14 DEF SizesTrue
  <1> QED BY <1>10, <1>11, <1>13, <1>15 DEF SizesInv

LEMMA FilesGoneSized ==
    ASSUME IndexInv, IndexInv', SizesInv, NEW s \in Slot, RemoveFiles(s), Matching(s, files) = {}
    PROVE  SizesInv'
  <1>1. op' = [op EXCEPT ![s].phase = "name", ![s].last = None]
    BY DEF RemoveFiles
  <1>2. At(s, "files") /\ UNCHANGED <<files, dirs, torn, cut>>
    BY DEF RemoveFiles
  <1>3. op'[s] = [op[s] EXCEPT !.phase = "name", !.last = None] /\ \A t \in Slot \ {s} : op'[t] = op[t]
    BY <1>1, OfOne DEF OpTyped
  <1>4. op'[s].phase = "name" /\ op'[s].name = op[s].name /\ op'[s].todo = op[s].todo
    BY <1>3, OfOne DEF Op
  <1>5. Clearing' = Clearing
    BY <1>2, <1>3, <1>4, ClearingKept DEF At
  <1>6. Walked(s)
    BY DEF SizesInv, SlotSized
  <1>7. \A k \in DOMAIN files : ShareOf(k) \notin torn => (ShareOf(k) \in Removing' <=> ShareOf(k) \in Removing)
    <2>1. SUFFICES ASSUME NEW k \in DOMAIN files, ShareOf(k) \notin torn
                   PROVE  ShareOf(k) \in Removing' <=> ShareOf(k) \in Removing
      OBVIOUS
    <2>2. PICK m : m = ShareOf(k) /\ m \notin torn
      BY <2>1
    <2>3. m # op[s].name
      BY <1>2, <2>2, OfOne DEF EmptiedAt, PassedAt, Matching, FilesTyped
    <2>4. ASSUME m \in Removing' PROVE m \in Removing
      <3>1. PICK t \in Slot : op'[t].phase \in {"dirs", "files"} /\ m = op'[t].name
        BY <2>4 DEF Removing
      <3> QED BY <1>3, <1>4, <3>1 DEF Removing
    <2>5. ASSUME m \in Removing PROVE m \in Removing'
      <3>1. PICK t \in Slot : op[t].phase \in {"dirs", "files"} /\ m = op[t].name
        BY <2>5 DEF Removing
      <3>2. op'[t] = op[t]
        BY <1>3, <2>3, <3>1
      <3> QED BY <3>1, <3>2 DEF Removing
    <2> QED BY <2>2, <2>4, <2>5
  <1>8. \A d \in Seq(Token) : Adds(op'[s], d) = Adds(op[s], d)
    BY <1>2, <1>4 DEF Adds, At
  <1>9. SlotSized(s)'
    BY <1>4, <1>6 DEF SlotSized, DirsPassed, MergedThere, Existing, Fresh, Walked, At
  <1> QED BY <1>2, <1>3, <1>5, <1>7, <1>8, <1>9, QuietSized DEF At

\* What is added to a directory is accounted for until the file is entered.
LEMMA MergeSized ==
    ASSUME IndexInv, IndexInv', SizesInv, NEW s \in Slot, Merge(s)
    PROVE  SizesInv'
  <1>1. PICK d \in op[s].merges : /\ dirs' = Put(dirs, d, (SizeOf(d) + op[s].file.size) % SizeMod)
                                  /\ op' = [op EXCEPT ![s].merges = @ \ {d}]
    BY DEF Merge
  <1>2. At(s, "merge") /\ UNCHANGED <<files, torn, cut>>
    BY DEF Merge
  <1>3. op'[s] = [op[s] EXCEPT !.merges = @ \ {d}] /\ \A t \in Slot \ {s} : op'[t] = op[t]
    BY <1>1, OfOne DEF OpTyped
  <1>4. /\ op'[s].phase = "merge" /\ op'[s].name = op[s].name /\ op'[s].todo = op[s].todo
        /\ op'[s].file = op[s].file /\ op'[s].merges = op[s].merges \ {d}
    BY <1>2, <1>3, OfOne DEF Op, At
  <1>5. Shaped /\ Walked(s) /\ DirsThere /\ MergedThere(s) /\ Fresh(s) /\ SizesTrue
    BY DEF SizesInv, SlotSized
  <1>6. PICK k, A : k = KeyFor(op[s]) /\ A = Ancestors(k) /\ k = KeyFor(op'[s])
    BY <1>4 DEF KeyFor
  <1>7. d \in A /\ op[s].merges \subseteq A
    BY <1>2, <1>5, <1>6 DEF Walked
  <1>8. d \in Seq(Token) /\ (d = Root \/ (IsName(ShareOf(d)) /\ ShareOf(d) = op[s].name /\ KeyMatches(d, op[s].name)))
    BY <1>2, <1>5, <1>6, <1>7, FileAt
  <1>9. DOMAIN dirs' = DOMAIN dirs \cup {d} /\ \A e \in DOMAIN dirs \ {d} : dirs'[e] = dirs[e]
    BY <1>1 DEF Put
  <1>10. Removing' = Removing /\ Clearing' = Clearing
    BY <1>2, <1>3, <1>4, RemovingKept, ClearingKept DEF At
  <1>11. Shaped' /\ DirsThere'
    BY <1>2, <1>5, <1>8, <1>9, <1>10 DEF Shaped, DirsThere
  <1>12. MergedThere(s)'
    BY <1>2, <1>4, <1>5, <1>6, <1>9 DEF MergedThere, At
  <1>13. Walked(s)'
    BY <1>2, <1>4, <1>5, <1>6, <1>9 DEF Walked, At
  <1>14. Fresh(s)'
    BY <1>2, <1>4, <1>5, <1>6 DEF Fresh, At, Tame
  <1>15. SlotSized(s)'
    BY <1>4, <1>12, <1>13, <1>14 DEF SlotSized, DirsPassed, Existing, At
  <1>16. \A t \in Slot : SlotSized(t)'
    <2>1. Only(files, files', op[s].name) /\ Only(dirs, dirs', op[s].name)
      BY <1>2, <1>8, <1>9 DEF Only
    <2> QED BY <1>2, <1>3, <1>9, <1>15, <2>1, OthersSized DEF At
  <1>17. \A e : \A t \in Slot \ {s} : Adds(op'[t], e) = Adds(op[t], e)
    BY <1>3
  <1>18. ASSUME NEW e \in Seq(Token), Sound(e)', e # d PROVE Same(SizeOf(e)', Due(e)')
    <2>1. Sound(e) /\ SizeOf(e)' = SizeOf(e) /\ Counted(e)' = Counted(e)
      BY <1>2, <1>9, <1>10, <1>18 DEF Sound, Right, SizeOf, Counted
    <2>2. Adds(op'[s], e) = Adds(op[s], e)
      BY <1>2, <1>4, <1>6, <1>18 DEF Adds, At
    <2> QED BY <1>2, <1>17, <2>1, <2>2, DueKept
  <1>19. ASSUME Sound(d)' PROVE Same(SizeOf(d)', Due(d)')
    <2>1. Sound(d) /\ Counted(d)' = Counted(d)
      BY <1>2, <1>10, <1>19 DEF Sound, Right, Counted
    <2>2. PICK z \in Nat : z = op[s].file.size
      BY <1>2, <1>5, FileAt
    <2>3. Adds(op'[s], d) = z /\ Adds(op[s], d) = 0
      BY <1>2, <1>4, <1>6, <1>7, <2>2 DEF Adds, At
    <2>4. PICK f, g : f = Added(d) /\ g = Added(d)'
      OBVIOUS
    <2>5. f[s] = 0 /\ g[s] = z /\ \A t \in Slot \ {s} : f[t] = g[t]
      BY <1>17, <2>3, <2>4 DEF Added
    <2>6. Values(f, Slot, Int)
      BY <2>4, AddsTyped
    <2>7. Values(g, Slot, Int)
      BY <2>5, <2>6 DEF Values
    <2>8. IsFiniteSet(Slot)
      BY SharesAssumption
    <2>9. PICK a \in Int, b \in Int : a = SumOf(files, Counted(d)) /\ b = SumOf(f, Slot)
      <3>1. Counted(d) \in SUBSET DOMAIN files
        BY DEF Counted
      <3> QED BY <1>5, <2>6, <2>8, <3>1, FilesSum, SumType
    <2>10. SumOf(g, Slot) = b + (z - 0)
      BY <2>5, <2>6, <2>7, <2>8, <2>9, SumChanged
    <2>11. Due(d)' = (a + b) + z
      BY <1>2, <2>1, <2>4, <2>9, <2>10 DEF Due
    <2>12. Due(d) = a + b
      BY <2>4, <2>9 DEF Due
    <2>13. PICK y \in Int : y = SizeOf(d)
      BY SizeInt
    <2>14. PICK c \in Int : c = a + b
      OBVIOUS
    <2>15. PICK x \in Int, w \in Int, e \in Int : x = y + z /\ w = x % SizeMod /\ e = c + z
      <3>1. PICK m \in Nat \ {0} : m = SizeMod
        BY SharesAssumption
      <3>2. (y + z) % m \in Int
        OBVIOUS
      <3> QED BY <3>1, <3>2
    <2>16. Same(w, e)
      <3>1. Same(w, x)
        BY <2>15, SameRules
      <3>2. Same(y, c)
        BY <1>5, <1>8, <2>1, <2>12, <2>13, <2>14 DEF SizesTrue
      <3>3. Same(y + z, c + z)
        BY <3>2, SameRules
      <3>4. Same(x, e)
        BY <2>15, <3>3
      <3> QED BY <3>1, <3>4, SameRules
    <2>17. SizeOf(d)' = w
      BY <1>1, <2>2, <2>13, <2>15 DEF SizeOf, Put
    <2> QED BY <2>11, <2>14, <2>15, <2>16, <2>17
  <1>20. SizesTrue'
    BY <1>18, <1>19 DEF SizesTrue
  <1> QED BY <1>11, <1>16, <1>20 DEF SizesInv

LEMMA InsertFileSized ==
    ASSUME IndexInv, IndexInv', SizesInv, NEW s \in Slot, InsertFile(s)
    PROVE  SizesInv'
  <1>1. PICK k, z : k = KeyFor(op[s]) /\ z = op[s].file.size
    OBVIOUS
  <1>2. /\ At(s, "merge") /\ op[s].merges = {} /\ UNCHANGED <<dirs, torn, cut>>
        /\ files' = Put(files, k, z) /\ op' = [op EXCEPT ![s].phase = "walk", ![s].file = None]
    BY <1>1 DEF InsertFile, KeyFor
  <1>3. op'[s] = [op[s] EXCEPT !.phase = "walk", !.file = None] /\ \A t \in Slot \ {s} : op'[t] = op[t]
    BY <1>2, OfOne DEF OpTyped
  <1>4. op'[s].phase = "walk" /\ op'[s].name = op[s].name /\ op'[s].todo = op[s].todo
    BY <1>3, OfOne DEF Op
  <1>5. Shaped /\ Walked(s) /\ DirsThere /\ MergedThere(s) /\ Fresh(s) /\ SizesTrue
    BY DEF SizesInv, SlotSized
  <1>6. PICK n : n = op[s].name /\ IsName(n) /\ IsPath(op[s].file.path) /\ z \in Nat
    BY <1>1, <1>2, <1>5, FileAt
  <1>7. /\ k \in Seq(Token) /\ ShareOf(k) = n /\ KeyMatches(k, n) /\ Root \in Ancestors(k)
        /\ \A a \in Ancestors(k) : a \in Seq(Token) /\ (a = Root \/ ShareOf(a) = n)
    BY <1>1, <1>2, <1>5, <1>6, FileAt
  <1>8. DOMAIN files' = DOMAIN files \cup {k} /\ files'[k] = z /\ \A l \in DOMAIN files \ {k} : files'[l] = files[l]
    BY <1>2 DEF Put
  <1>9. Removing' = Removing /\ Clearing' = Clearing
    BY <1>2, <1>3, <1>4, RemovingKept, ClearingKept DEF At
  <1>10. n \notin torn => Ancestors(k) \subseteq DOMAIN dirs
    BY <1>1, <1>2, <1>5, <1>6 DEF MergedThere
  <1>11. Shaped'
    <2>1. IsFiniteSet(DOMAIN files')
      BY <1>5, <1>8, FS_AddElement DEF Shaped
    <2>2. \E m, p : IsName(m) /\ IsPath(p) /\ k = FileKey(m, p)
      BY <1>1, <1>6 DEF KeyFor
    <2>3. Root \in DOMAIN dirs
      BY <1>2, <1>5 DEF Walked
    <2> QED BY <1>2, <1>5, <1>8, <2>1, <2>2, <2>3 DEF Shaped
  <1>12. DirsThere'
    BY <1>2, <1>5, <1>7, <1>8, <1>9, <1>10 DEF DirsThere
  <1>13. Fresh(s)'
    <2>1. SUFFICES ASSUME Tame(s), NEW f \in op[s].todo PROVE FileKey(n, f.path) \notin DOMAIN files'
      BY <1>2, <1>4, <1>6 DEF Fresh, At, Tame
    <2>2. FileKey(n, f.path) \notin DOMAIN files
      BY <1>2, <1>5, <1>6, <2>1 DEF Fresh
    <2>3. FileKey(n, f.path) # k
      <3>1. IsPath(f.path) /\ f.path # op[s].file.path
        BY <1>2, <1>5, <2>1 DEF Walked
      <3> QED BY <1>1, <1>6, <3>1, PathOf DEF KeyFor
    <2> QED BY <1>8, <2>2, <2>3
  <1>14. SlotSized(s)'
    BY <1>4, <1>5, <1>13 DEF SlotSized, DirsPassed, MergedThere, Existing, Walked, At
  <1>15. \A t \in Slot : SlotSized(t)'
    <2>1. Only(files, files', op[s].name) /\ Only(dirs, dirs', op[s].name)
      BY <1>2, <1>6, <1>7, <1>8 DEF Only
    <2> QED BY <1>2, <1>3, <1>14, <2>1, OthersSized DEF At
  <1>16. \A e : \A t \in Slot \ {s} : Adds(op'[t], e) = Adds(op[t], e)
    BY <1>3
  <1>17. ASSUME NEW d \in Seq(Token), Sound(d)', d \notin Ancestors(k) PROVE Same(SizeOf(d)', Due(d)')
    <2>1. Sound(d) /\ SizeOf(d)' = SizeOf(d)
      BY <1>2, <1>9, <1>17 DEF Sound, Right, SizeOf
    <2>2. Counted(d)' = Counted(d) /\ \A l \in Counted(d) : files'[l] = files[l]
      BY <1>8, <1>9, <1>17 DEF Counted
    <2>3. Adds(op'[s], d) = Adds(op[s], d)
      BY <1>1, <1>4, <1>17 DEF Adds
    <2> QED BY <1>16, <2>1, <2>2, <2>3, DueKept
  <1>18. ASSUME NEW d \in Seq(Token), Sound(d)', d \in Ancestors(k) PROVE Same(SizeOf(d)', Due(d)')
    <2>1. Sound(d) /\ SizeOf(d)' = SizeOf(d)
      BY <1>2, <1>9, <1>18 DEF Sound, Right, SizeOf
    <2>2. n \notin torn \cup cut
      BY <1>7, <1>18, <2>1 DEF Sound, Right
    <2>3. k \notin DOMAIN files
      BY <1>1, <1>2, <1>5, <1>6, <2>2 DEF Fresh, Tame
    <2>4. n \notin Removing
      BY <1>2, <1>6, <2>2, TwoCalls DEF Removing, At
    <2>5. PICK K \in SUBSET DOMAIN files : K = Counted(d)
      BY DEF Counted
    <2>6. Counted(d)' = K \cup {k} /\ k \notin K
      BY <1>7, <1>8, <1>9, <1>18, <2>3, <2>4, <2>5 DEF Counted
    <2>7. IsFiniteSet(K) /\ Values(files, K, Int) /\ SumOf(files, K) \in Int
      BY <1>5, <2>5, FilesSum
    <2>8. \A l \in K : files[l] = files'[l]
      BY <1>8, <2>3
    <2>9. SumOf(files', K) = SumOf(files, K)
      BY <2>7, <2>8, SumSame
    <2>10. Values(files', K \cup {k}, Int)
      BY <1>6, <1>8, <2>7, <2>8 DEF Values
    <2>11. SumOf(files', K \cup {k}) = files'[k] + SumOf(files', K)
      BY <2>6, <2>7, <2>10, SumAdded
    <2>12. Adds(op'[s], d) = 0 /\ Adds(op[s], d) = z
      BY <1>1, <1>2, <1>4, <1>18 DEF Adds, At
    <2>13. PICK f, g : f = Added(d) /\ g = Added(d)'
      OBVIOUS
    <2>14. f[s] = z /\ g[s] = 0 /\ \A t \in Slot \ {s} : f[t] = g[t]
      BY <1>16, <2>12, <2>13 DEF Added
    <2>15. Values(f, Slot, Int)
      BY <2>13, AddsTyped
    <2>16. Values(g, Slot, Int)
      BY <2>14, <2>15 DEF Values
    <2>17. IsFiniteSet(Slot)
      BY SharesAssumption
    <2>18. PICK a \in Int, b \in Int : a = SumOf(files, K) /\ b = SumOf(f, Slot)
      BY <2>7, <2>15, <2>17, SumType
    <2>19. SumOf(g, Slot) = b + (0 - z)
      BY <2>14, <2>15, <2>16, <2>17, <2>18, SumChanged
    <2>20. Due(d)' = (z + a) + (b + (0 - z))
      BY <1>8, <2>6, <2>9, <2>11, <2>13, <2>18, <2>19 DEF Due
    <2>21. Due(d) = a + b
      BY <2>5, <2>13, <2>18 DEF Due
    <2>22. Due(d)' = Due(d)
      BY <1>6, <2>18, <2>20, <2>21
    <2> QED BY <1>5, <2>1, <2>22 DEF SizesTrue
  <1>19. SizesTrue'
    BY <1>17, <1>18 DEF SizesTrue
  <1> QED BY <1>11, <1>12, <1>15, <1>19 DEF SizesInv

\* A call begins: the size that it will subtract is that of the files it will remove,
\* and a share without a size has no files.
LEMMA BeginSized ==
    ASSUME IndexInv, IndexInv', SizesInv, NEW s \in Slot, NEW scan \in BOOLEAN, NEW d \in Directories, NEW n,
           IsName(n), Begin(s, scan, d, n)
    PROVE  SizesInv'
  <1> DEFINE b == [NoOp EXCEPT !.scan = scan, !.dir = d, !.name = n]
  <1>1. PICK o : /\ op' = [op EXCEPT ![s] = o] /\ op'[s] = o
                 /\ o.phase \in {"subtract", "insert", "idle"} /\ o.todo = {}
                 /\ o.phase # "idle" => o.name = n
                 /\ o.phase = "subtract" => n \in DOMAIN dirs /\ o.existing = dirs[n]
                 /\ o.phase = "insert" => n \notin DOMAIN dirs
    <2>1. CASE n \in DOMAIN dirs
      <3>1. PICK e : e = dirs[n]
        OBVIOUS
      <3> DEFINE o == [b EXCEPT !.phase = "subtract", !.existing = e]
      <3>2. o.phase = "subtract" /\ o.todo = {} /\ o.name = n /\ o.existing = e
        BY DEF NoOp
      <3>3. op' = [op EXCEPT ![s] = o] /\ op'[s] = o
        BY <2>1, <3>1, OfOne DEF Begin, OpTyped
      <3> HIDE DEF o
      <3> QED BY <2>1, <3>1, <3>2, <3>3
    <2>2. CASE n \notin DOMAIN dirs /\ scan
      <3> DEFINE o == [b EXCEPT !.phase = "insert"]
      <3>2. o.phase = "insert" /\ o.todo = {} /\ o.name = n
        BY DEF NoOp
      <3>3. op' = [op EXCEPT ![s] = o] /\ op'[s] = o
        BY <2>2, OfOne DEF Begin, OpTyped
      <3> HIDE DEF o
      <3> QED BY <2>2, <3>2, <3>3
    <2>3. CASE n \notin DOMAIN dirs /\ ~scan
      <3>1. op' = [op EXCEPT ![s] = NoOp] /\ op'[s] = NoOp
        BY <2>3, OfOne DEF Begin, OpTyped
      <3>2. NoOp.phase = "idle" /\ NoOp.todo = {}
        BY DEF NoOp
      <3> QED BY <3>1, <3>2
    <2> QED BY <2>1, <2>2, <2>3
  <1> HIDE DEF b
  <1>2. At(s, "idle") /\ UNCHANGED <<files, dirs, cut>> /\ torn \subseteq torn'
    BY DEF Begin, trees
  <1>3. n \notin torn' => \A t \in Slot : ~At(t, "idle") => op[t].name # n
    BY DEF Begin
  <1>4. \A t \in Slot \ {s} : op'[t] = op[t]
    BY <1>1, OfOne DEF OpTyped
  <1>5. Removing' = Removing /\ Clearing' = Clearing
    BY <1>1, <1>2, <1>4, RemovingKept, ClearingKept DEF At
  <1>6. Shaped /\ DirsThere /\ SizesTrue
    BY DEF SizesInv
  <1>7. Shaped' /\ DirsThere'
    BY <1>2, <1>5, <1>6 DEF Shaped, DirsThere
  <1>8. ASSUME NEW e \in Seq(Token), Sound(e)' PROVE Same(SizeOf(e)', Due(e)')
    <2>1. Sound(e) /\ SizeOf(e)' = SizeOf(e) /\ Counted(e)' = Counted(e)
      BY <1>2, <1>5, <1>8 DEF Sound, Right, SizeOf, Counted
    <2>2. \A t \in Slot : Adds(op'[t], e) = Adds(op[t], e)
      BY <1>1, <1>2, <1>4 DEF Adds, At
    <2> QED BY <1>2, <2>1, <2>2, DueKept
  <1>9. n \in Seq(Token) /\ n # Root /\ ShareOf(n) = n
    BY NameOf DEF IsName, Root, KeyMatches
  <1>10. n \notin torn' => n \notin Removing \cup Clearing
    BY <1>3 DEF Removing, Clearing, At
  <1>11. Existing(s)'
    <2>1. SUFFICES ASSUME n \notin torn' \cup cut, n \in DOMAIN dirs
                   PROVE  Same(dirs[n], SumOf(files, Of(n)))
      BY <1>1, <1>2 DEF Existing, At, Tame, Of
    <2>2. Sound(n)
      BY <1>2, <1>9, <1>10, <2>1 DEF Sound, Right
    <2>3. SizeOf(n) = dirs[n]
      BY <2>1 DEF SizeOf
    <2>4. Counted(n) = Of(n)
      BY <1>6, <1>9, <1>10, <2>1, FileShaped DEF Counted, Of
    <2>5. \A t \in Slot : Added(n)[t] = 0
      BY <1>3, <1>9, <2>1, OfItsShare DEF Added, At
    <2>6. IsFiniteSet(Slot)
      BY SharesAssumption
    <2>7. SumOf(Added(n), Slot) = 0
      <3>1. PICK f : f = Added(n)
        OBVIOUS
      <3> QED BY <2>5, <2>6, <3>1, SumZero
    <2>8. SumOf(files, Counted(n)) \in Int
      BY <1>6, FilesSum DEF Counted
    <2>9. Due(n) = SumOf(files, Of(n))
      BY <2>4, <2>7, <2>8 DEF Due
    <2> QED BY <1>6, <1>9, <2>2, <2>3, <2>9 DEF SizesTrue
  <1>12. Fresh(s)'
    <2>1. SUFFICES ASSUME n \notin torn' \cup cut, n \notin DOMAIN dirs
                   PROVE  Of(n) = {}
      BY <1>1, <1>2 DEF Fresh, At, Tame, Of
    <2>2. SUFFICES ASSUME NEW k \in Of(n) PROVE FALSE
      OBVIOUS
    <2>3. k \in DOMAIN files /\ ShareOf(k) = n
      BY <2>2 DEF Of
    <2>4. n \in Ancestors(k)
      BY <1>6, <2>3, FileShaped
    <2> QED BY <1>2, <1>6, <1>10, <2>1, <2>3, <2>4 DEF DirsThere
  <1>13. SlotSized(s)'
    BY <1>1, <1>11, <1>12 DEF SlotSized, DirsPassed, MergedThere, Walked, At
  <1>14. ASSUME NEW t \in Slot \ {s} PROVE SlotSized(t)'
    <2>1. op'[t] = op[t] /\ SlotSized(t)
      BY <1>4 DEF SizesInv
    <2> QED BY <1>2, <2>1 DEF SlotSized, DirsPassed, MergedThere, Existing, Fresh, Walked, Tame, Of, At
  <1>15. SizesTrue'
    BY <1>8 DEF SizesTrue
  <1> QED BY <1>7, <1>13, <1>14, <1>15 DEF SizesInv

\* The program ends: what a call was about is cut, and nothing is under way.
LEMMA CrashSized ==
    ASSUME IndexInv, IndexInv', SizesInv, Crash
    PROVE  SizesInv'
  <1>1. UNCHANGED <<files, dirs, torn>> /\ cut \subseteq cut' /\ \A t \in Slot : op'[t] = NoOp
    BY DEF Crash, trees
  <1>2. \A t \in Slot : ~At(t, "idle") => op[t].name \in cut'
    BY DEF Crash
  <1>3. Removing' = {} /\ Clearing' = {}
    BY <1>1 DEF Removing, Clearing, NoOp
  <1>4. Removing \subseteq cut' /\ Clearing \subseteq cut'
    BY <1>2 DEF Removing, Clearing, At
  <1>5. Shaped /\ DirsThere
    BY DEF SizesInv
  <1>6. Shaped' /\ DirsThere'
    BY <1>1, <1>3, <1>4, <1>5 DEF Shaped, DirsThere
  <1>7. ASSUME NEW d \in Seq(Token), Sound(d)' PROVE Same(SizeOf(d)', Due(d)')
    <2>1. Right(d) /\ (d = Root \/ ShareOf(d) \notin cut')
      BY <1>1, <1>7 DEF Sound, Right
    <2>2. Sound(d) /\ SizeOf(d)' = SizeOf(d)
      BY <1>1, <1>4, <2>1 DEF Sound, SizeOf
    <2>3. d = Root => cut' = {}
      BY <1>7 DEF Sound, Right
    <2>4. \A k \in DOMAIN files : d \in Ancestors(k) => ShareOf(k) \notin Removing
      BY <1>4, <1>5, <2>1, <2>3, FileShaped
    <2>5. Counted(d)' = Counted(d)
      BY <1>1, <1>3, <2>4 DEF Counted
    <2>6. ASSUME NEW t \in Slot PROVE Adds(op'[t], d) = Adds(op[t], d)
      <3>1. Adds(op'[t], d) = 0
        BY <1>1 DEF Adds, NoOp
      <3>2. CASE d = Root
        BY <1>2, <2>3, <3>1, <3>2 DEF Adds, At
      <3>3. CASE d # Root
        BY <1>2, <2>1, <3>1, <3>3, OfItsShare DEF At
      <3> QED BY <3>2, <3>3
    <2> QED BY <1>1, <2>2, <2>5, <2>6, DueKept
  <1>8. \A t \in Slot : SlotSized(t)'
    BY <1>1 DEF SlotSized, DirsPassed, MergedThere, Existing, Fresh, Walked, At, NoOp
  <1>9. SizesTrue'
    BY <1>7 DEF SizesTrue
  <1> QED BY <1>6, <1>8, <1>9 DEF SizesInv

LEMMA SizesKeeps ==
    ASSUME IndexInv, SizesInv, IndexNext \/ Crash
    PROVE  IndexInv' /\ SizesInv'
  <1>0. IndexInv'
    BY IndexKeeps
  <1>1. ASSUME NEW s \in Slot, Scan(s) PROVE SizesInv'
    <2>1. PICK d \in Directories : \E n \in Owned(d) \cup Candidates(d) :
                                      ShareNameFor(d, n) /\ Begin(s, TRUE, d, n)
      BY <1>1 DEF Scan
    <2>2. PICK n \in Owned(d) \cup Candidates(d) : ShareNameFor(d, n) /\ Begin(s, TRUE, d, n)
      BY <2>1
    <2>3. IsName(n)
      BY <2>2, ChosenName DEF IndexInv, IndexTyped
    <2> QED BY <1>0, <2>2, <2>3, BeginSized
  <1>2. ASSUME NEW s \in Slot, RemoveShareDir(s) PROVE SizesInv'
    <2>1. PICK n \in DOMAIN shareNames : Begin(s, FALSE, shareNames[n], n)
      BY <1>2 DEF RemoveShareDir
    <2>2. IsName(n) /\ shareNames[n] \in Directories
      BY DEF IndexInv, IndexTyped, NamesTyped
    <2> QED BY <1>0, <2>1, <2>2, BeginSized
  <1>3. ASSUME NEW s \in Slot, IndexStep(s) PROVE SizesInv'
    BY <1>0, <1>3, SubtractRootSized, DropDirSized, DirsGoneSized, DropFileSized, FilesGoneSized,
       RemoveNameSized, InsertNameSized, WalkToSized, MergeSized, InsertFileSized, WalkEndsSized DEF IndexStep
  <1> QED BY <1>0, <1>1, <1>2, <1>3, CrashSized DEF IndexNext

LEMMA NothingAdded ==
    ASSUME NEW d, ~ \E s \in Slot : op[s].phase = "merge"
    PROVE  SumOf(Added(d), Slot) = 0
  <1>1. PICK f : f = Added(d)
    OBVIOUS
  <1>2. \A s \in Slot : f[s] = 0
    BY <1>1 DEF Added, Adds
  <1>3. IsFiniteSet(Slot)
    BY SharesAssumption
  <1> QED BY <1>1, <1>2, <1>3, SumZero

LEMMA BeneathSum ==
    ASSUME NEW f, NEW d
    PROVE  SizeBeneath(f, d) = SumOf(f, {k \in DOMAIN f : Beneath(k, d)})
  BY DEF SizeBeneath, SumOf

\* What has been indexed of finitely many shares is finite.
LEMMA IndexedFinite ==
    ASSUME NEW shared, IsFiniteSet(DOMAIN shared), \A n \in DOMAIN shared : IsFiniteSet(shared[n].tree)
    PROVE  IsFiniteSet(DOMAIN IndexedFiles(shared))
  <1> DEFINE of(n) == {<<FileKey(n, f.path), f.size>> : f \in shared[n].tree}
             all == {of(n) : n \in DOMAIN shared}
  <1>1. ASSUME NEW n \in DOMAIN shared PROVE IsFiniteSet(of(n))
    <2> DEFINE h == [f \in shared[n].tree |-> <<FileKey(n, f.path), f.size>>]
    <2>1. h \in Surjection(shared[n].tree, of(n))
      BY DEF Surjection
    <2> QED BY <2>1, FS_Surjection
  <1>2. IsFiniteSet(all)
    <2> DEFINE h == [n \in DOMAIN shared |-> of(n)]
    <2>1. h \in Surjection(DOMAIN shared, all)
      BY DEF Surjection
    <2> HIDE DEF h, all
    <2> QED BY <2>1, FS_Surjection
  <1>3. PICK keys : keys = UNION all /\ IsFiniteSet(keys)
    <2>1. \A T \in all : IsFiniteSet(T)
      BY <1>1
    <2> HIDE DEF all
    <2> QED BY <1>2, <2>1, FS_UNION
  <1>4. DOMAIN IndexedFiles(shared) = {y[1] : y \in keys}
    BY <1>3 DEF IndexedFiles
  <1>5. IsFiniteSet({y[1] : y \in keys})
    <2> DEFINE h == [y \in keys |-> y[1]]
    <2>1. h \in Surjection(keys, {y[1] : y \in keys})
      BY DEF Surjection
    <2> QED BY <1>3, <2>1, FS_Surjection
  <1> QED BY <1>4, <1>5

LEMMA SizesBegins ==
    ASSUME Init
    PROVE  SizesInv
  <1>0. IndexInv
    BY IndexBegins
  <1>1. PICK x \in Sessions : IndexInit(x.shared)
    BY DEF Init
  <1>2. PICK shared : shared = x.shared
    OBVIOUS
  <1>3. /\ IsFiniteSet(DOMAIN shared)
        /\ \A n \in DOMAIN shared : IsName(n) /\ IsTree(shared[n].tree)
    BY <1>1, <1>2, LibraryAssumption
  <1>4. files = IndexedFiles(shared) /\ dirs = IndexedDirs(shared) /\ op = [s \in Slot |-> NoOp]
    BY <1>1, <1>2 DEF IndexInit
  <1>5. /\ DOMAIN dirs = UNION {Ancestors(k) : k \in DOMAIN files}
        /\ \A d \in DOMAIN dirs : dirs[d] = SizeBeneath(files, d)
    BY <1>4 DEF IndexedDirs
  <1>6. \A s \in Slot : op[s].phase = "idle" /\ op[s].todo = {}
    BY <1>4 DEF NoOp
  <1>7. Removing = {} /\ Clearing = {} /\ ~ \E s \in Slot : op[s].phase = "merge"
    BY <1>6 DEF Removing, Clearing
  <1>8. \A k \in DOMAIN files : \E n, p : IsName(n) /\ IsPath(p) /\ k = FileKey(n, p)
    <2> DEFINE keys == UNION {{<<FileKey(n, f.path), f.size>> : f \in shared[n].tree} : n \in DOMAIN shared}
    <2>1. DOMAIN files = {y[1] : y \in keys}
      BY <1>4 DEF IndexedFiles
    <2>2. \A y \in keys : \E n, p : IsName(n) /\ IsPath(p) /\ y[1] = FileKey(n, p)
      BY <1>3 DEF IsTree
    <2> HIDE DEF keys
    <2> QED BY <2>1, <2>2
  <1>9. Shaped
    <2>1. IsFiniteSet(DOMAIN files)
      BY <1>3, <1>4, IndexedFinite DEF IsTree
    <2>2. \A d \in DOMAIN dirs : d = Root \/ (IsName(ShareOf(d)) /\ KeyMatches(d, ShareOf(d)))
      <3>1. SUFFICES ASSUME NEW k \in DOMAIN files, NEW d \in Ancestors(k)
                     PROVE  d = Root \/ (IsName(ShareOf(d)) /\ KeyMatches(d, ShareOf(d)))
        BY <1>5
      <3>2. PICK n, p : IsName(n) /\ IsPath(p) /\ k = FileKey(n, p)
        BY <1>8
      <3> QED BY <3>1, <3>2, AncestorsOf
    <2>3. DOMAIN files # {} => Root \in DOMAIN dirs
      BY <1>5 DEF Ancestors
    <2> QED BY <1>8, <2>1, <2>2, <2>3 DEF Shaped
  <1>10. DirsThere
    BY <1>5 DEF DirsThere
  <1>11. ASSUME NEW d \in Seq(Token) PROVE SizeOf(d) = Due(d)
    <2>1. Counted(d) = {k \in DOMAIN files : Beneath(k, d)}
      BY <1>7, <1>9, <1>11, FileShaped DEF Counted
    <2>2. SumOf(files, Counted(d)) \in Int
      BY <1>0, <1>9, FilesSum DEF Counted
    <2>3. SizeOf(d) = SumOf(files, Counted(d))
      <3>1. CASE d \in DOMAIN dirs
        BY <1>5, <2>1, <3>1, BeneathSum DEF SizeOf
      <3>2. CASE d \notin DOMAIN dirs
        <4>1. Counted(d) = {}
          BY <1>5, <3>2 DEF Counted
        <4> QED BY <3>2, <4>1, SumEmpty DEF SizeOf
      <3> QED BY <3>1, <3>2
    <2>4. SumOf(Added(d), Slot) = 0
      BY <1>7, NothingAdded
    <2> QED BY <2>2, <2>3, <2>4 DEF Due
  <1>12. SizesTrue
    BY <1>0, <1>9, <1>11, DueInt, SameRules DEF SizesTrue
  <1>13. \A s \in Slot : SlotSized(s)
    BY <1>6 DEF SlotSized, DirsPassed, MergedThere, Existing, Fresh, Walked, At
  <1> QED BY <1>9, <1>10, <1>12, <1>13 DEF SizesInv

LEMMA SizesAlways == Spec => [](IndexInv /\ SizesInv)
  <1>1. ASSUME IndexInv, SizesInv, IndexInv', UNCHANGED indexVars PROVE SizesInv'
    <2>1. UNCHANGED <<files, dirs, op, torn, cut>>
      BY <1>1 DEF indexVars, trees
    <2>2. Removing' = Removing /\ Clearing' = Clearing
      BY <2>1 DEF Removing, Clearing
    <2>3. Shaped' /\ DirsThere'
      BY <1>1, <2>1, <2>2 DEF SizesInv, Shaped, DirsThere
    <2>4. SizesTrue'
      <3>1. ASSUME NEW d \in Seq(Token), Sound(d)' PROVE Same(SizeOf(d)', Due(d)')
        <4>1. Sound(d) /\ SizeOf(d)' = SizeOf(d) /\ Counted(d)' = Counted(d)
          BY <2>1, <2>2, <3>1 DEF Sound, Right, SizeOf, Counted
        <4> QED BY <1>1, <2>1, <4>1, DueKept
      <3> QED BY <3>1 DEF SizesTrue
    <2>5. \A s \in Slot : SlotSized(s)'
      <3>1. SUFFICES ASSUME NEW s \in Slot PROVE SlotSized(s)'
        OBVIOUS
      <3>2. SlotSized(s)
        BY <1>1 DEF SizesInv
      <3> QED BY <2>1, <3>2 DEF SlotSized, DirsPassed, MergedThere, Existing, Fresh, Walked, Tame, Of, At
    <2> QED BY <2>3, <2>4, <2>5 DEF SizesInv
  <1>2. ASSUME IndexInv, SizesInv, [Next]_vars, IndexInv' PROVE SizesInv'
    <2>1. UNCHANGED vars => UNCHANGED indexVars
      BY DEF vars
    <2> QED BY <1>1, <1>2, <2>1, IndexSteps, SizesKeeps
  <1> QED BY <1>2, IndexAlways, SizesBegins, PTL DEF Spec

\* Whenever no call is under way every directory of a share that is neither torn nor cut
\* has the sum of the sizes of the files beneath it, in u64, and every directory of a
\* file has an entry: all that scans add part by part and removals take away part by
\* part cancels out (Shares::scan, Shares::remove_share_dir, addition_merge).
THEOREM SizesCorrect == Spec => []SizesAddUp
  <1>1. ASSUME IndexInv, SizesInv PROVE SizesAddUp
    <2>0. Shaped /\ DirsThere /\ SizesTrue
      BY <1>1 DEF SizesInv
    <2>1. SUFFICES ASSUME \A s \in Slot : At(s, "idle")
                   PROVE  /\ \A d \in DOMAIN dirs : Right(d) => dirs[d] = SizeBeneath(files, d) % SizeMod
                          /\ \A k \in DOMAIN files : \A i \in 1..(Len(k) - 1) :
                                Right(k) /\ k[i + 1] = "/" => SubSeq(k, 1, i) \in DOMAIN dirs
      BY DEF SizesAddUp, Busy, At
    <2>2. Removing = {} /\ Clearing = {} /\ ~ \E s \in Slot : op[s].phase = "merge"
      BY <2>1 DEF Removing, Clearing, At
    <2>3. ASSUME NEW d \in DOMAIN dirs, Right(d) PROVE dirs[d] = SizeBeneath(files, d) % SizeMod
      <3>1. d \in Seq(Token) /\ dirs[d] \in 0..(SizeMod - 1)
        BY <1>1 DEF IndexInv, IndexTyped, DirsTyped
      <3>2. Counted(d) = {k \in DOMAIN files : Beneath(k, d)}
        BY <2>0, <2>2, <3>1, FileShaped DEF Counted
      <3>3. SumOf(files, Counted(d)) \in Int
        BY <1>1, <2>0, FilesSum DEF Counted
      <3>4. SumOf(Added(d), Slot) = 0
        BY <2>2, NothingAdded
      <3>5. Due(d) = SumOf(files, Counted(d))
        BY <3>3, <3>4 DEF Due
      <3>6. PICK b \in Int : b = Due(d) /\ b = SizeBeneath(files, d)
        BY <3>2, <3>3, <3>5, BeneathSum
      <3>7. PICK a \in 0..(SizeMod - 1) : a = dirs[d]
        BY <3>1
      <3>8. Same(a, b)
        BY <2>0, <2>2, <2>3, <3>1, <3>6, <3>7 DEF SizesTrue, Sound, SizeOf
      <3> QED BY <3>6, <3>7, <3>8, SameIs
    <2>4. ASSUME NEW k \in DOMAIN files, NEW i \in 1..(Len(k) - 1), Right(k), k[i + 1] = "/"
          PROVE  SubSeq(k, 1, i) \in DOMAIN dirs
      <3>1. k \in Seq(Token) /\ k # Root
        BY <2>0, PathKey, FileShaped DEF Shaped
      <3>2. Ancestors(k) \subseteq DOMAIN dirs
        BY <2>0, <2>2, <2>4, <3>1 DEF DirsThere, Right
      <3>3. PICK j \in 1..Len(k) : j = i + 1 /\ j - 1 = i
        BY <3>1
      <3>4. SubSeq(k, 1, j - 1) \in Ancestors(k)
        BY <2>4, <3>3 DEF Ancestors
      <3> QED BY <3>2, <3>3, <3>4
    <2> QED BY <2>3, <2>4
  <1> QED BY <1>1, SizesAlways, PTL

-----------------------------------------------------------------------------
(* Types of the rest.  Messages are of some set M that holds what has been *)
(* sent so far.                                                            *)

CallOf(M) == [phase : {"idle", "failed", "replay", "forward", "keep", "over", "done"}, q : Queries \cup {None},
              todo : Seq(M), got : Seq(M), channel : Seq(M), ui : {"open", "closed"}]
AnswerOf(M) == [phase : {"none", "asked", "listing", "finished", "lost"}, q : Queries \cup {None},
                stage : {"dirs", "files"}, last : M, sent : Seq(M), still : BOOLEAN]
CallFit(o) == Len(o.channel) <= Capacity /\ (o.phase # "idle" => o.q \in Queries)
CallsTyped(M) == call \in [Call -> CallOf(M)] /\ \A c \in Call : CallFit(call[c])
AnswersTyped(M) == answer \in [Call -> AnswerOf(M)]
WireTyped(M) == wire \in [Call -> Seq(M)] /\ \A c \in Call : Len(wire[c]) <= Window
CacheTyped(M) == DOMAIN cache \subseteq Queries /\ \A q \in DOMAIN cache : cache[q] \in Seq(M)
ListsTyped(M) == {None, Failure} \subseteq M /\ CallsTyped(M) /\ AnswersTyped(M) /\ WireTyped(M) /\ CacheTyped(M)

ReadOf == [phase : {"idle", "queued", "served", "answered", "lost", "stopped", "done"},
           key : Seq(Token) \cup {None}, portion : Portions \cup {None}, rest : Nat, wire : 0..Window]
ReadsTyped == /\ read \in [Read -> ReadOf]
              /\ \A r \in Read : read[r].phase # "idle" => read[r].portion \in Portions
              /\ uploads \in Seq(Read) /\ (uploading = None \/ uploading \in Read)
              /\ \A i \in 1..Len(uploads) : read[uploads[i]].phase # "idle"
LeftTyped == left \in [asks : SUBSET Queries, calls : Nat, reads : Nat, losses : Nat, closes : Nat]
RestTyped == connected \in BOOLEAN /\ LeftTyped /\ ReadsTyped /\ \E M : ListsTyped(M)

LEMMA Spent ==
    ASSUME LeftTyped, NEW what \in {"calls", "reads", "losses", "closes"}, Spend(what)
    PROVE  LeftTyped'
  BY DEF LeftTyped, Spend

LEMMA Widened ==
    ASSUME NEW M, NEW N, M \subseteq N, ListsTyped(M)
    PROVE  ListsTyped(N)
  <1>1. Seq(M) \subseteq Seq(N)
    OBVIOUS
  <1>2. CallOf(M) \subseteq CallOf(N)
    BY <1>1 DEF CallOf
  <1>3. AnswerOf(M) \subseteq AnswerOf(N)
    BY <1>1 DEF AnswerOf
  <1> QED BY <1>1, <1>2, <1>3 DEF ListsTyped, CallsTyped, AnswersTyped, WireTyped, CacheTyped

LEMMA Appended ==
    ASSUME NEW M, NEW q \in Seq(M), NEW x \in M
    PROVE  Append(q, x) \in Seq(M) /\ \A n \in Nat : Len(q) < n => Len(Append(q, x)) <= n
  <1>1. Append(q, x) \in Seq(M) /\ Len(Append(q, x)) = Len(q) + 1
    OBVIOUS
  <1>2. Len(q) \in Nat
    OBVIOUS
  <1> QED BY <1>1, <1>2
LEMMA Beheaded ==
    ASSUME NEW M, NEW q \in Seq(M), q # <<>>
    PROVE  Head(q) \in M /\ Tail(q) \in Seq(M) /\ \A n \in Nat : Len(q) <= n => Len(Tail(q)) <= n
  <1>1. Head(q) \in M /\ Tail(q) \in Seq(M) /\ Len(Tail(q)) = Len(q) - 1
    OBVIOUS
  <1>2. Len(q) \in Nat
    OBVIOUS
  <1> QED BY <1>1, <1>2

LEMMA CallPut ==
    ASSUME NEW M, CallsTyped(M), NEW c \in Call, NEW o \in CallOf(M), CallFit(o), call' = [call EXCEPT ![c] = o]
    PROVE  CallsTyped(M)'
  BY DEF CallsTyped
LEMMA AnswerPut ==
    ASSUME NEW M, AnswersTyped(M), NEW c \in Call, NEW o \in AnswerOf(M), answer' = [answer EXCEPT ![c] = o]
    PROVE  AnswersTyped(M)'
  BY DEF AnswersTyped
LEMMA WirePut ==
    ASSUME NEW M, WireTyped(M), NEW c \in Call, NEW o \in Seq(M), Len(o) <= Window, wire' = [wire EXCEPT ![c] = o]
    PROVE  WireTyped(M)'
  BY DEF WireTyped
LEMMA ListsRest ==
    ASSUME NEW M
    PROVE  /\ CallsTyped(M) /\ UNCHANGED call => CallsTyped(M)'
           /\ AnswersTyped(M) /\ UNCHANGED answer => AnswersTyped(M)'
           /\ WireTyped(M) /\ UNCHANGED wire => WireTyped(M)'
           /\ CacheTyped(M) /\ UNCHANGED cache => CacheTyped(M)'
           /\ LeftTyped /\ UNCHANGED left => LeftTyped'
  BY DEF CallsTyped, AnswersTyped, WireTyped, CacheTyped, LeftTyped

LEMMA ListStep ==
    ASSUME NEW M, ListsTyped(M), LeftTyped, NEW c \in Call, PostFiles(c) \/ CallStep(c) \/ ClientCloses(c)
    PROVE  (\E N : ListsTyped(N))' /\ LeftTyped' /\ UNCHANGED <<connected, readVars>>
  <1>0. /\ CallsTyped(M) /\ AnswersTyped(M) /\ WireTyped(M) /\ CacheTyped(M) /\ None \in M /\ Failure \in M
        /\ call[c] \in CallOf(M) /\ answer[c] \in AnswerOf(M) /\ wire[c] \in Seq(M) /\ Len(wire[c]) <= Window
        /\ CallFit(call[c]) /\ call \in [Call -> CallOf(M)]
        /\ answer \in [Call -> AnswerOf(M)] /\ wire \in [Call -> Seq(M)]
    BY DEF ListsTyped, CallsTyped, AnswersTyped, WireTyped
  <1>a. Capacity \in Nat \ {0} /\ Window \in Nat \ {0}
    BY LibraryAssumption
  <1>1. ASSUME LsOpen(c) PROVE ListsTyped(M)' /\ LeftTyped' /\ UNCHANGED <<connected, readVars>>
    <2>1. CASE Exists(answer[c].q.path)
      <3> DEFINE o == [answer[c] EXCEPT !.phase = "listing"]
      <3>1. o \in AnswerOf(M)
        BY <1>0 DEF AnswerOf
      <3>2. answer' = [answer EXCEPT ![c] = o]
        BY <1>0, <1>1, <2>1 DEF LsOpen
      <3> HIDE DEF o
      <3>3. AnswersTyped(M)'
        BY <1>0, <3>1, <3>2, AnswerPut
      <3> QED BY <1>0, <1>1, <2>1, <3>3, ListsRest DEF LsOpen, ListsTyped
    <2>2. CASE ~Exists(answer[c].q.path)
      <3>0. <<Failure>> \in Seq(M) /\ Len(<<Failure>>) <= Window
        BY <1>0, <1>a
      <3>1. PICK f \in Seq(M) : f = <<Failure>> /\ Len(f) <= Window
        BY <3>0
      <3> DEFINE o == [answer[c] EXCEPT !.phase = "finished", !.sent = f]
      <3>2. o \in AnswerOf(M)
        BY <1>0, <3>1 DEF AnswerOf
      <3>3. answer' = [answer EXCEPT ![c] = o] /\ wire' = [wire EXCEPT ![c] = f]
        BY <1>0, <1>1, <2>2, <3>1 DEF LsOpen
      <3> HIDE DEF o
      <3>4. AnswersTyped(M)' /\ WireTyped(M)'
        BY <1>0, <3>1, <3>2, <3>3, AnswerPut, WirePut
      <3> QED BY <1>0, <1>1, <2>2, <3>4, ListsRest DEF LsOpen, ListsTyped
    <2> QED BY <2>1, <2>2
  <1>2. ASSUME LsChunk(c) PROVE (\E N : ListsTyped(N))' /\ LeftTyped' /\ UNCHANGED <<connected, readVars>>
    <2>1. PICK m : m = Chunk(Remaining(answer[c]))
      OBVIOUS
    <2>2. PICK x, past, y : /\ x = Message(m) /\ past = (Cardinality(DirsLeft(answer[c])) < ChunkSize)
                            /\ y = IF past /\ Last(m).is_dir THEN None ELSE Last(m).name
      OBVIOUS
    <2>3. PICK N : N = M \cup {x, y}
      OBVIOUS
    <2>4. ListsTyped(N) /\ x \in N /\ y \in N
      BY <2>3, Widened
    <2>5. /\ CallsTyped(N) /\ AnswersTyped(N) /\ WireTyped(N) /\ CacheTyped(N) /\ {None, Failure} \subseteq N
          /\ answer[c] \in AnswerOf(N) /\ wire[c] \in Seq(N)
      BY <2>4 DEF ListsTyped, AnswersTyped, WireTyped
    <2>6. CASE m = <<>>
      <3> DEFINE o == [answer[c] EXCEPT !.phase = "finished"]
      <3>1. o \in AnswerOf(N)
        BY <2>5 DEF AnswerOf
      <3>2. answer' = [answer EXCEPT ![c] = o]
        BY <1>0, <1>2, <2>1, <2>6 DEF LsChunk
      <3> HIDE DEF o
      <3>3. AnswersTyped(N)'
        BY <2>5, <3>1, <3>2, AnswerPut
      <3>4. ListsTyped(N)' /\ LeftTyped'
        BY <1>2, <2>1, <2>5, <2>6, <3>3, ListsRest DEF LsChunk, ListsTyped
      <3> QED BY <1>2, <3>4 DEF LsChunk
    <2>7. CASE m # <<>>
      <3>1. PICK st \in {"dirs", "files"} : st = IF past THEN "files" ELSE "dirs"
        OBVIOUS
      <3>2. PICK se \in Seq(N) : se = Append(answer[c].sent, x)
        <4>1. answer[c].sent \in Seq(N)
          BY <2>5 DEF AnswerOf
        <4> QED BY <2>4, <4>1, Appended
      <3>3. PICK w \in Seq(N) : w = Append(wire[c], x) /\ Len(w) <= Window
        <4>1. Len(wire[c]) < Window
          BY <1>2 DEF LsChunk
        <4> QED BY <1>a, <2>4, <2>5, <4>1, Appended
      <3> DEFINE o == [answer[c] EXCEPT !.stage = st, !.last = y, !.sent = se]
      <3>4. o \in AnswerOf(N)
        BY <2>4, <2>5 DEF AnswerOf
      <3>5. answer' = [answer EXCEPT ![c] = o] /\ wire' = [wire EXCEPT ![c] = w]
        BY <1>0, <1>2, <2>1, <2>2, <2>7, <3>1, <3>2, <3>3 DEF LsChunk, Advanced
      <3> HIDE DEF o
      <3>6. AnswersTyped(N)' /\ WireTyped(N)'
        BY <2>5, <3>3, <3>4, <3>5, AnswerPut, WirePut
      <3>7. ListsTyped(N)' /\ LeftTyped'
        BY <1>2, <2>5, <3>6, ListsRest DEF LsChunk, ListsTyped
      <3> QED BY <1>2, <3>7 DEF LsChunk
    <2> QED BY <2>6, <2>7
  <1>3. ASSUME PostFiles(c) PROVE ListsTyped(M)' /\ LeftTyped' /\ UNCHANGED <<connected, readVars>>
    <2>1. PICK q \in left.asks :
         \/ /\ ~connected
            /\ call' = [call EXCEPT ![c].phase = "failed", ![c].q = q] /\ answer' = answer
         \/ /\ connected /\ q \in DOMAIN cache
            /\ call' = [call EXCEPT ![c].phase = "replay", ![c].q = q, ![c].todo = cache[q]]
            /\ answer' = answer
         \/ /\ connected /\ q \notin DOMAIN cache
            /\ call' = [call EXCEPT ![c].phase = "forward", ![c].q = q]
            /\ answer' = [answer EXCEPT ![c].phase = "asked", ![c].q = q]
      BY <1>3 DEF PostFiles
    <2>2. q \in Queries
      BY DEF LeftTyped
    <2>3. AnswersTyped(M)'
      <3> DEFINE o == [answer[c] EXCEPT !.phase = "asked", !.q = q]
      <3>1. o \in AnswerOf(M)
        BY <1>0, <2>2 DEF AnswerOf
      <3>2. UNCHANGED answer \/ answer' = [answer EXCEPT ![c] = o]
        BY <1>0, <2>1
      <3> HIDE DEF o
      <3> QED BY <1>0, <3>1, <3>2, AnswerPut, ListsRest
    <2>4. CallsTyped(M)'
      <3>1. PICK p \in {"failed", "replay", "forward"}, t \in Seq(M) :
               call' = [call EXCEPT ![c] = [call[c] EXCEPT !.phase = p, !.q = q, !.todo = t]]
        <4>1. call[c].todo \in Seq(M) /\ call[c] = [call[c] EXCEPT !.todo = call[c].todo]
          BY <1>0 DEF CallOf
        <4>2. CASE ~connected
          <5>1. call' = [call EXCEPT ![c] = [call[c] EXCEPT !.phase = "failed", !.q = q, !.todo = call[c].todo]]
            <6>1. [call EXCEPT ![c].phase = "failed", ![c].q = q]
                    = [call EXCEPT ![c] = [call[c] EXCEPT !.phase = "failed", !.q = q]]
              BY <1>0
            <6>2. [call[c] EXCEPT !.phase = "failed", !.q = q]
                    = [call[c] EXCEPT !.phase = "failed", !.q = q, !.todo = call[c].todo]
              BY <1>0 DEF CallOf
            <6> QED BY <2>1, <4>2, <6>1, <6>2
          <5> QED BY <4>1, <5>1
        <4>3. CASE connected /\ q \in DOMAIN cache
          <5>1. call' = [call EXCEPT ![c] = [call[c] EXCEPT !.phase = "replay", !.q = q, !.todo = cache[q]]]
            BY <1>0, <2>1, <4>3
          <5> QED BY <1>0, <4>3, <5>1 DEF CacheTyped
        <4>4. CASE connected /\ q \notin DOMAIN cache
          <5>1. call' = [call EXCEPT ![c] = [call[c] EXCEPT !.phase = "forward", !.q = q, !.todo = call[c].todo]]
            <6>1. [call EXCEPT ![c].phase = "forward", ![c].q = q]
                    = [call EXCEPT ![c] = [call[c] EXCEPT !.phase = "forward", !.q = q]]
              BY <1>0
            <6>2. [call[c] EXCEPT !.phase = "forward", !.q = q]
                    = [call[c] EXCEPT !.phase = "forward", !.q = q, !.todo = call[c].todo]
              BY <1>0 DEF CallOf
            <6> QED BY <2>1, <4>4, <6>1, <6>2
          <5> QED BY <4>1, <5>1
        <4> QED BY <4>2, <4>3, <4>4
      <3> DEFINE o == [call[c] EXCEPT !.phase = p, !.q = q, !.todo = t]
      <3>2. o \in CallOf(M) /\ CallFit(o)
        BY <1>0, <2>2 DEF CallOf, CallFit
      <3> HIDE DEF o
      <3> QED BY <1>0, <3>1, <3>2, CallPut DEF o
    <2>5. LeftTyped'
      BY <1>3, Spent DEF PostFiles
    <2> QED BY <1>0, <1>3, <2>3, <2>4, <2>5, ListsRest DEF PostFiles, ListsTyped
  <1>4. ASSUME Replay(c) PROVE ListsTyped(M)' /\ LeftTyped' /\ UNCHANGED <<connected, readVars>>
    <2>1. CallsTyped(M)'
      <3>1. CASE call[c].todo = <<>>
        <4> DEFINE o == [call[c] EXCEPT !.phase = "over"]
        <4>1. o \in CallOf(M) /\ CallFit(o)
          BY <1>0, <1>4 DEF CallOf, CallFit, Replay
        <4>2. call' = [call EXCEPT ![c] = o]
          BY <1>0, <1>4, <3>1 DEF Replay
        <4> HIDE DEF o
        <4> QED BY <1>0, <4>1, <4>2, CallPut
      <3>2. CASE call[c].todo # <<>>
        <4>0. call[c].todo \in Seq(M) /\ call[c].channel \in Seq(M)
          BY <1>0 DEF CallOf
        <4>1. PICK h \in M, t \in Seq(M) : h = Head(call[c].todo) /\ t = Tail(call[c].todo)
          BY <3>2, <4>0, Beheaded
        <4>2. PICK x \in Seq(M) : x = Append(call[c].channel, h) /\ Len(x) <= Capacity
          <5>1. Len(call[c].channel) < Capacity
            BY <1>4, <3>2 DEF Replay, Room
          <5> QED BY <1>a, <4>0, <4>1, <5>1, Appended
        <4> DEFINE o == [call[c] EXCEPT !.todo = t, !.channel = x]
        <4>3. o \in CallOf(M) /\ CallFit(o)
          BY <1>0, <4>2 DEF CallOf, CallFit
        <4>4. call' = [call EXCEPT ![c] = o]
          BY <1>0, <1>4, <3>2, <4>1, <4>2 DEF Replay
        <4> HIDE DEF o
        <4> QED BY <1>0, <4>3, <4>4, CallPut
      <3> QED BY <3>1, <3>2
    <2> QED BY <1>0, <1>4, <2>1, ListsRest DEF Replay, ListsTyped
  <1>5. ASSUME Forward(c) PROVE ListsTyped(M)' /\ LeftTyped' /\ UNCHANGED <<connected, readVars>>
    <2>1. PICK m \in M, t \in Seq(M) : m = Head(wire[c]) /\ t = Tail(wire[c])
      BY <1>0, <1>5, Beheaded DEF Forward
    <2>2. Len(t) <= Window
      BY <1>0, <1>a, <1>5, <2>1, Beheaded DEF Forward
    <2>3. WireTyped(M)'
      BY <1>0, <1>5, <2>1, <2>2, WirePut DEF Forward
    <2>4. call[c].got \in Seq(M) /\ call[c].channel \in Seq(M)
      BY <1>0 DEF CallOf
    <2>5. PICK g \in Seq(M) : g = Kept(c, m)
      <3>1. Append(call[c].got, m) \in Seq(M)
        BY <2>4, Appended
      <3> QED BY <2>4, <3>1 DEF Kept
    <2>6. CallsTyped(M)'
      <3>1. CASE call[c].ui = "closed"
        <4> DEFINE o == [call[c] EXCEPT !.phase = "keep", !.got = g]
        <4>1. o \in CallOf(M) /\ CallFit(o)
          BY <1>0, <1>5 DEF CallOf, CallFit, Forward
        <4>2. call' = [call EXCEPT ![c] = o]
          BY <1>0, <1>5, <2>1, <2>5, <3>1 DEF Forward
        <4> HIDE DEF o
        <4> QED BY <1>0, <4>1, <4>2, CallPut
      <3>2. CASE call[c].ui # "closed"
        <4>0. PICK x \in Seq(M) : x = Append(call[c].channel, m) /\ Len(x) <= Capacity
          <5>1. Len(call[c].channel) < Capacity
            BY <1>5, <3>2 DEF Forward, Room
          <5> QED BY <1>a, <2>4, <5>1, Appended
        <4> DEFINE o == [call[c] EXCEPT !.got = g, !.channel = x]
        <4>1. o \in CallOf(M) /\ CallFit(o)
          BY <1>0, <4>0 DEF CallOf, CallFit
        <4>2. call' = [call EXCEPT ![c] = o]
          BY <1>0, <1>5, <2>1, <2>5, <3>2, <4>0 DEF Forward
        <4> HIDE DEF o
        <4> QED BY <1>0, <4>1, <4>2, CallPut
      <3> QED BY <3>1, <3>2
    <2> QED BY <1>0, <1>5, <2>3, <2>6, ListsRest DEF Forward, ListsTyped
  <1>6. ASSUME StreamEnds(c) \/ PutCache(c)
        PROVE  ListsTyped(M)' /\ LeftTyped' /\ UNCHANGED <<connected, readVars>>
    <2>1. PICK p \in {"keep", "over"} : call' = [call EXCEPT ![c].phase = p] /\ call[c].phase # "idle"
      BY <1>6 DEF StreamEnds, PutCache
    <2> DEFINE o == [call[c] EXCEPT !.phase = p]
    <2>2. o \in CallOf(M) /\ CallFit(o)
      BY <1>0, <2>1 DEF CallOf, CallFit
    <2>3. call' = [call EXCEPT ![c] = o]
      BY <1>0, <2>1
    <2> HIDE DEF o
    <2>4. CallsTyped(M)'
      BY <1>0, <2>2, <2>3, CallPut
    <2>5. CacheTyped(M)'
      <3>1. CASE cache' = cache
        BY <1>0, <3>1, ListsRest
      <3>2. CASE cache' = Put(cache, call[c].q, call[c].got)
        <4>1. call[c].got \in Seq(M) /\ call[c].q \in Queries
          BY <1>0, <2>1 DEF CallOf, CallFit
        <4> QED BY <1>0, <3>2, <4>1 DEF CacheTyped, Put
      <3> QED BY <1>6, <3>1, <3>2 DEF StreamEnds, PutCache
    <2> QED BY <1>0, <1>6, <2>4, <2>5, ListsRest DEF StreamEnds, PutCache, ListsTyped
  <1>7. ASSUME ClientReads(c) \/ ClientEnds(c) \/ ClientCloses(c)
        PROVE  ListsTyped(M)' /\ LeftTyped' /\ UNCHANGED <<connected, readVars>>
    <2>0. call[c].channel \in Seq(M) /\ Len(call[c].channel) <= Capacity
          /\ call[c].phase \in {"replay", "forward", "keep", "over"} /\ call[c].q \in Queries
      BY <1>0, <1>7 DEF CallOf, CallFit, ClientReads, ClientEnds, ClientCloses, Returned
    <2>6. <<>> \in Seq(M) /\ Len(<<>>) <= Capacity
      BY <1>a
    <2>1. PICK o \in CallOf(M) : CallFit(o) /\ call' = [call EXCEPT ![c] = o]
      <3>1. CASE ClientReads(c)
        <4>1. PICK x \in Seq(M) : x = Tail(call[c].channel) /\ Len(x) <= Capacity
          <5>1. call[c].channel # <<>>
            BY <3>1 DEF ClientReads
          <5> QED BY <1>a, <2>0, <5>1, Beheaded
        <4> DEFINE o == [call[c] EXCEPT !.channel = x]
        <4>2. o \in CallOf(M) /\ CallFit(o)
          BY <1>0, <4>1 DEF CallOf, CallFit
        <4>3. call' = [call EXCEPT ![c] = o]
          BY <1>0, <3>1, <4>1 DEF ClientReads
        <4> HIDE DEF o
        <4> QED BY <4>2, <4>3
      <3>2. CASE ClientEnds(c)
        <4> DEFINE o == [call[c] EXCEPT !.phase = "done", !.channel = <<>>]
        <4>2. o \in CallOf(M) /\ CallFit(o)
          BY <1>0, <2>0, <2>6 DEF CallOf, CallFit
        <4>3. call' = [call EXCEPT ![c] = o]
          BY <1>0, <3>2 DEF ClientEnds
        <4> HIDE DEF o
        <4> QED BY <4>2, <4>3
      <3>3. CASE ClientCloses(c)
        <4> DEFINE o == [call[c] EXCEPT !.ui = "closed", !.channel = <<>>,
                                        !.phase = IF @ = "replay" THEN "done" ELSE @]
        <4>2. o \in CallOf(M) /\ CallFit(o)
          BY <1>0, <2>0, <2>6 DEF CallOf, CallFit
        <4>3. call' = [call EXCEPT ![c] = o]
          BY <1>0, <3>3 DEF ClientCloses
        <4> HIDE DEF o
        <4> QED BY <4>2, <4>3
      <3> QED BY <1>7, <3>1, <3>2, <3>3
    <2>2. CallsTyped(M)'
      BY <1>0, <2>1, CallPut
    <2>3. LeftTyped'
      BY <1>7, Spent DEF ClientReads, ClientEnds, ClientCloses, LeftTyped
    <2> QED BY <1>0, <1>7, <2>2, <2>3, ListsRest DEF ClientReads, ClientEnds, ClientCloses, ListsTyped
  <1> QED BY <1>1, <1>2, <1>3, <1>4, <1>5, <1>6, <1>7 DEF CallStep

ReadFit(o) == o.phase # "idle" => o.portion \in Portions
LEMMA ReadPut ==
    ASSUME ReadsTyped, NEW r \in Read, NEW o \in ReadOf, ReadFit(o), o.phase # "idle",
           read' = [read EXCEPT ![r] = o], UNCHANGED uploads \/ uploads' = Append(uploads, r)
              \/ (uploads # <<>> /\ uploads' = Tail(uploads)),
           uploading' = None \/ uploading' \in Read
    PROVE  ReadsTyped'
  <1>1. read \in [Read -> ReadOf] /\ uploads \in Seq(Read)
    BY DEF ReadsTyped
  <1>2. read' \in [Read -> ReadOf] /\ read'[r] = o /\ \A t \in Read \ {r} : read'[t] = read[t]
    BY <1>1
  <1>3. \A t \in Read : read'[t].phase # "idle" => read'[t].portion \in Portions
    BY <1>2 DEF ReadsTyped, ReadFit
  <1>4. \A t \in Read : read[t].phase # "idle" => read'[t].phase # "idle"
    BY <1>2
  <1>5. uploads' \in Seq(Read) /\ \A i \in 1..Len(uploads') : read'[uploads'[i]].phase # "idle"
    <2>0. \A i \in 1..Len(uploads) : uploads[i] \in Read /\ read'[uploads[i]].phase # "idle"
      BY <1>1, <1>4 DEF ReadsTyped
    <2>1. CASE uploads' = Append(uploads, r)
      <3>1. /\ Append(uploads, r) \in Seq(Read) /\ Len(Append(uploads, r)) = Len(uploads) + 1
            /\ \A i \in 1..Len(uploads) : Append(uploads, r)[i] = uploads[i]
            /\ Append(uploads, r)[Len(uploads) + 1] = r
        BY <1>1
      <3>2. Len(uploads) \in Nat
        BY <1>1
      <3>3. \A i \in 1..(Len(uploads) + 1) : i \in 1..Len(uploads) \/ i = Len(uploads) + 1
        BY <3>2
      <3> QED BY <1>2, <2>0, <2>1, <3>1, <3>3
    <2>2. CASE uploads # <<>> /\ uploads' = Tail(uploads)
      <3>1. /\ Tail(uploads) \in Seq(Read) /\ Len(Tail(uploads)) = Len(uploads) - 1
            /\ \A i \in 1..(Len(uploads) - 1) : Tail(uploads)[i] = uploads[i + 1]
        BY <1>1, <2>2
      <3>2. \A i \in 1..(Len(uploads) - 1) : i + 1 \in 1..Len(uploads)
        BY <1>1
      <3>3. PICK us \in Seq(Read) : us = Tail(uploads)
        BY <3>1
      <3>4. ASSUME NEW i \in 1..Len(us) PROVE read'[us[i]].phase # "idle"
        <4>1. i \in 1..(Len(uploads) - 1) /\ us[i] = uploads[i + 1]
          BY <3>1, <3>3
        <4>2. i + 1 \in 1..Len(uploads)
          BY <3>2, <4>1
        <4> QED BY <2>0, <4>1, <4>2
      <3> QED BY <2>2, <3>3, <3>4
    <2> QED BY <1>1, <2>0, <2>1, <2>2
  <1> QED BY <1>2, <1>3, <1>5 DEF ReadsTyped

LEMMA ReadStepTyped ==
    ASSUME IndexInv, ReadsTyped, LeftTyped, NEW r \in Read, PostRead(r) \/ ReadStep(r) \/ ReaderStops(r)
    PROVE  ReadsTyped' /\ LeftTyped' /\ UNCHANGED <<connected, listVars>>
  <1>0. /\ read \in [Read -> ReadOf] /\ read[r] \in ReadOf /\ uploads \in Seq(Read)
        /\ (uploading = None \/ uploading \in Read) /\ ReadFit(read[r]) /\ Window \in Nat \ {0}
    BY LibraryAssumption DEF ReadsTyped, ReadFit
  <1>1. ASSUME PostRead(r) PROVE ReadsTyped' /\ LeftTyped' /\ UNCHANGED <<connected, listVars>>
    <2>1. PICK k \in DOMAIN files \cup {Root}, p \in Portions :
             read' = [read EXCEPT ![r].phase = "queued", ![r].key = k, ![r].portion = p]
      BY <1>1 DEF PostRead
    <2>2. k \in Seq(Token)
      <3>1. Root \in Seq(Token)
        BY DEF Root
      <3> QED BY <3>1 DEF IndexInv, IndexTyped, FilesTyped
    <2> DEFINE o == [read[r] EXCEPT !.phase = "queued", !.key = k, !.portion = p]
    <2>3. o \in ReadOf /\ ReadFit(o) /\ o.phase # "idle"
      BY <1>0, <2>2 DEF ReadOf, ReadFit
    <2>4. read' = [read EXCEPT ![r] = o]
      BY <1>0, <2>1
    <2> HIDE DEF o
    <2>5. ReadsTyped'
      BY <1>0, <1>1, <2>3, <2>4, ReadPut DEF PostRead
    <2> QED BY <1>1, <2>5, Spent DEF PostRead, listVars
  <1>2. ASSUME ServeRead(r) PROVE ReadsTyped' /\ LeftTyped' /\ UNCHANGED <<connected, listVars>>
    <2>0. uploads # <<>> /\ uploads' = Tail(uploads) /\ read[r].phase # "idle"
      <3>1. uploads # <<>> /\ Head(uploads) = r /\ uploads' = Tail(uploads)
        BY <1>2 DEF ServeRead, Take
      <3>2. 1 \in 1..Len(uploads) /\ uploads[1] = r
        BY <1>0, <3>1
      <3> QED BY <3>1, <3>2 DEF ReadsTyped
    <2>1. PICK b \in Nat : b = Blocks(r)
      <3>1. /\ Blocks(r) # None /\ read[r].portion.start \in Nat
            /\ read[r].portion.end = None \/ read[r].portion.end \in Nat
        BY <1>0, <1>2, <2>0, LibraryAssumption DEF ServeRead, ReadFit
      <3>2. read[r].key \in DOMAIN files
        BY <3>1 DEF Blocks, Resolves
      <3>3. files[read[r].key] \in Nat
        BY <3>2 DEF IndexInv, IndexTyped, FilesTyped
      <3>4. PICK e \in Nat : e = IF read[r].portion.end = None \/ read[r].portion.end > files[read[r].key]
                                 THEN files[read[r].key] ELSE read[r].portion.end
        BY <3>1, <3>3
      <3>5. Blocks(r) = IF read[r].portion.start > e THEN 0 ELSE e - read[r].portion.start
        BY <3>1, <3>4 DEF Blocks
      <3> QED BY <3>1, <3>5
    <2> DEFINE o == [read[r] EXCEPT !.rest = b, !.phase = IF @ = "queued" THEN "served" ELSE @]
    <2>2. o \in ReadOf /\ ReadFit(o) /\ o.phase # "idle"
      BY <1>0, <2>0 DEF ReadOf, ReadFit
    <2>3. read' = [read EXCEPT ![r] = o]
      BY <1>0, <1>2, <2>1 DEF ServeRead
    <2> HIDE DEF o
    <2>4. ReadsTyped'
      BY <1>2, <2>0, <2>2, <2>3, ReadPut DEF ServeRead
    <2> QED BY <1>2, <2>4 DEF ServeRead, listVars, LeftTyped
  <1>3. ASSUME RefuseRead(r) PROVE ReadsTyped' /\ LeftTyped' /\ UNCHANGED <<connected, listVars>>
    <2>0. uploads # <<>> /\ uploads' = Tail(uploads) /\ read[r].phase # "idle"
      <3>1. uploads # <<>> /\ Head(uploads) = r /\ uploads' = Tail(uploads)
        BY <1>3 DEF RefuseRead, Take
      <3>2. 1 \in 1..Len(uploads) /\ uploads[1] = r
        BY <1>0, <3>1
      <3> QED BY <3>1, <3>2 DEF ReadsTyped
    <2> DEFINE o == AnswerError(read[r])
    <2>1. o \in ReadOf /\ ReadFit(o) /\ o.phase # "idle"
      <3>1. 1 \in 0..Window
        BY <1>0
      <3> QED BY <1>0, <2>0, <3>1 DEF AnswerError, ReadOf, ReadFit
    <2>2. read' = [read EXCEPT ![r] = o]
      BY <1>0, <1>3 DEF RefuseRead
    <2> HIDE DEF o
    <2>3. ReadsTyped'
      BY <1>0, <1>3, <2>0, <2>1, <2>2, ReadPut DEF RefuseRead
    <2> QED BY <1>3, <2>3 DEF RefuseRead, listVars, LeftTyped
  <1>4. ASSUME UploadBlock(r) PROVE ReadsTyped' /\ LeftTyped' /\ UNCHANGED <<connected, listVars>>
    <2>1. PICK a \in Nat, w \in 0..Window : a = read[r].rest - 1 /\ w = read[r].wire + 1
      <3>1. read[r].rest \in Nat /\ read[r].wire \in 0..Window /\ read[r].rest > 0 /\ read[r].wire < Window
        BY <1>0, <1>4 DEF UploadBlock, ReadOf
      <3>2. read[r].rest - 1 \in Nat /\ read[r].wire + 1 \in 0..Window
        BY <1>0, <3>1
      <3> QED BY <3>2
    <2> DEFINE o == [read[r] EXCEPT !.rest = a, !.wire = w]
    <2>2. o \in ReadOf /\ ReadFit(o) /\ o.phase # "idle"
      BY <1>0, <1>4 DEF ReadOf, ReadFit, UploadBlock
    <2>3. read' = [read EXCEPT ![r] = o]
      BY <1>0, <1>4, <2>1 DEF UploadBlock
    <2> HIDE DEF o
    <2>4. ReadsTyped'
      BY <1>0, <1>4, <2>2, <2>3, ReadPut DEF UploadBlock
    <2> QED BY <1>4, <2>4 DEF UploadBlock, listVars, LeftTyped
  <1>5. ASSUME UploadEnds(r) \/ ReaderEnds(r)
        PROVE  ReadsTyped' /\ LeftTyped' /\ UNCHANGED <<connected, listVars>>
    <2>1. PICK p \in {"answered", "done"} : read' = [read EXCEPT ![r].phase = p] /\ read[r].phase # "idle"
      BY <1>5 DEF UploadEnds, ReaderEnds
    <2> DEFINE o == [read[r] EXCEPT !.phase = p]
    <2>2. o \in ReadOf /\ ReadFit(o) /\ o.phase # "idle"
      BY <1>0, <2>1 DEF ReadOf, ReadFit
    <2>3. read' = [read EXCEPT ![r] = o]
      BY <1>0, <2>1
    <2> HIDE DEF o
    <2>4. ReadsTyped'
      BY <1>0, <1>5, <2>2, <2>3, ReadPut DEF UploadEnds, ReaderEnds
    <2> QED BY <1>5, <2>4 DEF UploadEnds, ReaderEnds, listVars, LeftTyped
  <1>6. ASSUME UploadFails(r) PROVE ReadsTyped' /\ LeftTyped' /\ UNCHANGED <<connected, listVars>>
    BY <1>6 DEF UploadFails, AfterError, ReadsTyped, listVars, LeftTyped
  <1>7. ASSUME ReaderReads(r) PROVE ReadsTyped' /\ LeftTyped' /\ UNCHANGED <<connected, listVars>>
    <2>1. PICK w \in 0..Window : w = read[r].wire - 1
      <3>1. read[r].wire \in 0..Window /\ read[r].wire > 0
        BY <1>0, <1>7 DEF ReaderReads, ReadOf
      <3>2. read[r].wire - 1 \in 0..Window
        BY <1>0, <3>1
      <3> QED BY <3>2
    <2> DEFINE o == [read[r] EXCEPT !.wire = w]
    <2>2. o \in ReadOf /\ ReadFit(o) /\ o.phase = read[r].phase
      BY <1>0 DEF ReadOf, ReadFit
    <2>3. read' = [read EXCEPT ![r] = o]
      BY <1>0, <1>7, <2>1 DEF ReaderReads
    <2> HIDE DEF o
    <2>4. ReadsTyped'
      <3>1. read' \in [Read -> ReadOf] /\ read'[r] = o /\ \A t \in Read \ {r} : read'[t] = read[t]
        BY <1>0, <2>2, <2>3
      <3>2. \A t \in Read : ReadFit(read'[t]) /\ read'[t].phase = read[t].phase
        BY <2>2, <3>1 DEF ReadsTyped, ReadFit
      <3>3. \A i \in 1..Len(uploads) : read'[uploads[i]].phase # "idle"
        BY <1>0, <3>2 DEF ReadsTyped
      <3> QED BY <1>7, <3>1, <3>2, <3>3 DEF ReadsTyped, ReaderReads, ReadFit
    <2> QED BY <1>7, <2>4 DEF ReaderReads, listVars, LeftTyped
  <1>8. ASSUME ReaderStops(r) PROVE ReadsTyped' /\ LeftTyped' /\ UNCHANGED <<connected, listVars>>
    <2> DEFINE o == [read[r] EXCEPT !.phase = "stopped", !.wire = 0]
    <2>1. 0 \in 0..Window
      BY <1>0
    <2>2. o \in ReadOf /\ ReadFit(o) /\ o.phase # "idle"
      BY <1>0, <1>8, <2>1 DEF ReadOf, ReadFit, ReaderStops
    <2>3. read' = [read EXCEPT ![r] = o]
      BY <1>0, <1>8 DEF ReaderStops
    <2> HIDE DEF o
    <2>4. ReadsTyped'
      BY <1>0, <1>8, <2>2, <2>3, ReadPut DEF ReaderStops
    <2> QED BY <1>8, <2>4, Spent DEF ReaderStops, listVars
  <1> QED BY <1>1, <1>2, <1>3, <1>4, <1>5, <1>6, <1>7, <1>8 DEF ReadStep

LEMMA LoseTyped ==
    ASSUME RestTyped, LoseStreams, UNCHANGED <<uploads, uploading>> \/ (uploads' = <<>> /\ uploading' = None)
    PROVE  RestTyped'
  <1>1. PICK M : ListsTyped(M)
    BY DEF RestTyped
  <1>2. PICK keep \in [Call -> 0..Window] :
         /\ \A c \in Call : keep[c] <= Len(wire[c])
         /\ wire' = [c \in Call |-> SubSeq(wire[c], 1, keep[c])]
         /\ answer' = [c \in Call |-> IF keep[c] < Len(wire[c]) THEN [answer[c] EXCEPT !.phase = "lost"]
                                      ELSE Lost(answer[c])]
    BY DEF LoseStreams
  <1>3. Window \in Nat
    BY LibraryAssumption
  <1>4. WireTyped(M)'
    <2>1. SUFFICES ASSUME NEW c \in Call
                   PROVE  SubSeq(wire[c], 1, keep[c]) \in Seq(M) /\ Len(SubSeq(wire[c], 1, keep[c])) <= Window
      BY <1>2 DEF WireTyped
    <2>2. wire[c] \in Seq(M)
      BY <1>1 DEF ListsTyped, WireTyped
    <2>3. PICK n \in 0..Window : n = keep[c] /\ n <= Len(wire[c])
      BY <1>2
    <2>4. SubSeq(wire[c], 1, n) \in Seq(M) /\ Len(SubSeq(wire[c], 1, n)) = n
      BY <1>3, <2>2, <2>3
    <2> QED BY <1>3, <2>3, <2>4
  <1>5. AnswersTyped(M)'
    <2>1. \A a \in AnswerOf(M) : [a EXCEPT !.phase = "lost"] \in AnswerOf(M) /\ Lost(a) \in AnswerOf(M)
      BY DEF AnswerOf, Lost
    <2> QED BY <1>1, <1>2, <2>1 DEF ListsTyped, AnswersTyped
  <1>6. CacheTyped(M)'
    <2>1. DOMAIN <<>> = {}
      OBVIOUS
    <2>2. cache' = <<>>
      BY DEF LoseStreams
    <2> QED BY <2>1, <2>2 DEF CacheTyped
  <1>7. ListsTyped(M)'
    BY <1>1, <1>4, <1>5, <1>6, ListsRest DEF ListsTyped, LoseStreams
  <1>8. read' \in [Read -> ReadOf] /\ \A r \in Read : /\ ReadFit(read'[r])
                                                      /\ read[r].phase # "idle" => read'[r].phase # "idle"
    <2>1. SUFFICES ASSUME NEW r \in Read
                   PROVE  /\ read'[r] \in ReadOf /\ ReadFit(read'[r])
                          /\ read[r].phase # "idle" => read'[r].phase # "idle"
      BY DEF LoseStreams
    <2>2. read[r] \in ReadOf /\ ReadFit(read[r])
      BY DEF RestTyped, ReadsTyped, ReadFit
    <2>3. CASE read[r].phase \in {"queued", "served", "answered"}
      <3>1. read'[r] = [read[r] EXCEPT !.phase = "lost", !.wire = 0]
        BY <2>3 DEF LoseStreams
      <3>2. 0 \in 0..Window
        BY <1>3
      <3>3. [read[r] EXCEPT !.phase = "lost", !.wire = 0] \in ReadOf
        BY <2>2, <3>2 DEF ReadOf
      <3>4. read'[r].phase = "lost" /\ read'[r].portion = read[r].portion
        BY <2>2, <3>1 DEF ReadOf
      <3> QED BY <2>2, <2>3, <3>1, <3>3, <3>4 DEF ReadFit
    <2>4. CASE read[r].phase \notin {"queued", "served", "answered"}
      <3>1. read'[r] = read[r]
        BY <2>4 DEF LoseStreams
      <3> QED BY <2>2, <3>1
    <2> QED BY <2>3, <2>4
  <1>9. ReadsTyped'
    <2>1. CASE UNCHANGED <<uploads, uploading>>
      <3>1. \A i \in 1..Len(uploads) : uploads[i] \in Read
        BY DEF RestTyped, ReadsTyped
      <3> QED BY <1>8, <2>1, <3>1 DEF RestTyped, ReadsTyped, ReadFit
    <2>2. CASE uploads' = <<>> /\ uploading' = None
      <3>1. Len(<<>>) = 0 /\ <<>> \in Seq(Read) /\ 1..0 = {}
        OBVIOUS
      <3> QED BY <1>8, <2>2, <3>1 DEF ReadsTyped, ReadFit
    <2> QED BY <2>1, <2>2
  <1> QED BY <1>7, <1>9, Spent DEF RestTyped, LoseStreams

LEMMA RestKeeps ==
    ASSUME IndexInv, RestTyped, Next
    PROVE  RestTyped'
  <1>1. PICK M : ListsTyped(M)
    BY DEF RestTyped
  <1>2. LeftTyped /\ ReadsTyped /\ connected \in BOOLEAN
    BY DEF RestTyped
  <1>3. ASSUME IndexChanges PROVE RestTyped'
    <2>1. AnswersTyped(M)'
      <3>1. \A a \in AnswerOf(M) : [a EXCEPT !.still = FALSE] \in AnswerOf(M)
        BY DEF AnswerOf
      <3> QED BY <1>1, <1>3, <3>1 DEF ListsTyped, AnswersTyped, IndexChanges
    <2>2. ListsTyped(M)'
      BY <1>1, <1>3, <2>1, ListsRest DEF ListsTyped, IndexChanges
    <2>3. ReadsTyped' /\ LeftTyped'
      BY <1>2, <1>3 DEF ReadsTyped, LeftTyped, IndexChanges, readVars
    <2> QED BY <1>2, <1>3, <2>2, <2>3 DEF RestTyped, IndexChanges
  <1>4. ASSUME NEW c \in Call, PostFiles(c) \/ CallStep(c) \/ ClientCloses(c) PROVE RestTyped'
    <2>1. (\E N : ListsTyped(N))' /\ LeftTyped' /\ UNCHANGED <<connected, readVars>>
      BY <1>1, <1>2, <1>4, ListStep
    <2>2. ReadsTyped'
      BY <1>2, <2>1 DEF ReadsTyped, readVars
    <2> QED BY <1>2, <2>1, <2>2 DEF RestTyped
  <1>5. ASSUME NEW r \in Read, PostRead(r) \/ ReadStep(r) \/ ReaderStops(r) PROVE RestTyped'
    <2>1. ReadsTyped' /\ LeftTyped' /\ UNCHANGED <<connected, listVars>>
      BY <1>2, <1>5, ReadStepTyped
    <2>2. ListsTyped(M)'
      BY <1>1, <2>1, ListsRest DEF ListsTyped, listVars
    <2> QED BY <1>2, <2>1, <2>2 DEF RestTyped
  <1>6. ASSUME Lose \/ Restart PROVE RestTyped'
    BY <1>6, LoseTyped DEF Lose, Restart
  <1>7. ASSUME Reconnect PROVE RestTyped'
    <2>1. ListsTyped(M)'
      BY <1>1, <1>7, ListsRest DEF ListsTyped, listVars, Reconnect
    <2>2. ReadsTyped' /\ LeftTyped'
      BY <1>2, <1>7 DEF ReadsTyped, LeftTyped, readVars, Reconnect
    <2> QED BY <1>7, <2>1, <2>2 DEF RestTyped, Reconnect
  <1> QED BY <1>3, <1>4, <1>5, <1>6, <1>7 DEF Next

LEMMA RestBegins ==
    ASSUME Init
    PROVE  RestTyped
  <1> DEFINE M == {None, Failure}
  <1>0. Capacity \in Nat \ {0} /\ Window \in Nat \ {0} /\ <<>> \in Seq(M) /\ Len(<<>>) = 0
    BY LibraryAssumption
  <1>1. CallsTyped(M)
    <2>1. NoCall \in CallOf(M) /\ CallFit(NoCall)
      BY <1>0 DEF NoCall, CallOf, CallFit
    <2> QED BY <2>1 DEF Init, CallsTyped
  <1>2. AnswersTyped(M)
    <2>1. NoAnswer \in AnswerOf(M)
      BY <1>0 DEF NoAnswer, AnswerOf
    <2> QED BY <2>1 DEF Init, AnswersTyped
  <1>3. WireTyped(M) /\ CacheTyped(M)
    <2>1. DOMAIN <<>> = {}
      OBVIOUS
    <2>2. cache = <<>>
      BY DEF Init
    <2>3. CacheTyped(M)
      BY <2>1, <2>2 DEF CacheTyped
    <2>4. WireTyped(M)
      BY <1>0 DEF Init, WireTyped
    <2> QED BY <2>3, <2>4
  <1>4. ListsTyped(M)
    BY <1>1, <1>2, <1>3 DEF ListsTyped
  <1>5. LeftTyped
    <2>1. PICK x \in Sessions : left = [asks |-> x.asks, calls |-> x.calls, reads |-> x.reads,
                                        losses |-> x.losses, closes |-> x.closes]
      BY DEF Init
    <2>2. x.asks \in SUBSET Queries /\ x.calls \in Nat /\ x.reads \in Nat /\ x.losses \in Nat /\ x.closes \in Nat
      BY LibraryAssumption
    <2> QED BY <2>1, <2>2 DEF LeftTyped
  <1>6. ReadsTyped
    <2>1. NoRead \in ReadOf /\ NoRead.phase = "idle"
      BY <1>0 DEF NoRead, ReadOf
    <2>2. read = [r \in Read |-> NoRead] /\ uploads = <<>> /\ uploading = None
      BY DEF Init
    <2>3. <<>> \in Seq(Read) /\ Len(<<>>) = 0 /\ 1..0 = {}
      OBVIOUS
    <2> QED BY <2>1, <2>2, <2>3 DEF ReadsTyped
  <1> QED BY <1>4, <1>5, <1>6 DEF RestTyped, Init

LEMMA RestAlways == Spec => []RestTyped
  <1>1. ASSUME RestTyped, UNCHANGED vars PROVE RestTyped'
    <2>1. PICK M : ListsTyped(M)
      BY <1>1 DEF RestTyped
    <2>2. ListsTyped(M)'
      BY <1>1, <2>1, ListsRest DEF ListsTyped, vars, listVars
    <2>3. ReadsTyped' /\ LeftTyped' /\ connected' \in BOOLEAN
      BY <1>1 DEF RestTyped, ReadsTyped, LeftTyped, vars, readVars
    <2> QED BY <2>2, <2>3 DEF RestTyped
  <1> QED BY <1>1, RestBegins, RestKeeps, IndexAlways, PTL DEF Spec

\* Every variable has its type; sizes stay within 64 bits, and neither the channel to
\* the HTTP client nor a stream ever holds more than it takes (post_files, Rpc::ls,
\* Uploader::do_read).
THEOREM TypeCorrect == Spec => []TypeOK
  <1>1. ASSUME IndexInv, RestTyped PROVE TypeOK
    <2>1. PICK M : ListsTyped(M)
      BY <1>1 DEF RestTyped
    <2>2. connected \in BOOLEAN /\ LeftTyped /\ ReadsTyped
      BY <1>1 DEF RestTyped
    <2>3. \A s \in Slot : op[s].phase \in {"idle", "subtract", "dirs", "files", "name", "insert", "walk", "merge"}
      BY <1>1 DEF IndexInv, IndexTyped, OpTyped, Op
    <2>4. /\ \A k \in DOMAIN dirs : dirs[k] \in 0..(SizeMod - 1)
          /\ \A n \in DOMAIN shareNames : shareNames[n] \in Directories
      BY <1>1 DEF IndexInv, IndexTyped, DirsTyped, NamesTyped
    <2>5. \A c \in Call :
            /\ call[c].phase \in {"idle", "failed", "replay", "forward", "keep", "over", "done"}
            /\ call[c].ui \in {"open", "closed"}
            /\ Len(call[c].channel) <= Capacity
            /\ answer[c].phase \in {"none", "asked", "listing", "finished", "lost"}
            /\ Len(wire[c]) <= Window
      BY <2>1 DEF ListsTyped, CallsTyped, CallFit, CallOf, AnswersTyped, AnswerOf, WireTyped
    <2>6. DOMAIN cache \subseteq Queries
      BY <2>1 DEF ListsTyped, CacheTyped
    <2>7. \A r \in Read :
            /\ read[r].phase \in {"idle", "queued", "served", "answered", "lost", "stopped", "done"}
            /\ read[r].wire \in 0..Window /\ read[r].rest \in Nat
      BY <2>2 DEF ReadsTyped, ReadOf
    <2> QED BY <2>2, <2>3, <2>4, <2>5, <2>6, <2>7 DEF TypeOK, LeftTyped, ReadsTyped
  <1> QED BY <1>1, IndexAlways, RestAlways, PTL

-----------------------------------------------------------------------------
(* Order.                                                                  *)

\* The first place where two keys differ.
LEMMA LeastOf ==
    ASSUME NEW S \in SUBSET Nat, S # {}
    PROVE  \E x \in S : \A y \in S : x <= y
  <1>1. PICK x \in S : \A y \in S : ~ (<<y, x>> \in OpToRel(<, Nat))
    BY NatLessThanWellFounded, WFMin
  <1>2. \A y \in S : ~ (y < x)
    BY <1>1 DEF OpToRel
  <1> QED BY <1>2

\* The places of the parts of a key: what it has not comes first.
Place(k, i) == IF i <= Len(k) THEN TokenRank[k[i]] ELSE -1
Lower(k, l) == \E i \in Nat \ {0} : Place(k, i) < Place(l, i) /\ \A j \in 1..(i - 1) : Place(k, j) = Place(l, j)

LEMMA PlaceOf ==
    ASSUME NEW k \in Seq(Token), NEW i \in Nat \ {0}
    PROVE  /\ Place(k, i) \in Int /\ (i <= Len(k) <=> Place(k, i) >= 0)
           /\ i <= Len(k) => k[i] \in Token /\ Place(k, i) = TokenRank[k[i]]
  <1>1. ASSUME i <= Len(k) PROVE k[i] \in Token /\ TokenRank[k[i]] \in Nat
    <2>1. k[i] \in Token
      BY <1>1
    <2> QED BY <2>1, SharesAssumption
  <1> QED BY <1>1 DEF Place

LEMMA SamePlace ==
    ASSUME NEW k \in Seq(Token), NEW l \in Seq(Token), NEW i \in Nat \ {0}, Place(k, i) = Place(l, i), i <= Len(k)
    PROVE  i <= Len(l) /\ k[i] = l[i]
  <1>1. i <= Len(l) /\ k[i] \in Token /\ l[i] \in Token /\ TokenRank[k[i]] = TokenRank[l[i]]
    BY PlaceOf
  <1> QED BY <1>1, SharesAssumption

LEMMA BeforeIsLower ==
    ASSUME NEW k \in Seq(Token), NEW l \in Seq(Token)
    PROVE  Before(k, l) <=> Lower(k, l)
  <1>0. Len(k) \in Nat /\ Len(l) \in Nat
    OBVIOUS
  <1>1. ASSUME IsStrictPrefix(k, l) PROVE Lower(k, l)
    <2>1. Len(k) <= Len(l) /\ SubSeq(k, 1, Len(k)) = SubSeq(l, 1, Len(k)) /\ k # l
      BY <1>1 DEF IsStrictPrefix, IsPrefix
    <2>2. \A j \in 1..Len(k) : k[j] = l[j]
      <3>1. \A j \in 1..Len(k) : SubSeq(k, 1, Len(k))[j] = k[j] /\ SubSeq(l, 1, Len(k))[j] = l[j]
        BY <2>1
      <3> QED BY <2>1, <3>1
    <2>3. Len(k) < Len(l)
      BY <2>1, <2>2
    <2>4. PICK i \in Nat \ {0} : i = Len(k) + 1
      BY <1>0
    <2>5. Place(k, i) < Place(l, i)
      <3>1. ~ (i <= Len(k)) /\ i <= Len(l)
        BY <1>0, <2>3, <2>4
      <3> QED BY <3>1, PlaceOf DEF Place
    <2>6. \A j \in 1..(i - 1) : Place(k, j) = Place(l, j)
      BY <1>0, <2>1, <2>2, <2>4 DEF Place
    <2> QED BY <2>5, <2>6 DEF Lower
  <1>2. ASSUME NEW i \in 1..Len(k), i <= Len(l), TokenRank[k[i]] < TokenRank[l[i]],
               \A j \in 1..(i - 1) : k[j] = l[j]
        PROVE  Lower(k, l)
    <2>1. Place(k, i) < Place(l, i)
      BY <1>2 DEF Place
    <2>2. \A j \in 1..(i - 1) : Place(k, j) = Place(l, j)
      BY <1>0, <1>2 DEF Place
    <2> QED BY <2>1, <2>2 DEF Lower
  <1>3. ASSUME Lower(k, l) PROVE Before(k, l)
    <2>1. PICK i \in Nat \ {0} : Place(k, i) < Place(l, i) /\ \A j \in 1..(i - 1) : Place(k, j) = Place(l, j)
      BY <1>3 DEF Lower
    <2>2. i <= Len(l)
      <3>1. PICK x \in Int, y \in Int : x = Place(k, i) /\ y = Place(l, i)
        BY PlaceOf
      <3>2. x >= -1
        BY <3>1, PlaceOf DEF Place
      <3>3. y >= 0
        BY <2>1, <3>1, <3>2
      <3> QED BY <3>1, <3>3, PlaceOf
    <2>3. CASE i <= Len(k)
      <3>1. TokenRank[k[i]] < TokenRank[l[i]]
        BY <2>1, <2>2, <2>3 DEF Place
      <3>2. \A j \in 1..(i - 1) : k[j] = l[j]
        BY <1>0, <2>1, <2>3, SamePlace
      <3> QED BY <1>0, <2>2, <2>3, <3>1, <3>2 DEF Before
    <2>4. CASE ~ (i <= Len(k))
      <3>1. i = Len(k) + 1
        <4>1. SUFFICES ASSUME i # Len(k) + 1 PROVE FALSE
          OBVIOUS
        <4>2. PICK j \in 1..(i - 1) : j = Len(k) + 1
          BY <1>0, <2>4, <4>1
        <4>3. j <= Len(l) /\ j \in Nat \ {0} /\ Place(l, j) = Place(k, j)
          BY <1>0, <2>1, <2>2, <4>2
        <4>4. j <= Len(k)
          BY <4>3, SamePlace
        <4> QED BY <1>0, <4>2, <4>4
      <3>2. \A j \in 1..Len(k) : k[j] = l[j]
        BY <1>0, <2>1, <3>1, SamePlace
      <3>3. SubSeq(k, 1, Len(k)) = SubSeq(l, 1, Len(k)) /\ Len(k) <= Len(l) /\ k # l
        BY <1>0, <2>2, <3>1, <3>2
      <3> QED BY <3>3 DEF Before, IsStrictPrefix, IsPrefix
    <2> QED BY <2>3, <2>4
  <1> QED BY <1>1, <1>2, <1>3 DEF Before

\* Keys are in a strict total order.
LEMMA BeforeOrders ==
    ASSUME NEW k \in Seq(Token), NEW l \in Seq(Token)
    PROVE  /\ ~Before(k, k)
           /\ k = l \/ Before(k, l) \/ Before(l, k)
           /\ \A m \in Seq(Token) : Before(k, l) /\ Before(l, m) => Before(k, m)
  <1>1. ~Before(k, k)
    <2>1. SUFFICES ASSUME Lower(k, k) PROVE FALSE
      BY BeforeIsLower
    <2>2. PICK i \in Nat \ {0} : Place(k, i) < Place(k, i)
      BY <2>1 DEF Lower
    <2> QED BY <2>2, PlaceOf
  <1>2. ASSUME k # l PROVE Lower(k, l) \/ Lower(l, k)
    <2> DEFINE S == {i \in Nat \ {0} : Place(k, i) # Place(l, i)}
    <2>1. S # {}
      <3>1. SUFFICES ASSUME \A i \in Nat \ {0} : Place(k, i) = Place(l, i) PROVE k = l
        BY <1>2
      <3>2. Len(k) \in Nat /\ Len(l) \in Nat
        OBVIOUS
      <3>3. \A i \in 1..Len(k) : i <= Len(l) /\ k[i] = l[i]
        BY <3>1, <3>2, SamePlace
      <3>4. \A i \in 1..Len(l) : i <= Len(k)
        BY <3>1, <3>2, SamePlace
      <3>5. Len(k) = Len(l)
        BY <3>2, <3>3, <3>4
      <3> QED BY <3>3, <3>5
    <2>2. PICK i \in S : \A j \in S : i <= j
      <3>1. S \in SUBSET Nat
        OBVIOUS
      <3> HIDE DEF S
      <3> QED BY <2>1, <3>1, LeastOf
    <2>3. \A j \in 1..(i - 1) : Place(k, j) = Place(l, j)
      BY <2>2
    <2>4. Place(k, i) < Place(l, i) \/ Place(l, i) < Place(k, i)
      BY <2>2, PlaceOf
    <2> QED BY <2>2, <2>3, <2>4 DEF Lower
  <1>3. ASSUME NEW m \in Seq(Token), Lower(k, l), Lower(l, m) PROVE Lower(k, m)
    <2>1. PICK i \in Nat \ {0} : Place(k, i) < Place(l, i) /\ \A j \in 1..(i - 1) : Place(k, j) = Place(l, j)
      BY <1>3 DEF Lower
    <2>2. PICK j \in Nat \ {0} : Place(l, j) < Place(m, j) /\ \A h \in 1..(j - 1) : Place(l, h) = Place(m, h)
      BY <1>3 DEF Lower
    <2>3. PICK n \in Nat \ {0} : n <= i /\ n <= j /\ (n = i \/ n = j)
      <3>1. i <= j \/ j <= i
        OBVIOUS
      <3>2. i \in Nat \ {0} /\ j \in Nat \ {0} /\ i <= i /\ j <= j
        OBVIOUS
      <3> QED BY <3>1, <3>2
    <2>4. \A h \in Nat \ {0} : Place(k, h) \in Int /\ Place(l, h) \in Int /\ Place(m, h) \in Int
      BY PlaceOf
    <2>5. Place(k, n) < Place(m, n)
      <3>1. CASE i < j
        BY <2>1, <2>2, <2>3, <2>4, <3>1
      <3>2. CASE i = j
        BY <2>1, <2>2, <2>3, <2>4, <3>2
      <3>3. CASE i > j
        BY <2>1, <2>2, <2>3, <2>4, <3>3
      <3> QED BY <3>1, <3>2, <3>3
    <2>6. \A h \in 1..(n - 1) : Place(k, h) = Place(m, h)
      BY <2>1, <2>2, <2>3
    <2> QED BY <2>5, <2>6 DEF Lower
  <1> QED BY <1>1, <1>2, <1>3, BeforeIsLower

-----------------------------------------------------------------------------
(* What is put in order.                                                   *)

Earlier(k, K) == {l \in K : Before(l, k)}

\* Each place of the order is taken by one key, and the order is kept.
LEMMA InOrderIs ==
    ASSUME NEW K, IsFiniteSet(K), K \subseteq Seq(Token)
    PROVE  /\ Cardinality(K) \in Nat
           /\ \A i \in 1..Cardinality(K) : InOrder(K)[i] \in K
           /\ \A k \in K : \E i \in 1..Cardinality(K) : InOrder(K)[i] = k
           /\ \A i, j \in 1..Cardinality(K) : Before(InOrder(K)[i], InOrder(K)[j]) <=> i < j
  <1>1. PICK n \in Nat : n = Cardinality(K)
    BY FS_CardinalityType
  <1> DEFINE rank == [k \in K |-> Cardinality(Earlier(k, K)) + 1]
  <1>2. \A k \in K : IsFiniteSet(Earlier(k, K)) /\ Cardinality(Earlier(k, K)) \in Nat
    BY FS_Subset, FS_CardinalityType DEF Earlier
  <1>3. ASSUME NEW k \in K, NEW l \in K, Before(k, l) PROVE rank[k] < rank[l]
    <2>1. Earlier(k, K) \cup {k} \in SUBSET Earlier(l, K)
      BY <1>3, BeforeOrders DEF Earlier
    <2>2. k \notin Earlier(k, K)
      BY BeforeOrders DEF Earlier
    <2>3. Cardinality(Earlier(k, K) \cup {k}) = Cardinality(Earlier(k, K)) + 1
      BY <1>2, <2>2, FS_AddElement
    <2>4. Cardinality(Earlier(k, K) \cup {k}) <= Cardinality(Earlier(l, K))
      BY <1>2, <2>1, FS_Subset
    <2> QED BY <1>2, <2>3, <2>4
  <1>4. \A k \in K : rank[k] \in 1..n
    <2>1. SUFFICES ASSUME NEW k \in K PROVE rank[k] \in 1..n
      OBVIOUS
    <2>2. Earlier(k, K) \cup {k} \in SUBSET K /\ k \notin Earlier(k, K)
      BY BeforeOrders DEF Earlier
    <2>3. Cardinality(Earlier(k, K) \cup {k}) = Cardinality(Earlier(k, K)) + 1
      BY <1>2, <2>2, FS_AddElement
    <2>4. Cardinality(Earlier(k, K) \cup {k}) <= Cardinality(K)
      BY <2>2, FS_Subset
    <2> QED BY <1>1, <1>2, <2>3, <2>4
  <1> HIDE DEF rank
  <1>5. \A k, l \in K : rank[k] = rank[l] => k = l
    BY <1>3, <1>4, BeforeOrders
  <1>6. rank \in Injection(K, 1..n)
    <2>1. rank \in [K -> 1..n]
      BY <1>4 DEF rank
    <2> QED BY <1>5, <2>1 DEF Injection, IsInjective
  <1>7. rank \in Surjection(K, 1..n)
    <2>1. IsFiniteSet(1..n) /\ Cardinality(1..n) = n
      BY FS_Interval
    <2> QED BY <1>1, <1>6, <2>1, FS_Injection
  <1>8. \A i \in 1..n : InOrder(K)[i] \in K /\ rank[InOrder(K)[i]] = i
    <2>1. SUFFICES ASSUME NEW i \in 1..n PROVE InOrder(K)[i] \in K /\ rank[InOrder(K)[i]] = i
      OBVIOUS
    <2>2. InOrder(K)[i] = CHOOSE k \in K : Cardinality(Earlier(k, K)) = i - 1
      BY <1>1, <2>1 DEF InOrder, Earlier
    <2>3. \E k \in K : Cardinality(Earlier(k, K)) = i - 1
      <3>1. PICK k \in K : rank[k] = i
        BY <1>7 DEF Surjection
      <3> QED BY <1>2, <3>1 DEF rank
    <2>4. InOrder(K)[i] \in K /\ Cardinality(Earlier(InOrder(K)[i], K)) = i - 1
      BY <2>2, <2>3
    <2> QED BY <1>2, <2>4 DEF rank
  <1>9. \A k \in K : \E i \in 1..n : InOrder(K)[i] = k
    BY <1>4, <1>5, <1>8
  <1>10. ASSUME NEW i \in 1..n, NEW j \in 1..n
         PROVE  Before(InOrder(K)[i], InOrder(K)[j]) <=> i < j
    <2>1. PICK k \in K, l \in K : k = InOrder(K)[i] /\ l = InOrder(K)[j] /\ rank[k] = i /\ rank[l] = j
      BY <1>8
    <2>2. k = l \/ Before(k, l) \/ Before(l, k)
      BY BeforeOrders
    <2>3. ~Before(k, k)
      BY BeforeOrders
    <2> QED BY <1>3, <2>1, <2>2, <2>3
  <1> QED BY <1>1, <1>8, <1>9, <1>10

\* What comes after one of them.
LEMMA AfterTakes ==
    ASSUME NEW S, S \subseteq Seq(Token), NEW l \in Seq(Token) \cup {None}, IsFiniteSet(After(l, S)),
           NEW n \in 1..Cardinality(After(l, S))
    PROVE  /\ InOrder(After(l, S))[n] \in Seq(Token)
           /\ \A k : k \in After(InOrder(After(l, S))[n], S)
                     <=> \E i \in 1..Cardinality(After(l, S)) : i > n /\ k = InOrder(After(l, S))[i]
  <1>1. PICK K, s : K = After(l, S) /\ s = InOrder(K)
    OBVIOUS
  <1>0. None \notin Seq(Token)
    BY SharesAssumption
  <1>2. PICK c \in Nat : c = Cardinality(K) /\ n \in 1..c /\ K \subseteq S /\ K \subseteq Seq(Token)
    BY <1>1, FS_CardinalityType DEF After
  <1>3. /\ \A i \in 1..c : s[i] \in K
        /\ \A k \in K : \E i \in 1..c : s[i] = k
        /\ \A i, j \in 1..c : Before(s[i], s[j]) <=> i < j
    BY <1>1, <1>2, InOrderIs
  <1>4. s[n] \in K /\ s[n] \in Seq(Token) /\ s[n] # None
    BY <1>0, <1>2, <1>3
  <1>5. \A k : k \in After(s[n], S) <=> k \in S /\ Before(s[n], k)
    BY <1>4 DEF After
  <1>6. ASSUME NEW k \in S, Before(s[n], k) PROVE k \in K
    <2>1. l # None => Before(l, s[n])
      BY <1>1, <1>4 DEF After
    <2>2. l # None => Before(l, k)
      BY <1>4, <1>6, <2>1, BeforeOrders
    <2> QED BY <1>1, <2>2 DEF After
  <1>7. ASSUME NEW k, k \in After(s[n], S) PROVE \E i \in 1..c : i > n /\ k = s[i]
    <2>1. k \in K /\ Before(s[n], k)
      BY <1>5, <1>6, <1>7
    <2>2. PICK i \in 1..c : s[i] = k
      BY <1>3, <2>1
    <2> QED BY <1>2, <1>3, <2>1, <2>2
  <1>8. ASSUME NEW i \in 1..c, i > n PROVE s[i] \in After(s[n], S)
    BY <1>2, <1>3, <1>5, <1>8
  <1> QED BY <1>1, <1>2, <1>4, <1>7, <1>8

-----------------------------------------------------------------------------
(* What is still to be sent, and what a message takes of it.               *)

EntriesOf(tree, K, isDir) == {Entry(k, tree[k], isDir) : k \in K}
Left(a) == EntriesOf(dirs, DirsLeft(a), TRUE) \cup EntriesOf(files, FilesLeft(a), FALSE)

\* The entries of a tree, each once.
ListsEach(tree, K, b, n, l) ==
    /\ n \in Nat /\ l \in Seq(EntriesOf(tree, K, b)) /\ Len(l) = n
    /\ \A i \in 1..n : l[i] = Entry(InOrder(K)[i], tree[InOrder(K)[i]], b)
    /\ \A i, j \in 1..n : l[i] = l[j] => i = j
    /\ \A e \in EntriesOf(tree, K, b) : \E i \in 1..n : e = l[i]
LEMMA ListedIs ==
    ASSUME NEW tree, NEW K, IsFiniteSet(K), K \subseteq Seq(Token), NEW b
    PROVE  ListsEach(tree, K, b, Cardinality(K), Listed(tree, K, b))
  <1>1. PICK n, s : n = Cardinality(K) /\ n \in Nat /\ s = InOrder(K)
    BY FS_CardinalityType
  <1>2. /\ \A i \in 1..n : s[i] \in K
        /\ \A k \in K : \E i \in 1..n : s[i] = k
        /\ \A i, j \in 1..n : Before(s[i], s[j]) <=> i < j
    BY <1>1, InOrderIs
  <1>3. PICK l : l = [i \in 1..n |-> Entry(s[i], tree[s[i]], b)]
    OBVIOUS
  <1>4. \A i \in 1..n : l[i] \in EntriesOf(tree, K, b)
    BY <1>2, <1>3 DEF EntriesOf
  <1>5. l \in Seq(EntriesOf(tree, K, b)) /\ Len(l) = n
    <2>1. PICK T : T = EntriesOf(tree, K, b)
      OBVIOUS
    <2>2. l \in [1..n -> T]
      BY <1>3, <1>4, <2>1
    <2> QED BY <1>1, <2>1, <2>2
  <1>6. ASSUME NEW i \in 1..n, NEW j \in 1..n, l[i] = l[j] PROVE i = j
    <2>1. s[i] = s[j]
      BY <1>3, <1>6 DEF Entry
    <2>2. s[i] \in Seq(Token)
      BY <1>2
    <2>3. ~Before(s[i], s[j]) /\ ~Before(s[j], s[i])
      BY <2>1, <2>2, BeforeOrders
    <2> QED BY <1>2, <2>3
  <1>7. \A e \in EntriesOf(tree, K, b) : \E i \in 1..n : e = l[i]
    BY <1>2, <1>3 DEF EntriesOf
  <1> QED BY <1>1, <1>3, <1>5, <1>6, <1>7 DEF Listed, ListsEach

\* What is left of a tree after the n-th of the entries that were left before is what
\* came after it.
GoesOn(tree, S, K, n, b) ==
    \A e : e \in EntriesOf(tree, After(InOrder(K)[n], S), b)
           <=> \E i \in 1..Cardinality(K) : i > n /\ e = Listed(tree, K, b)[i]
LEMMA ListedAfter ==
    ASSUME NEW tree, NEW S, S \subseteq Seq(Token), NEW l \in Seq(Token) \cup {None}, IsFiniteSet(After(l, S)),
           NEW n \in 1..Cardinality(After(l, S)), NEW b
    PROVE  GoesOn(tree, S, After(l, S), n, b)
  <1>1. PICK K, s, c : K = After(l, S) /\ s = InOrder(K) /\ c = Cardinality(K)
    OBVIOUS
  <1>2. K \subseteq Seq(Token) /\ IsFiniteSet(K)
    BY <1>1 DEF After
  <1>3. \A i \in 1..c : Listed(tree, K, b)[i] = Entry(s[i], tree[s[i]], b)
    <2>1. ListsEach(tree, K, b, Cardinality(K), Listed(tree, K, b))
      BY <1>2, ListedIs
    <2> QED BY <1>1, <2>1 DEF ListsEach
  <1>4. \A k : k \in After(s[n], S) <=> \E i \in 1..c : i > n /\ k = s[i]
    <2>1. \A k : k \in After(InOrder(After(l, S))[n], S)
                 <=> \E i \in 1..Cardinality(After(l, S)) : i > n /\ k = InOrder(After(l, S))[i]
      BY AfterTakes
    <2> QED BY <1>1, <2>1
  <1>5. \A e : e \in EntriesOf(tree, After(s[n], S), b) <=> \E k \in After(s[n], S) : e = Entry(k, tree[k], b)
    BY DEF EntriesOf
  <1>6. \A e : e \in EntriesOf(tree, After(s[n], S), b) <=> \E i \in 1..c : i > n /\ e = Entry(s[i], tree[s[i]], b)
    BY <1>4, <1>5
  <1> QED BY <1>1, <1>3, <1>6 DEF GoesOn

\* What a message takes of what is left.
Takes(a, m) ==
    /\ m \in Seq(Left(a)) /\ Len(m) \in 0..ChunkSize
    /\ \A i, j \in 1..Len(m) : m[i] = m[j] => i = j
    /\ m = <<>> => Left(a) = {}
    /\ m # <<>> => \A e : e \in Left(Advanced(a, m)) <=> e \in Left(a) /\ \A i \in 1..Len(m) : m[i] # e
LEMMA ChunkTakes ==
    ASSUME NEW M, NEW a \in AnswerOf(M), a.last \in Seq(Token) \cup {None},
           DOMAIN dirs \subseteq Seq(Token), DOMAIN files \subseteq Seq(Token),
           IsFiniteSet(DOMAIN dirs), IsFiniteSet(DOMAIN files),
           NEW m, m = Chunk(Remaining(a))
    PROVE  Takes(a, m)
  <1>1. PICK S, T : S = {k \in DOMAIN dirs : Shown(k, a.q)} /\ T = {k \in DOMAIN files : Shown(k, a.q)}
    OBVIOUS
  <1>2. S \subseteq Seq(Token) /\ T \subseteq Seq(Token) /\ IsFiniteSet(S) /\ IsFiniteSet(T)
    BY <1>1, FS_Subset
  <1>3. PICK D, F : D = DirsLeft(a) /\ F = FilesLeft(a)
    OBVIOUS
  <1>4. PICK l : l = IF a.stage = "files" THEN a.last ELSE None
    OBVIOUS
  <1>5. /\ D = IF a.stage = "dirs" THEN After(a.last, S) ELSE {}
        /\ F = After(l, T) /\ l \in Seq(Token) \cup {None}
    BY <1>1, <1>3, <1>4 DEF AnswerOf, DirsLeft, FilesLeft
  <1>6. D \subseteq S /\ F \subseteq T
    BY <1>5 DEF After
  <1>7. IsFiniteSet(D) /\ IsFiniteSet(F) /\ D \subseteq Seq(Token) /\ F \subseteq Seq(Token)
    BY <1>2, <1>6, FS_Subset
  <1>8. PICK d, f, x, y : /\ d = Cardinality(D) /\ f = Cardinality(F)
                          /\ x = Listed(dirs, D, TRUE) /\ y = Listed(files, F, FALSE)
    OBVIOUS
  <1>9. PICK X, Y : X = EntriesOf(dirs, D, TRUE) /\ Y = EntriesOf(files, F, FALSE)
    OBVIOUS
  <1>10. /\ d \in Nat /\ x \in Seq(X) /\ Len(x) = d
         /\ \A i \in 1..d : x[i] = Entry(InOrder(D)[i], dirs[InOrder(D)[i]], TRUE)
         /\ \A i, j \in 1..d : x[i] = x[j] => i = j
         /\ \A e \in X : \E i \in 1..d : e = x[i]
    <2>1. ListsEach(dirs, D, TRUE, Cardinality(D), Listed(dirs, D, TRUE))
      BY <1>7, ListedIs
    <2> QED BY <1>8, <1>9, <2>1 DEF ListsEach
  <1>11. /\ f \in Nat /\ y \in Seq(Y) /\ Len(y) = f
         /\ \A i \in 1..f : y[i] = Entry(InOrder(F)[i], files[InOrder(F)[i]], FALSE)
         /\ \A i, j \in 1..f : y[i] = y[j] => i = j
         /\ \A e \in Y : \E i \in 1..f : e = y[i]
    <2>1. ListsEach(files, F, FALSE, Cardinality(F), Listed(files, F, FALSE))
      BY <1>7, ListedIs
    <2> QED BY <1>8, <1>9, <2>1 DEF ListsEach
  <1>12. Left(a) = X \cup Y
    BY <1>3, <1>9 DEF Left
  <1>13. \A u \in X, v \in Y : u # v /\ u.is_dir /\ ~v.is_dir
    BY <1>9 DEF EntriesOf, Entry
  <1>14. PICK r : r = x \o y
    OBVIOUS
  <1>15. /\ r \in Seq(X \cup Y) /\ Len(r) = d + f
         /\ \A i \in 1..(d + f) : r[i] = IF i <= d THEN x[i] ELSE y[i - d]
    <2>1. PICK Z : Z = X \cup Y
      OBVIOUS
    <2>2. x \in Seq(Z) /\ y \in Seq(Z)
      BY <1>10, <1>11, <2>1
    <2>3. r \in Seq(Z) /\ Len(r) = Len(x) + Len(y)
      BY <1>14, <2>2
    <2>4. ASSUME NEW i \in 1..(d + f) PROVE r[i] = IF i <= d THEN x[i] ELSE y[i - d]
      <3>1. i \in 1..(Len(x) + Len(y)) /\ Len(x) = d
        BY <1>10, <1>11
      <3> QED BY <1>14, <2>2, <3>1
    <2> QED BY <1>10, <1>11, <2>1, <2>3, <2>4
  <1>16. ASSUME NEW i \in 1..(d + f), NEW j \in 1..(d + f), r[i] = r[j] PROVE i = j
    <2>1. \A h \in 1..d : x[h] \in X
      BY <1>10
    <2>2. \A h \in 1..f : y[h] \in Y
      BY <1>11
    <2>3. CASE i <= d /\ j <= d
      BY <1>10, <1>11, <1>15, <1>16, <2>3
    <2>4. CASE i > d /\ j > d
      <3>1. i - d \in 1..f /\ j - d \in 1..f
        BY <1>10, <1>11, <2>4
      <3>2. y[i - d] = y[j - d]
        BY <1>10, <1>15, <1>16, <2>4
      <3>3. i - d = j - d
        BY <1>11, <3>1, <3>2
      <3> QED BY <1>10, <3>3
    <2>5. CASE i <= d /\ j > d
      <3>1. j - d \in 1..f /\ i \in 1..d
        BY <1>10, <1>11, <2>5
      <3> QED BY <1>10, <1>13, <1>15, <1>16, <2>1, <2>2, <2>5, <3>1
    <2>6. CASE i > d /\ j <= d
      <3>1. i - d \in 1..f /\ j \in 1..d
        BY <1>10, <1>11, <2>6
      <3> QED BY <1>10, <1>13, <1>15, <1>16, <2>1, <2>2, <2>6, <3>1
    <2> QED BY <1>10, <2>3, <2>4, <2>5, <2>6
  <1>17. ASSUME NEW e, e \in X \cup Y PROVE \E i \in 1..(d + f) : e = r[i]
    <2>1. CASE e \in X
      BY <1>10, <1>11, <1>15, <2>1
    <2>2. CASE e \in Y
      <3>1. PICK i \in 1..f : e = y[i]
        BY <1>11, <2>2
      <3>2. PICK j \in 1..(d + f) : j = i + d
        BY <1>10, <1>11
      <3>3. ~ (j <= d) /\ j - d = i
        BY <1>10, <1>11, <3>2
      <3> QED BY <1>15, <3>1, <3>2, <3>3
    <2> QED BY <1>17, <2>1, <2>2
  <1>18. PICK n \in Nat : n = IF d + f < ChunkSize THEN d + f ELSE ChunkSize
    BY <1>10, <1>11, LibraryAssumption
  <1>19. n \in 0..ChunkSize /\ n <= d + f /\ ChunkSize \in Nat \ {0}
    BY <1>10, <1>11, <1>18, LibraryAssumption
  <1>n. /\ d \in Nat /\ f \in Nat /\ n \in Nat /\ ChunkSize \in Nat /\ ChunkSize # 0
        /\ n = IF d + f < ChunkSize THEN d + f ELSE ChunkSize
    BY <1>10, <1>11, <1>18, <1>19
  <1>20. m = SubSeq(r, 1, n)
    BY <1>3, <1>8, <1>14, <1>15, <1>18 DEF Chunk, Remaining
  <1>21. m \in Seq(X \cup Y) /\ Len(m) = n /\ \A i \in 1..n : m[i] = r[i]
    <2>1. PICK Z : Z = X \cup Y
      OBVIOUS
    <2>2. PICK h \in Nat : h = d + f
      BY <1>10, <1>11
    <2>3. r \in Seq(Z) /\ Len(r) = h /\ n <= h
      BY <1>15, <1>19, <2>1, <2>2
    <2> QED BY <1>20, <2>1, <2>3
  <1>22. ASSUME m # <<>> PROVE \A e : e \in Left(Advanced(a, m)) <=> \E i \in 1..(d + f) : i > n /\ e = r[i]
    <2>1. PICK b : b = Advanced(a, m)
      OBVIOUS
    <2>2. /\ b.stage = IF d < ChunkSize THEN "files" ELSE "dirs"
          /\ b.last = IF d < ChunkSize /\ Last(m).is_dir THEN None ELSE Last(m).name
          /\ b.q = a.q
      BY <1>3, <1>8, <2>1 DEF Advanced, AnswerOf
    <2>3. n \in 1..(d + f) /\ Last(m) = r[n]
      <3>1. n # 0
        BY <1>21, <1>22
      <3> QED BY <1>19, <1>21, <3>1 DEF Last
    <2>4. PICK X2, Y2 : X2 = EntriesOf(dirs, DirsLeft(b), TRUE) /\ Y2 = EntriesOf(files, FilesLeft(b), FALSE)
      OBVIOUS
    <2>5. Left(b) = X2 \cup Y2
      BY <2>4 DEF Left
    <2>6. ASSUME d > 0 PROVE D = After(a.last, S) /\ l = None /\ F = After(None, T)
      <3>1. D # {}
        <4>1. SUFFICES ASSUME D = {} PROVE FALSE
          OBVIOUS
        <4>2. Cardinality({}) = 0
          BY FS_EmptySet
        <4> QED BY <1>8, <2>6, <4>1, <4>2
      <3>2. a.stage = "dirs"
        BY <1>5, <3>1
      <3> QED BY <1>4, <1>5, <3>2
    <2>7. CASE ~ (d < ChunkSize)
      <3>1. n = ChunkSize /\ n <= d /\ d > 0 /\ n \in 1..d
        BY <1>n, <2>1, <2>7
      <3>2. b.stage = "dirs" /\ b.last = InOrder(D)[n]
        <4>1. r[n] = x[n]
          BY <1>15, <2>3, <3>1
        <4>2. x[n] = Entry(InOrder(D)[n], dirs[InOrder(D)[n]], TRUE)
          BY <1>10, <3>1
        <4> QED BY <2>2, <2>3, <2>7, <4>1, <4>2 DEF Entry
      <3>3. DirsLeft(b) = After(InOrder(D)[n], S) /\ FilesLeft(b) = F
        BY <1>1, <2>2, <2>6, <3>1, <3>2 DEF DirsLeft, FilesLeft
      <3>4. \A e : e \in X2 <=> \E i \in 1..d : i > n /\ e = x[i]
        <4>1. D = After(a.last, S) /\ IsFiniteSet(After(a.last, S)) /\ n \in 1..Cardinality(After(a.last, S))
          BY <1>7, <1>8, <2>6, <3>1
        <4>2. GoesOn(dirs, S, After(a.last, S), n, TRUE)
          BY <1>2, <4>1, ListedAfter
        <4> QED BY <1>8, <2>4, <3>3, <4>1, <4>2 DEF GoesOn
      <3>5. Y2 = Y
        BY <1>9, <2>4, <3>3
      <3>6. ASSUME NEW e, e \in X2 \cup Y2 PROVE \E i \in 1..(d + f) : i > n /\ e = r[i]
        <4>1. CASE e \in X2
          <5>1. PICK i \in 1..d : i > n /\ e = x[i]
            BY <3>4, <4>1
          <5> QED BY <1>10, <1>11, <1>15, <5>1
        <4>2. CASE e \in Y2
          <5>1. PICK i \in 1..f : e = y[i]
            BY <1>11, <3>5, <4>2
          <5>2. PICK j \in 1..(d + f) : j = i + d
            BY <1>10, <1>11
          <5>3. ~ (j <= d) /\ j - d = i /\ j > n
            BY <1>10, <1>11, <3>1, <5>2
          <5> QED BY <1>15, <5>1, <5>2, <5>3
        <4> QED BY <3>6, <4>1, <4>2
      <3>7. ASSUME NEW i \in 1..(d + f), i > n PROVE r[i] \in X2 \cup Y2
        <4>1. CASE i <= d
          BY <1>10, <1>11, <1>15, <3>4, <3>7, <4>1
        <4>2. CASE i > d
          <5>1. i - d \in 1..f
            BY <1>10, <1>11, <4>2
          <5>2. y[i - d] \in Y
            BY <1>11, <5>1
          <5> QED BY <1>10, <1>11, <1>15, <3>5, <4>2, <5>2
        <4> QED BY <1>10, <1>11, <4>1, <4>2
      <3> QED BY <2>1, <2>5, <3>6, <3>7
    <2>8. CASE d < ChunkSize /\ n <= d
      <3>1. n = d /\ f = 0 /\ d > 0
        BY <1>n, <2>1, <2>3, <2>8
      <3>2. r[n] = x[n] /\ x[n] = Entry(InOrder(D)[n], dirs[InOrder(D)[n]], TRUE)
        <4>1. n \in 1..d /\ n <= d
          BY <1>n, <3>1
        <4>2. r[n] = x[n]
          BY <1>15, <2>3, <4>1
        <4> QED BY <1>10, <4>1, <4>2
      <3>3. b.stage = "files" /\ b.last = None
        BY <2>2, <2>3, <2>8, <3>2 DEF Entry
      <3>4. F = {}
        BY <1>7, <1>8, <3>1, FS_EmptySet
      <3>5. DirsLeft(b) = {} /\ FilesLeft(b) = {}
        BY <1>1, <2>2, <2>6, <3>1, <3>3, <3>4 DEF DirsLeft, FilesLeft
      <3>6. X2 = {} /\ Y2 = {}
        BY <2>4, <3>5 DEF EntriesOf
      <3> QED BY <1>10, <2>1, <2>5, <3>1, <3>6
    <2>9. CASE d < ChunkSize /\ n > d
      <3>1. PICK h \in 1..f : h = n - d
        BY <1>10, <1>11, <1>19, <2>9
      <3>2. r[n] = y[h] /\ y[h] = Entry(InOrder(F)[h], files[InOrder(F)[h]], FALSE)
        <4>1. ~ (n <= d)
          BY <1>n, <2>9
        <4> QED BY <1>11, <1>15, <2>3, <3>1, <4>1
      <3>3. b.stage = "files" /\ b.last = InOrder(F)[h]
        BY <2>2, <2>3, <2>9, <3>2 DEF Entry
      <3>4. DirsLeft(b) = {} /\ FilesLeft(b) = After(InOrder(F)[h], T)
        BY <1>1, <2>2, <3>3 DEF DirsLeft, FilesLeft
      <3>5. \A e : e \in Y2 <=> \E i \in 1..f : i > h /\ e = y[i]
        <4>1. F = After(l, T) /\ IsFiniteSet(After(l, T)) /\ h \in 1..Cardinality(After(l, T))
          BY <1>5, <1>7, <1>8, <3>1
        <4>2. GoesOn(files, T, After(l, T), h, FALSE)
          BY <1>2, <1>5, <4>1, ListedAfter
        <4> QED BY <1>8, <2>4, <3>4, <4>1, <4>2 DEF GoesOn
      <3>6. X2 = {}
        BY <2>4, <3>4 DEF EntriesOf
      <3>7. ASSUME NEW e, e \in Y2 PROVE \E i \in 1..(d + f) : i > n /\ e = r[i]
        <4>1. PICK i \in 1..f : i > h /\ e = y[i]
          BY <3>5, <3>7
        <4>2. PICK j \in 1..(d + f) : j = i + d
          BY <1>10, <1>11
        <4>3. ~ (j <= d) /\ j - d = i /\ j > n
          BY <1>10, <1>11, <1>19, <3>1, <4>1, <4>2
        <4> QED BY <1>15, <4>1, <4>2, <4>3
      <3>8. ASSUME NEW i \in 1..(d + f), i > n PROVE r[i] \in Y2
        <4>1. i - d \in 1..f /\ i - d > h /\ ~ (i <= d)
          BY <1>10, <1>11, <1>19, <2>9, <3>1, <3>8
        <4> QED BY <1>15, <3>5, <4>1
      <3> QED BY <2>1, <2>5, <3>6, <3>7, <3>8
    <2> QED BY <1>10, <1>19, <2>7, <2>8, <2>9
  <1>23. ASSUME m = <<>> PROVE Left(a) = {}
    <2>1. n = 0
      BY <1>21, <1>23
    <2>2. d + f = 0
      BY <1>10, <1>11, <1>18, <1>19, <2>1
    <2> QED BY <1>12, <1>17, <2>2
  <1>24. ASSUME m # <<>>, NEW e
         PROVE  e \in Left(Advanced(a, m)) <=> e \in Left(a) /\ \A i \in 1..Len(m) : m[i] # e
    <2>1. e \in Left(Advanced(a, m)) <=> \E i \in 1..(d + f) : i > n /\ e = r[i]
      BY <1>22, <1>24
    <2>2. \A i \in 1..(d + f) : r[i] \in X \cup Y
      BY <1>15
    <2>3. \A i \in 1..n : i \in 1..(d + f) /\ m[i] = r[i]
      BY <1>10, <1>11, <1>19, <1>21
    <2>4. ASSUME NEW i \in 1..(d + f), i > n, e = r[i] PROVE e \in X \cup Y /\ \A j \in 1..n : m[j] # e
      <3>1. e \in X \cup Y
        BY <2>2, <2>4
      <3>2. ASSUME NEW j \in 1..n, m[j] = e PROVE FALSE
        <4>1. j \in 1..(d + f) /\ r[j] = r[i]
          BY <2>3, <2>4, <3>2
        <4>2. i = j
          BY <1>16, <4>1
        <4> QED BY <1>n, <2>4, <4>2
      <3> QED BY <3>1, <3>2
    <2>5. ASSUME e \in X \cup Y, \A j \in 1..n : m[j] # e PROVE \E i \in 1..(d + f) : i > n /\ e = r[i]
      <3>1. PICK i \in 1..(d + f) : e = r[i]
        BY <1>17, <2>5
      <3>2. ~ (i <= n)
        BY <1>10, <1>11, <1>19, <2>3, <2>5, <3>1
      <3> QED BY <1>10, <1>11, <1>19, <3>1, <3>2
    <2> QED BY <1>12, <1>21, <2>1, <2>4, <2>5
  <1>25. \A i, j \in 1..n : m[i] = m[j] => i = j
    BY <1>10, <1>11, <1>16, <1>19, <1>21
  <1> QED BY <1>12, <1>19, <1>21, <1>23, <1>24, <1>25 DEF Takes

-----------------------------------------------------------------------------
(* How often an entry was sent.                                            *)

LEMMA SentFinite ==
    ASSUME NEW M, NEW sent \in Seq(M), NEW e
    PROVE  IsFiniteSet(SentAt(e, sent)) /\ Cardinality(SentAt(e, sent)) \in Nat
  <1>1. PICK n \in Nat, k \in Nat : n = Len(sent) /\ k = ChunkSize
    BY LibraryAssumption
  <1>2. IsFiniteSet(1..n) /\ IsFiniteSet(1..k)
    BY FS_Interval
  <1>3. IsFiniteSet((1..n) \X (1..k))
    BY <1>2, FS_Product
  <1>4. SentAt(e, sent) \subseteq (1..n) \X (1..k)
    BY <1>1 DEF SentAt
  <1>5. IsFiniteSet(SentAt(e, sent))
    BY <1>3, <1>4, FS_Subset
  <1> QED BY <1>5, FS_CardinalityType

\* A message that holds it counts once.
LEMMA SentMore ==
    ASSUME NEW M, NEW sent \in Seq(M), NEW E, NEW m \in Seq(E), Len(m) \in 0..ChunkSize,
           \A i, j \in 1..Len(m) : m[i] = m[j] => i = j, NEW e
    PROVE  Cardinality(SentAt(e, Append(sent, Message(m))))
             = IF \E i \in 1..Len(m) : m[i] = e THEN Cardinality(SentAt(e, sent)) + 1
               ELSE Cardinality(SentAt(e, sent))
  <1>1. PICK new, x, n, k : /\ new = Append(sent, x) /\ x = Message(m) /\ n = Len(sent) /\ k = ChunkSize
    OBVIOUS
  <1>2. n \in Nat /\ k \in Nat /\ x.entries = m
    BY <1>1, LibraryAssumption DEF Message
  <1>3. Len(new) = n + 1 /\ new[n + 1] = x /\ \A i \in 1..n : new[i] = sent[i]
    <2>1. PICK N : N = M \cup {x}
      OBVIOUS
    <2>2. sent \in Seq(N) /\ x \in N
      BY <2>1
    <2> QED BY <1>1, <2>2
  <1>4. PICK S, T : S = SentAt(e, sent) /\ T = SentAt(e, new)
    OBVIOUS
  <1>5. S = {y \in (1..n) \X (1..k) : y[2] <= Len(sent[y[1]].entries) /\ sent[y[1]].entries[y[2]] = e}
    BY <1>1, <1>4 DEF SentAt
  <1>6. T = {y \in (1..(n + 1)) \X (1..k) : y[2] <= Len(new[y[1]].entries) /\ new[y[1]].entries[y[2]] = e}
    BY <1>1, <1>3, <1>4 DEF SentAt
  <1>7. \A y \in S : y \in T /\ y # <<n + 1, y[2]>>
    BY <1>2, <1>3, <1>5, <1>6
  <1>8. ASSUME NEW y \in T, y \notin S PROVE y = <<n + 1, y[2]>> /\ y[2] \in 1..Len(m) /\ m[y[2]] = e
    <2>1. PICK i \in 1..(n + 1), j \in 1..k : y = <<i, j>>
      BY <1>6, <1>8
    <2>2. j <= Len(new[i].entries) /\ new[i].entries[j] = e
      BY <1>6, <1>8, <2>1
    <2>3. i = n + 1
      <3>1. SUFFICES ASSUME i # n + 1 PROVE FALSE
        OBVIOUS
      <3>2. i \in 1..n /\ new[i] = sent[i]
        BY <1>2, <1>3, <2>1, <3>1
      <3>3. <<i, j>> \in S
        BY <1>5, <2>1, <2>2, <3>2
      <3> QED BY <1>8, <2>1, <3>3
    <2> QED BY <1>2, <1>3, <2>1, <2>2, <2>3
  <1>9. IsFiniteSet(S) /\ Cardinality(S) \in Nat
    BY <1>4, SentFinite
  <1>10. CASE \E i \in 1..Len(m) : m[i] = e
    <2>1. PICK i \in 1..Len(m) : m[i] = e
      BY <1>10
    <2>2. i \in 1..k
      BY <1>1, <1>2, <2>1
    <2>3. PICK z : z = <<n + 1, i>>
      OBVIOUS
    <2>4. z \in T
      BY <1>2, <1>3, <1>6, <2>1, <2>2, <2>3
    <2>5. z \notin S
      BY <1>7, <2>3
    <2>6. T = S \cup {z}
      <3>1. ASSUME NEW y \in T, y \notin S PROVE y = z
        BY <1>8, <2>1, <2>3, <3>1
      <3> QED BY <1>7, <2>4, <3>1
    <2>7. Cardinality(S \cup {z}) = Cardinality(S) + 1
      BY <1>9, <2>5, FS_AddElement
    <2> QED BY <1>1, <1>4, <1>10, <2>6, <2>7
  <1>11. CASE ~ \E i \in 1..Len(m) : m[i] = e
    <2>1. T = S
      BY <1>7, <1>8, <1>11
    <2> QED BY <1>1, <1>4, <1>11, <2>1
  <1> QED BY <1>10, <1>11

-----------------------------------------------------------------------------
(* What a query stands for is shown.                                       *)

LEMMA AskedShown ==
    ASSUME NEW k \in Seq(Token), NEW q \in Queries, Asked(k, q)
    PROVE  Shown(k, q)
  <1>1. PICK p \in Seq(Token) : p = q.path
    BY LibraryAssumption
  <1>2. PICK n, l : n = Len(p) /\ l = Len(k)
    OBVIOUS
  <1>3. n \in Nat /\ l \in Nat
    BY <1>2
  <1>4. k = p \/ (Beneath(k, p) /\ (q.recursive \/ Parts(k) = Parts(p) + 1))
    BY <1>1 DEF Asked
  <1>5. IsPrefix(p, k) /\ n <= l /\ (\A i \in 1..n : p[i] = k[i])
        /\ (k # p /\ p # Root => n < l /\ k[n + 1] = "/")
    <2>1. CASE k = p
      <3>1. SubSeq(k, 1, l) = k
        BY <1>2
      <3> QED BY <1>2, <1>3, <2>1, <3>1 DEF IsPrefix
    <2>2. CASE k # p /\ p = Root
      <3>1. n = 0 /\ SubSeq(p, 1, 0) = <<>> /\ SubSeq(k, 1, 0) = <<>>
        BY <1>2, <2>2 DEF Root
      <3> QED BY <1>2, <1>3, <2>2, <3>1 DEF IsPrefix
    <2>3. CASE k # p /\ p # Root
      <3>1. PICK s \in Seq(Token) : s = p \o Sep /\ Len(s) = n + 1 /\ s[n + 1] = "/" /\ \A i \in 1..n : s[i] = p[i]
        <4>1. Sep \in Seq(Token) /\ Len(Sep) = 1 /\ Sep[1] = "/"
          BY SepTyped
        <4>2. PICK t \in Seq(Token) : t = Sep
          BY <4>1
        <4>a. p \o t \in Seq(Token) /\ Len(p \o t) = Len(p) + Len(t)
          OBVIOUS
        <4>3. p \o t \in Seq(Token) /\ Len(p \o t) = n + 1
          BY <1>2, <4>1, <4>2, <4>a
        <4>b. \A j \in 1..(Len(p) + Len(t)) : j > Len(p) => (p \o t)[j] = t[j - Len(p)]
          OBVIOUS
        <4>c. Len(t) = 1 /\ n + 1 \in 1..(n + 1) /\ n + 1 > n /\ (n + 1) - n = 1
          BY <1>3, <4>1, <4>2
        <4>4. (p \o t)[n + 1] = t[1]
          BY <1>2, <4>b, <4>c
        <4>5. \A i \in 1..n : (p \o t)[i] = p[i]
          BY <1>2, <1>3, <4>1, <4>2
        <4> QED BY <4>1, <4>2, <4>3, <4>4, <4>5
      <3>2. IsStrictPrefix(s, k)
        BY <1>4, <2>3, <3>1 DEF Beneath
      <3>3. n + 1 <= l /\ SubSeq(s, 1, n + 1) = SubSeq(k, 1, n + 1)
        BY <1>2, <3>1, <3>2 DEF IsStrictPrefix, IsPrefix
      <3>4. \A i \in 1..(n + 1) : SubSeq(s, 1, n + 1)[i] = s[i] /\ SubSeq(k, 1, n + 1)[i] = k[i]
        BY <1>2, <1>3, <3>1, <3>3
      <3>5. \A i \in 1..(n + 1) : s[i] = k[i]
        BY <3>3, <3>4
      <3>6. (\A i \in 1..n : p[i] = k[i]) /\ n < l /\ k[n + 1] = "/"
        <4>1. \A i \in 1..n : i \in 1..(n + 1)
          BY <1>3
        <4>2. n + 1 \in 1..(n + 1)
          BY <1>3
        <4>3. \A i \in 1..n : p[i] = k[i]
          BY <3>1, <3>5, <4>1
        <4>4. k[n + 1] = "/"
          BY <3>1, <3>5, <4>2
        <4>5. n < l
          BY <1>3, <3>3
        <4> QED BY <4>3, <4>4, <4>5
      <3>7. SubSeq(p, 1, n) = SubSeq(k, 1, n)
        BY <1>2, <1>3, <3>6
      <3> QED BY <1>2, <1>3, <3>6, <3>7 DEF IsPrefix
    <2> QED BY <2>1, <2>2, <2>3
  <1> DEFINE at(s) == {i \in 1..Len(s) : s[i] = "/"}
  <1>6. \A s \in Seq(Token) : IsFiniteSet(at(s)) /\ Cardinality(at(s)) \in Nat
    <2>1. SUFFICES ASSUME NEW s \in Seq(Token) PROVE IsFiniteSet(at(s)) /\ Cardinality(at(s)) \in Nat
      OBVIOUS
    <2>2. IsFiniteSet(1..Len(s))
      BY FS_Interval
    <2> QED BY <2>2, FS_Subset, FS_CardinalityType
  <1>7. \A s \in Seq(Token) : Parts(s) = Cardinality(at(s)) + IF s = Root THEN 0 ELSE 1
    <2>1. \A s \in Seq(Token) : DOMAIN s = 1..Len(s)
      OBVIOUS
    <2> QED BY <2>1 DEF Parts
  <1>8. ASSUME ~q.recursive PROVE \A i \in 1..l : i > n /\ k[i] = "/" => i = n + 1 /\ p # Root
    <2>1. CASE k = p
      BY <1>2, <1>3, <2>1
    <2>2. CASE k # p /\ p = Root
      <3>1. Len(p) = 0 /\ at(p) = {}
        BY <2>2 DEF Root
      <3>2. Parts(p) = 0 /\ Parts(k) = 1 /\ k # Root
        <4>1. Cardinality(at(p)) = 0
          BY <3>1, FS_EmptySet
        <4>2. Parts(p) = Cardinality(at(p)) + 0
          BY <1>7, <2>2
        <4> HIDE DEF at
        <4> QED BY <1>4, <1>8, <2>2, <4>1, <4>2
      <3>3. Cardinality(at(k)) = 0
        <4> HIDE DEF at
        <4>1. Parts(k) = Cardinality(at(k)) + 1
          BY <1>7, <3>2
        <4> QED BY <1>6, <3>2, <4>1
      <3>4. at(k) = {}
        BY <1>6, <3>3, FS_EmptySet
      <3> QED BY <1>2, <3>4
    <2>3. CASE k # p /\ p # Root
      <3>1. k # Root
        BY <1>2, <1>3, <1>5, <2>3 DEF Root
      <3>2. PICK S, T : S = at(p) /\ T = at(k)
        OBVIOUS
      <3>3. IsFiniteSet(S) /\ IsFiniteSet(T) /\ Cardinality(S) \in Nat /\ Cardinality(T) = Cardinality(S) + 1
        <4> HIDE DEF at
        <4>1. Parts(p) = Cardinality(at(p)) + 1 /\ Parts(k) = Cardinality(at(k)) + 1
          BY <1>7, <2>3, <3>1
        <4>2. Cardinality(at(p)) \in Nat /\ Cardinality(at(k)) \in Nat /\ IsFiniteSet(at(p)) /\ IsFiniteSet(at(k))
          BY <1>6
        <4> QED BY <1>4, <1>8, <2>3, <3>2, <4>1, <4>2
      <3>4. S \cup {n + 1} \subseteq T /\ n + 1 \notin S
        BY <1>2, <1>3, <1>5, <2>3, <3>2
      <3>5. Cardinality(S \cup {n + 1}) = Cardinality(S) + 1
        BY <3>3, <3>4, FS_AddElement
      <3>6. S \cup {n + 1} = T
        BY <3>3, <3>4, <3>5, FS_Subset
      <3> QED BY <1>2, <1>3, <2>3, <3>2, <3>6
    <2> QED BY <2>1, <2>2, <2>3
  <1>9. ASSUME ~q.recursive PROVE ~Contains(Rest(k, p), "/")
    <2>1. PICK r \in Seq(Token) : /\ r = SubSeq(k, n + 1, l) /\ Len(r) = l - n
                                  /\ \A i \in 1..(l - n) : r[i] = k[n + i]
      <3>1. n + 1 \in 1..(l + 1)
        BY <1>3, <1>5
      <3>2. SubSeq(k, n + 1, l) \in Seq(Token)
        BY <1>2, <1>3, <1>5
      <3>3. Len(SubSeq(k, n + 1, l)) = l - n
        BY <1>2, <1>3, <1>5
      <3>4. \A i \in 1..(l - n) : SubSeq(k, n + 1, l)[i] = k[n + i]
        BY <1>2, <1>3, <1>5
      <3> QED BY <3>2, <3>3, <3>4
    <2>2. Rest(k, p) = IF r # <<>> /\ Head(r) = "/" THEN Tail(r) ELSE r
      BY <1>2, <2>1 DEF Rest
    <2>3. \A i \in 1..Len(r) : r[i] = "/" => i = 1
      BY <1>3, <1>5, <1>8, <1>9, <2>1
    <2>4. CASE r # <<>> /\ Head(r) = "/"
      <3>1. Len(Tail(r)) = Len(r) - 1 /\ \A i \in 1..(Len(r) - 1) : Tail(r)[i] = r[i + 1]
        BY <2>4
      <3>2. \A i \in 1..Len(Tail(r)) : Tail(r)[i] # "/"
        BY <2>3, <3>1
      <3> QED BY <2>2, <2>4, <3>2 DEF Contains
    <2>5. CASE ~ (r # <<>> /\ Head(r) = "/")
      <3>1. \A i \in 1..Len(r) : r[i] # "/"
        <4>1. SUFFICES ASSUME NEW i \in 1..Len(r), r[i] = "/" PROVE FALSE
          OBVIOUS
        <4>2. i = 1 /\ r # <<>>
          BY <2>3, <4>1
        <4> QED BY <2>5, <4>1, <4>2
      <3> QED BY <2>2, <2>5, <3>1 DEF Contains
    <2> QED BY <2>4, <2>5
  <1> QED BY <1>1, <1>5, <1>9 DEF Asked, Shown

-----------------------------------------------------------------------------
(* What has been sent and what is left, as long as the index is the same.  *)

All(q) == EntriesOf(dirs, {k \in DOMAIN dirs : Shown(k, q)}, TRUE)
          \cup EntriesOf(files, {k \in DOMAIN files : Shown(k, q)}, FALSE)
SentOrLeft(a) == \A e \in All(a.q) : Times(e, a) = IF e \in Left(a) THEN 0 ELSE 1
AllSent(a) == Exists(a.q.path) => \A e \in All(a.q) : Times(e, a) = 1
Fits(a) ==
    /\ a.last \in Seq(Token) \cup {None} /\ (a.phase # "none" => a.q \in Queries)
    /\ a.phase = "asked" => a.stage = "dirs" /\ a.last = None /\ a.sent = <<>>
    /\ a.phase = "listing" /\ a.still => SentOrLeft(a)
    /\ a.phase = "finished" /\ a.still => AllSent(a)
Unused(c) ==
    /\ call[c].phase = "idle" => answer[c] = NoAnswer
    /\ answer[c].phase = "none" => wire[c] = <<>>
ListInv == IsFiniteSet(DOMAIN dirs) /\ \A c \in Call : Fits(answer[c]) /\ Unused(c)

LEMMA FitsKept ==
    ASSUME NEW a, Fits(a), UNCHANGED <<files, dirs>>
    PROVE  Fits(a)'
  BY DEF Fits, SentOrLeft, AllSent, All, Exists, Left, DirsLeft, FilesLeft

\* An answer that is no longer of one index, or was cut off.
LEMMA FitsAnyway ==
    ASSUME NEW a, a.last \in Seq(Token) \cup {None}, a.phase # "none" => a.q \in Queries,
           a.phase = "asked" => a.stage = "dirs" /\ a.last = None /\ a.sent = <<>>,
           ~a.still \/ a.phase \in {"none", "asked", "lost"}
    PROVE  Fits(a) /\ Fits(a)'
  BY DEF Fits

\* A step of one call and its answer leaves the others.
LEMMA OneListing ==
    ASSUME ListInv, UNCHANGED <<files, dirs>>, NEW c \in Call, DOMAIN answer = Call,
           NEW o, Fits(o)', answer' = [answer EXCEPT ![c] = o],
           \A b \in Call \ {c} : wire'[b] = wire[b] /\ call'[b] = call[b],
           call'[c].phase # "idle", o.phase # "none" \/ wire'[c] = <<>>
    PROVE  ListInv'
  <1>1. ASSUME NEW b \in Call \ {c} PROVE Fits(answer[b])' /\ Unused(b)'
    <2>1. Fits(answer[b]) /\ Unused(b)
      BY DEF ListInv
    <2>2. PICK a : a = answer[b]
      OBVIOUS
    <2>3. Fits(a)'
      BY <2>1, <2>2, FitsKept
    <2>4. answer'[b] = a
      BY <2>2
    <2> QED BY <2>1, <2>2, <2>3, <2>4 DEF Unused
  <1>2. Fits(answer[c])' /\ Unused(c)'
    <2>1. answer'[c] = o
      OBVIOUS
    <2> QED BY <2>1 DEF Unused
  <1> QED BY <1>1, <1>2 DEF ListInv

LEMMA LsOpenLists ==
    ASSUME IndexInv, RestTyped, ListInv, NEW c \in Call, LsOpen(c)
    PROVE  ListInv'
  <1>1. PICK M : ListsTyped(M)
    BY DEF RestTyped
  <1>2. /\ answer \in [Call -> AnswerOf(M)] /\ wire \in [Call -> Seq(M)] /\ UNCHANGED <<files, dirs, call>>
        /\ call \in [Call -> CallOf(M)]
    BY <1>1 DEF ListsTyped, AnswersTyped, WireTyped, CallsTyped, LsOpen, indexVars, trees
  <1>3. PICK a \in AnswerOf(M) : a = answer[c] /\ Fits(a) /\ a.phase = "asked"
    BY <1>2 DEF ListInv, LsOpen
  <1>4. call[c].phase # "idle"
    BY <1>3 DEF ListInv, Unused, NoAnswer
  <1>5. a.stage = "dirs" /\ a.last = None /\ a.sent = <<>> /\ a.q \in Queries
    BY <1>3 DEF Fits
  <1>6. CASE Exists(a.q.path)
    <2>1. PICK o : o = [a EXCEPT !.phase = "listing"]
      OBVIOUS
    <2>2. /\ o.phase = "listing" /\ o.stage = "dirs" /\ o.last = None /\ o.sent = <<>> /\ o.q = a.q
          /\ o.still = a.still
      BY <1>5, <2>1 DEF AnswerOf
    <2>3. Left(o) = All(o.q)
      BY <2>2 DEF Left, All, DirsLeft, FilesLeft, After
    <2>4. \A e : Times(e, o) = 0
      <3>1. SUFFICES ASSUME NEW e PROVE Times(e, o) = 0
        OBVIOUS
      <3>2. Len(<<>>) = 0 /\ 1..0 = {}
        OBVIOUS
      <3>3. SentAt(e, <<>>) = {}
        BY <3>2 DEF SentAt
      <3> QED BY <2>2, <3>3, FS_EmptySet DEF Times
    <2>5. Fits(o)
      BY <1>5, <2>2, <2>3, <2>4 DEF Fits, SentOrLeft
    <2>6. Fits(o)'
      BY <1>2, <2>5, FitsKept
    <2>7. answer' = [answer EXCEPT ![c] = o] /\ wire' = wire
      BY <1>2, <1>3, <1>6, <2>1 DEF LsOpen
    <2> QED BY <1>2, <1>4, <2>2, <2>6, <2>7, OneListing
  <1>7. CASE ~Exists(a.q.path)
    <2>1. PICK f : f = <<Failure>>
      OBVIOUS
    <2>2. PICK o : o = [a EXCEPT !.phase = "finished", !.sent = f]
      OBVIOUS
    <2>3. o.phase = "finished" /\ o.last = None /\ o.q = a.q
      BY <1>5, <2>2 DEF AnswerOf
    <2>4. Fits(o)
      BY <1>5, <1>7, <2>3 DEF Fits, AllSent
    <2>5. Fits(o)'
      BY <1>2, <2>4, FitsKept
    <2>6. answer' = [answer EXCEPT ![c] = o] /\ wire' = [wire EXCEPT ![c] = f]
      BY <1>2, <1>3, <1>7, <2>1, <2>2 DEF LsOpen
    <2> QED BY <1>2, <1>4, <2>3, <2>5, <2>6, OneListing
  <1> QED BY <1>6, <1>7

LEMMA LsChunkLists ==
    ASSUME IndexInv, SizesInv, RestTyped, ListInv, NEW c \in Call, LsChunk(c)
    PROVE  ListInv'
  <1>1. PICK M : ListsTyped(M)
    BY DEF RestTyped
  <1>2. /\ answer \in [Call -> AnswerOf(M)] /\ wire \in [Call -> Seq(M)] /\ UNCHANGED <<files, dirs, call>>
        /\ call \in [Call -> CallOf(M)]
    BY <1>1 DEF ListsTyped, AnswersTyped, WireTyped, CallsTyped, LsChunk, indexVars, trees
  <1>3. PICK a \in AnswerOf(M) : a = answer[c] /\ Fits(a) /\ a.phase = "listing"
    BY <1>2 DEF ListInv, LsChunk
  <1>4. call[c].phase # "idle"
    BY <1>3 DEF ListInv, Unused, NoAnswer
  <1>5. a.last \in Seq(Token) \cup {None} /\ a.q \in Queries /\ (a.still => SentOrLeft(a)) /\ a.sent \in Seq(M)
    BY <1>3 DEF Fits, AnswerOf
  <1>6. /\ DOMAIN dirs \subseteq Seq(Token) /\ DOMAIN files \subseteq Seq(Token)
        /\ IsFiniteSet(DOMAIN dirs) /\ IsFiniteSet(DOMAIN files)
    BY DEF IndexInv, IndexTyped, DirsTyped, FilesTyped, SizesInv, Shaped, ListInv
  <1>7. PICK m : m = Chunk(Remaining(a))
    OBVIOUS
  <1>8. /\ m \in Seq(Left(a)) /\ Len(m) \in 0..ChunkSize
        /\ \A i, j \in 1..Len(m) : m[i] = m[j] => i = j
        /\ m = <<>> => Left(a) = {}
        /\ m # <<>> => \A e : e \in Left(Advanced(a, m)) <=> e \in Left(a) /\ \A i \in 1..Len(m) : m[i] # e
    <2>1. Takes(a, m)
      BY <1>5, <1>6, <1>7, ChunkTakes
    <2> QED BY <2>1 DEF Takes
  <1>9. CASE m = <<>>
    <2>1. PICK o : o = [a EXCEPT !.phase = "finished"]
      OBVIOUS
    <2>2. o.phase = "finished" /\ o.last = a.last /\ o.q = a.q /\ o.still = a.still /\ o.sent = a.sent
      BY <2>1 DEF AnswerOf
    <2>3. ASSUME o.still PROVE AllSent(o)
      <3>1. SUFFICES ASSUME NEW e \in All(o.q) PROVE Times(e, o) = 1
        BY DEF AllSent
      <3>2. Times(e, a) = 1
        BY <1>5, <1>8, <1>9, <2>2, <2>3, <3>1 DEF SentOrLeft
      <3> QED BY <2>2, <3>2 DEF Times
    <2>4. Fits(o)
      BY <1>5, <2>2, <2>3 DEF Fits
    <2>5. Fits(o)'
      BY <1>2, <2>4, FitsKept
    <2>6. answer' = [answer EXCEPT ![c] = o] /\ wire' = wire
      BY <1>2, <1>3, <1>7, <1>9, <2>1 DEF LsChunk
    <2> QED BY <1>2, <1>4, <2>2, <2>5, <2>6, OneListing
  <1>10. CASE m # <<>>
    <2>1. PICK o : o = Advanced(a, m)
      OBVIOUS
    <2>2. /\ o.phase = "listing" /\ o.q = a.q /\ o.still = a.still /\ o.sent = Append(a.sent, Message(m))
          /\ (o.last = None \/ o.last = Last(m).name)
      BY <1>3, <2>1 DEF AnswerOf, Advanced
    <2>3. o.last \in Seq(Token) \cup {None}
      <3>1. Last(m) \in Left(a)
        BY <1>8, <1>10 DEF Last
      <3>2. \A e \in Left(a) : e.name \in DOMAIN dirs \/ e.name \in DOMAIN files
        BY DEF Left, EntriesOf, Entry, DirsLeft, FilesLeft, After
      <3> QED BY <1>6, <2>2, <3>1, <3>2
    <2>4. ASSUME o.still PROVE SentOrLeft(o)
      <3>1. SUFFICES ASSUME NEW e \in All(o.q) PROVE Times(e, o) = IF e \in Left(o) THEN 0 ELSE 1
        BY DEF SentOrLeft
      <3>2. Times(e, a) = IF e \in Left(a) THEN 0 ELSE 1
        BY <1>5, <2>2, <2>4, <3>1 DEF SentOrLeft
      <3>3. Times(e, o) = IF \E i \in 1..Len(m) : m[i] = e THEN Times(e, a) + 1 ELSE Times(e, a)
        <4>1. Cardinality(SentAt(e, Append(a.sent, Message(m))))
                = IF \E i \in 1..Len(m) : m[i] = e THEN Cardinality(SentAt(e, a.sent)) + 1
                  ELSE Cardinality(SentAt(e, a.sent))
          BY <1>5, <1>8, SentMore
        <4> QED BY <2>2, <4>1 DEF Times
      <3>4. CASE \E i \in 1..Len(m) : m[i] = e
        <4>1. e \in Left(a) /\ e \notin Left(o)
          BY <1>8, <1>10, <2>1, <3>4
        <4> QED BY <3>2, <3>3, <3>4, <4>1
      <3>5. CASE ~ \E i \in 1..Len(m) : m[i] = e
        <4>1. e \in Left(o) <=> e \in Left(a)
          BY <1>8, <1>10, <2>1, <3>5
        <4> QED BY <3>2, <3>3, <3>5, <4>1
      <3> QED BY <3>4, <3>5
    <2>5. Fits(o)
      BY <1>5, <2>2, <2>3, <2>4 DEF Fits
    <2>6. Fits(o)'
      BY <1>2, <2>5, FitsKept
    <2>7. PICK w : w = Append(wire[c], Message(m))
      OBVIOUS
    <2>8. answer' = [answer EXCEPT ![c] = o] /\ wire' = [wire EXCEPT ![c] = w]
      BY <1>2, <1>3, <1>7, <1>10, <2>1, <2>7 DEF LsChunk
    <2> QED BY <1>2, <1>4, <2>2, <2>6, <2>8, OneListing
  <1> QED BY <1>9, <1>10

LEMMA CallLists ==
    ASSUME IndexInv, RestTyped, ListInv, NEW c \in Call,
           \/ PostFiles(c) \/ Replay(c) \/ Forward(c) \/ StreamEnds(c) \/ PutCache(c)
           \/ ClientReads(c) \/ ClientEnds(c) \/ ClientCloses(c)
    PROVE  ListInv'
  <1>1. PICK M : ListsTyped(M)
    BY DEF RestTyped
  <1>2. /\ answer \in [Call -> AnswerOf(M)] /\ wire \in [Call -> Seq(M)] /\ call \in [Call -> CallOf(M)]
    BY <1>1 DEF ListsTyped, AnswersTyped, WireTyped, CallsTyped
  <1>3. UNCHANGED <<files, dirs>>
    BY DEF PostFiles, Replay, Forward, StreamEnds, PutCache, ClientReads, ClientEnds, ClientCloses, indexVars, trees
  <1>4. PICK a \in AnswerOf(M) : a = answer[c] /\ Fits(a)
    BY <1>2 DEF ListInv
  <1>5. \A b \in Call \ {c} : wire'[b] = wire[b] /\ call'[b] = call[b]
    BY <1>2 DEF PostFiles, Replay, Forward, StreamEnds, PutCache, ClientReads, ClientEnds, ClientCloses
  <1>6. call'[c].phase # "idle"
    <2>1. CASE PostFiles(c)
      <3>1. PICK q : \/ call' = [call EXCEPT ![c].phase = "failed", ![c].q = q]
                     \/ call' = [call EXCEPT ![c].phase = "replay", ![c].q = q, ![c].todo = cache[q]]
                     \/ call' = [call EXCEPT ![c].phase = "forward", ![c].q = q]
        BY <2>1 DEF PostFiles
      <3>2. PICK t : t = cache[q]
        OBVIOUS
      <3>3. PICK x \in CallOf(M) : x = call[c]
        BY <1>2
      <3>4. /\ [x EXCEPT !.phase = "failed", !.q = q].phase = "failed"
            /\ [x EXCEPT !.phase = "replay", !.q = q, !.todo = t].phase = "replay"
            /\ [x EXCEPT !.phase = "forward", !.q = q].phase = "forward"
        BY <3>3 DEF CallOf
      <3>5. CASE call' = [call EXCEPT ![c].phase = "failed", ![c].q = q]
        <4>1. call'[c] = [x EXCEPT !.phase = "failed", !.q = q]
          BY <1>2, <3>3, <3>5
        <4> QED BY <3>4, <4>1
      <3>6. CASE call' = [call EXCEPT ![c].phase = "replay", ![c].q = q, ![c].todo = cache[q]]
        <4>1. call'[c] = [x EXCEPT !.phase = "replay", !.q = q, !.todo = t]
          BY <1>2, <3>2, <3>3, <3>6
        <4> QED BY <3>4, <4>1
      <3>7. CASE call' = [call EXCEPT ![c].phase = "forward", ![c].q = q]
        <4>1. call'[c] = [x EXCEPT !.phase = "forward", !.q = q]
          BY <1>2, <3>3, <3>7
        <4> QED BY <3>4, <4>1
      <3> QED BY <3>1, <3>5, <3>6, <3>7
    <2>2. CASE Replay(c)
      BY <1>2, <2>2 DEF Replay, CallOf
    <2>3. CASE Forward(c)
      BY <1>2, <2>3 DEF Forward, CallOf
    <2>4. CASE StreamEnds(c) \/ PutCache(c) \/ ClientEnds(c)
      BY <1>2, <2>4 DEF StreamEnds, PutCache, ClientEnds, CallOf
    <2>5. CASE ClientReads(c)
      BY <1>2, <2>5 DEF ClientReads, Returned, CallOf
    <2>6. CASE ClientCloses(c)
      <3>1. call[c].phase \in {"replay", "forward"}
        BY <2>6 DEF ClientCloses
      <3>2. PICK x \in CallOf(M) : x = call[c]
        BY <1>2
      <3>3. call' = [call EXCEPT ![c] = [x EXCEPT !.ui = "closed", !.channel = <<>>,
                                                  !.phase = IF x.phase = "replay" THEN "done" ELSE x.phase]]
        BY <1>2, <2>6, <3>2 DEF ClientCloses
      <3> QED BY <1>2, <3>1, <3>2, <3>3 DEF CallOf
    <2> QED BY <2>1, <2>2, <2>3, <2>4, <2>5, <2>6
  <1>7. CASE answer' = answer
    <2>1. answer' = [answer EXCEPT ![c] = a] /\ Fits(a)'
      BY <1>2, <1>3, <1>4, <1>7, FitsKept
    <2>2. a.phase # "none" \/ wire'[c] = <<>>
      <3>1. a.phase = "none" => wire[c] = <<>>
        BY <1>4 DEF ListInv, Unused
      <3>2. wire[c] = <<>> => wire' = wire
        BY DEF PostFiles, Replay, Forward, StreamEnds, PutCache, ClientReads, ClientEnds, ClientCloses
      <3> QED BY <3>1, <3>2
    <2> QED BY <1>2, <1>3, <1>5, <1>6, <2>1, <2>2, OneListing
  <1>8. CASE answer' # answer
    <2>1. PostFiles(c)
      BY <1>8 DEF Replay, Forward, StreamEnds, PutCache, ClientReads, ClientEnds, ClientCloses
    <2>2. PICK q \in left.asks : answer' = [answer EXCEPT ![c].phase = "asked", ![c].q = q]
      BY <1>8, <2>1 DEF PostFiles
    <2>3. q \in Queries
      BY DEF RestTyped, LeftTyped
    <2>4. a = NoAnswer
      BY <1>4, <2>1 DEF ListInv, Unused, PostFiles
    <2>5. PICK o : o = [a EXCEPT !.phase = "asked", !.q = q]
      OBVIOUS
    <2>6. o.phase = "asked" /\ o.q = q /\ o.stage = "dirs" /\ o.last = None /\ o.sent = <<>>
      BY <2>4, <2>5 DEF NoAnswer
    <2>7. Fits(o)'
      BY <2>3, <2>6, FitsAnyway
    <2>8. answer' = [answer EXCEPT ![c] = o]
      BY <1>2, <1>4, <2>2, <2>5
    <2> QED BY <1>2, <1>3, <1>5, <1>6, <2>6, <2>7, <2>8, OneListing
  <1> QED BY <1>7, <1>8

\* The directories stay finite: a step of the index enters or removes one at a time.
LEMMA DirsFinite ==
    ASSUME IsFiniteSet(DOMAIN dirs), IndexNext
    PROVE  IsFiniteSet(DOMAIN dirs')
  <1>1. \A k, v : IsFiniteSet(DOMAIN Put(dirs, k, v))
    BY FS_AddElement DEF Put
  <1>2. \A k : IsFiniteSet(DOMAIN Drop(dirs, k))
    BY FS_Subset DEF Drop, Restrict
  <1>3. PICK s \in Slot : Scan(s) \/ RemoveShareDir(s) \/ IndexStep(s)
    BY DEF IndexNext
  <1>4. CASE Scan(s) \/ RemoveShareDir(s)
    BY <1>4 DEF Scan, RemoveShareDir, Begin, trees
  <1>5. CASE SubtractRoot(s)
    BY <1>1, <1>5 DEF SubtractRoot
  <1>6. CASE RemoveDirs(s)
    BY <1>2, <1>6 DEF RemoveDirs
  <1>7. CASE Merge(s)
    BY <1>1, <1>7 DEF Merge
  <1>8. CASE RemoveFiles(s) \/ RemoveName(s) \/ InsertName(s) \/ WalkTo(s) \/ InsertFile(s) \/ WalkEnds(s)
    BY <1>8 DEF RemoveFiles, RemoveName, InsertName, WalkTo, InsertFile, WalkEnds, trees
  <1> QED BY <1>3, <1>4, <1>5, <1>6, <1>7, <1>8 DEF IndexStep

LEMMA IndexLists ==
    ASSUME RestTyped, ListInv, IndexChanges
    PROVE  ListInv'
  <1>1. PICK M : ListsTyped(M)
    BY DEF RestTyped
  <1>2. answer \in [Call -> AnswerOf(M)] /\ UNCHANGED <<call, wire>>
    BY <1>1 DEF ListsTyped, AnswersTyped, IndexChanges
  <1>3. IsFiniteSet(DOMAIN dirs')
    BY DirsFinite DEF ListInv, IndexChanges
  <1>4. ASSUME NEW c \in Call PROVE Fits(answer[c])' /\ Unused(c)'
    <2>1. PICK a \in AnswerOf(M) : a = answer[c] /\ Fits(a) /\ Unused(c)
      BY <1>2 DEF ListInv
    <2>2. PICK o : o = IF a.phase = "none" THEN a ELSE [a EXCEPT !.still = FALSE]
      OBVIOUS
    <2>3. answer'[c] = o
      BY <1>2, <2>1, <2>2 DEF IndexChanges
    <2>4. /\ o.phase = a.phase /\ o.last = a.last /\ o.q = a.q /\ o.stage = a.stage /\ o.sent = a.sent
          /\ (a.phase = "none" \/ ~o.still)
      BY <2>2 DEF AnswerOf
    <2>5. Fits(o)'
      BY <2>1, <2>4, FitsAnyway DEF Fits
    <2>6. /\ call[c].phase = "idle" => o = NoAnswer
          /\ o.phase = "none" => wire[c] = <<>>
      BY <2>1, <2>2, <2>4 DEF Unused, NoAnswer
    <2> QED BY <1>2, <2>3, <2>5, <2>6 DEF Unused
  <1> QED BY <1>3, <1>4 DEF ListInv

LEMMA LoseLists ==
    ASSUME RestTyped, ListInv, LoseStreams, UNCHANGED <<files, dirs>>
    PROVE  ListInv'
  <1>1. PICK M : ListsTyped(M)
    BY DEF RestTyped
  <1>2. answer \in [Call -> AnswerOf(M)] /\ wire \in [Call -> Seq(M)] /\ UNCHANGED call
    BY <1>1 DEF ListsTyped, AnswersTyped, WireTyped, LoseStreams
  <1>3. PICK keep \in [Call -> 0..Window] :
         /\ \A c \in Call : keep[c] <= Len(wire[c])
         /\ wire' = [c \in Call |-> SubSeq(wire[c], 1, keep[c])]
         /\ answer' = [c \in Call |-> IF keep[c] < Len(wire[c]) THEN [answer[c] EXCEPT !.phase = "lost"]
                                      ELSE Lost(answer[c])]
    BY DEF LoseStreams
  <1>4. ASSUME NEW c \in Call PROVE Fits(answer[c])' /\ Unused(c)'
    <2>1. PICK a \in AnswerOf(M) : a = answer[c] /\ Fits(a) /\ Unused(c)
      BY <1>2 DEF ListInv
    <2>2. PICK cutOff : cutOff = [a EXCEPT !.phase = "lost"]
      OBVIOUS
    <2>3. PICK o : o = answer'[c]
      OBVIOUS
    <2>4. o = cutOff \/ (o = a /\ keep[c] >= Len(wire[c]))
      <3>1. keep[c] \in Nat /\ Len(wire[c]) \in Nat
        BY <1>2, LibraryAssumption
      <3>2. o = IF keep[c] < Len(wire[c]) THEN cutOff ELSE Lost(a)
        BY <1>3, <2>1, <2>2, <2>3
      <3>3. Lost(a) = IF a.phase \in {"asked", "listing"} THEN cutOff ELSE a
        BY <2>2 DEF Lost
      <3> QED BY <3>1, <3>2, <3>3
    <2>5. ASSUME a.phase = "none" PROVE o = a /\ wire'[c] = <<>>
      <3>1. wire[c] = <<>>
        BY <2>1, <2>5 DEF Unused
      <3>2. keep[c] = 0
        BY <1>3, <3>1, LibraryAssumption
      <3>3. wire'[c] = SubSeq(<<>>, 1, 0)
        BY <1>3, <3>1, <3>2
      <3>4. ~ (keep[c] < Len(wire[c]))
        BY <3>1, <3>2
      <3>5. o = Lost(a)
        BY <1>3, <2>1, <2>3, <3>4
      <3>6. o = a
        BY <2>5, <3>5 DEF Lost
      <3> QED BY <3>1, <3>3, <3>6
    <2>6. Fits(o)'
      <3>1. CASE o = cutOff
        <4>1. o.phase = "lost" /\ o.last = a.last /\ o.q = a.q
          BY <2>2, <3>1 DEF AnswerOf
        <4>2. a.phase # "none" \/ o = a
          BY <2>5
        <4> QED BY <2>1, <4>1, <4>2, FitsAnyway DEF Fits
      <3>2. CASE o = a
        BY <2>1, <3>2, FitsKept
      <3> QED BY <2>4, <3>1, <3>2
    <2>7. Unused(c)'
      <3>1. ASSUME call[c].phase = "idle" PROVE o = NoAnswer
        <4>1. a = NoAnswer /\ a.phase = "none"
          BY <2>1, <3>1 DEF Unused, NoAnswer
        <4> QED BY <2>5, <4>1
      <3>2. ASSUME o.phase = "none" PROVE wire'[c] = <<>>
        <4>1. cutOff.phase = "lost"
          BY <2>2 DEF AnswerOf
        <4>2. a.phase = "none"
          BY <2>4, <3>2, <4>1
        <4> QED BY <2>5, <4>2
      <3> QED BY <1>2, <2>3, <3>1, <3>2 DEF Unused
    <2> QED BY <2>3, <2>6, <2>7
  <1> QED BY <1>4 DEF ListInv

LEMMA ListKeeps ==
    ASSUME IndexInv, SizesInv, RestTyped, ListInv, [Next]_vars
    PROVE  ListInv'
  <1>1. ASSUME UNCHANGED <<files, dirs, call, answer, wire>> PROVE ListInv'
    <2>1. ASSUME NEW c \in Call PROVE Fits(answer[c])' /\ Unused(c)'
      <3>1. PICK a : a = answer[c] /\ Fits(a) /\ Unused(c)
        BY DEF ListInv
      <3>2. Fits(a)' /\ answer'[c] = a
        BY <1>1, <3>1, FitsKept
      <3> QED BY <1>1, <3>1, <3>2 DEF Unused
    <2> QED BY <1>1, <2>1 DEF ListInv
  <1>2. CASE UNCHANGED vars
    BY <1>1, <1>2 DEF vars, indexVars, trees, listVars
  <1>3. CASE IndexChanges
    BY <1>3, IndexLists
  <1>4. ASSUME NEW c \in Call, PostFiles(c) \/ CallStep(c) \/ ClientCloses(c) PROVE ListInv'
    BY <1>4, LsOpenLists, LsChunkLists, CallLists DEF CallStep
  <1>5. ASSUME NEW r \in Read, PostRead(r) \/ ReadStep(r) \/ ReaderStops(r) PROVE ListInv'
    <2>1. UNCHANGED <<files, dirs, call, answer, wire>>
      BY <1>5 DEF PostRead, ReadStep, ReaderStops, ServeRead, RefuseRead, UploadBlock, UploadEnds, UploadFails,
                  ReaderReads, ReaderEnds, listVars, indexVars, trees
    <2> QED BY <1>1, <2>1
  <1>6. CASE Lose \/ Restart
    <2>1. LoseStreams /\ UNCHANGED <<files, dirs>>
      BY <1>6 DEF Lose, Restart, Crash, indexVars, trees
    <2> QED BY <2>1, LoseLists
  <1>7. CASE Reconnect
    BY <1>1, <1>7 DEF Reconnect, listVars, indexVars, trees
  <1> QED BY <1>2, <1>3, <1>4, <1>5, <1>6, <1>7 DEF Next

LEMMA ListBegins ==
    ASSUME Init, IndexInv, SizesInv
    PROVE  ListInv
  <1>1. PICK x \in Sessions : IndexInit(x.shared)
    BY DEF Init
  <1>2. DOMAIN dirs = UNION {Ancestors(k) : k \in DOMAIN files}
    BY <1>1 DEF IndexInit, IndexedDirs
  <1>3. IsFiniteSet(DOMAIN dirs)
    <2>1. \A k \in DOMAIN files : IsFiniteSet(Ancestors(k))
      <3>1. SUFFICES ASSUME NEW k \in DOMAIN files PROVE IsFiniteSet(Ancestors(k))
        OBVIOUS
      <3>2. PICK P : P = {j \in 1..Len(k) : k[j] = "/"}
        OBVIOUS
      <3>3. k \in Seq(Token)
        BY DEF IndexInv, IndexTyped, FilesTyped
      <3>4. IsFiniteSet(P)
        <4>1. IsFiniteSet(1..Len(k))
          BY <3>3, FS_Interval
        <4> QED BY <3>2, <4>1, FS_Subset
      <3> DEFINE h == [i \in P |-> SubSeq(k, 1, i - 1)]
                 H == {SubSeq(k, 1, i - 1) : i \in P}
      <3>5. h \in Surjection(P, H)
        BY DEF Surjection
      <3>6. Ancestors(k) = H \cup {Root}
        BY <3>2 DEF Ancestors
      <3> HIDE DEF h, H
      <3>7. IsFiniteSet(H)
        BY <3>4, <3>5, FS_Surjection
      <3> QED BY <3>6, <3>7, FS_AddElement
    <2>2. PICK all : all = {Ancestors(k) : k \in DOMAIN files}
      OBVIOUS
    <2>3. IsFiniteSet(all)
      <3> DEFINE h == [k \in DOMAIN files |-> Ancestors(k)]
      <3>1. h \in Surjection(DOMAIN files, all)
        BY <2>2 DEF Surjection
      <3>2. IsFiniteSet(DOMAIN files)
        BY DEF SizesInv, Shaped
      <3> HIDE DEF h
      <3> QED BY <3>1, <3>2, FS_Surjection
    <2>4. \A T \in all : IsFiniteSet(T)
      BY <2>1, <2>2
    <2>5. IsFiniteSet(UNION all)
      BY <2>3, <2>4, FS_UNION
    <2> QED BY <1>2, <2>2, <2>5
  <1>4. \A c \in Call : answer[c] = NoAnswer /\ wire[c] = <<>>
    BY DEF Init
  <1>5. Fits(NoAnswer)
    BY FitsAnyway DEF NoAnswer
  <1> QED BY <1>3, <1>4, <1>5 DEF ListInv, Unused

\* An answer given while the index did not change holds every entry the query stands for
\* exactly once: what one message takes is what the next leaves out, across the switch
\* from the directories to the files (Shares::query, kv_filter_map, Chunker, Rpc::ls).
THEOREM ListingCorrect == Spec => []ListingComplete
  <1>1. ASSUME IndexInv, ListInv PROVE ListingComplete
    <2>1. SUFFICES ASSUME NEW c \in Call, answer[c].phase = "finished", answer[c].still,
                          Exists(answer[c].q.path), NEW e \in Expected(answer[c].q)
                   PROVE  Times(e, answer[c]) = 1
      BY DEF ListingComplete
    <2>2. PICK a : a = answer[c] /\ Fits(a)
      BY <1>1 DEF ListInv
    <2>3. AllSent(a) /\ a.q \in Queries
      BY <2>1, <2>2 DEF Fits
    <2>4. \A k \in DOMAIN dirs \cup DOMAIN files : Asked(k, a.q) => Shown(k, a.q)
      BY <1>1, <2>3, AskedShown DEF IndexInv, IndexTyped, DirsTyped, FilesTyped
    <2>5. e \in All(a.q)
      BY <2>1, <2>2, <2>4 DEF Expected, All, EntriesOf
    <2> QED BY <2>1, <2>2, <2>3, <2>5 DEF AllSent
  <1> QED BY <1>1, ListBegins, ListKeeps, SizesAlways, RestAlways, PTL DEF Spec
=============================================================================
