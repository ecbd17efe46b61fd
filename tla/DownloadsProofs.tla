-------------------------- MODULE DownloadsProofs --------------------------
(***************************************************************************)
(* Proofs about Downloads, for any requests, files, sizes, connections and *)
(* bounds.                                                                 *)
(***************************************************************************)
EXTENDS Downloads, Sums, TLAPS

USE DownloadsAssumption DEF DownloadsAssumption

-----------------------------------------------------------------------------
(* Types *)

TreesOK == db \in Trees /\ durable \in Trees
FilesOK == disk \in [File -> Seq(Nat)]
AskOK == /\ now \in Second
         /\ askPc \in [Request -> {"idle", "record", "queue", "file", "done"}]
         /\ askStamp \in [Request -> Second]
         /\ askTodo \in [Request -> SUBSET File]
StreamOK == /\ connOpen \in [Conn -> BOOLEAN]
            /\ cursor \in [Conn -> Nat \X Nat]
            /\ events \in [Conn -> Seq(Entry)]
            /\ backlog \in [Conn -> BOOLEAN]
WorkOK == /\ pc \in [Conn -> WorkerPhase]
          /\ item \in [Conn -> Entry \cup {None}]
          /\ got \in [Conn -> Nat]
          /\ sum \in [Conn -> Nat]
          /\ \A c \in Conn : (pc[c] \in Fetching) = (item[c] # None)
          /\ \A c \in Conn : got[c] <= IF item[c] = None THEN 0 ELSE Size[item[c].file]
BoundsOK == /\ completed \in SUBSET Request
            /\ errors \in 0..MaxErrors
            /\ crashes \in 0..MaxCrashes

TypeParts == TreesOK /\ FilesOK /\ AskOK /\ StreamOK /\ WorkOK /\ BoundsOK

LEMMA TypeSplit == TypeOK <=> TypeParts
BY DEF TypeOK, TypeParts, TreesOK, FilesOK, AskOK, StreamOK, WorkOK, BoundsOK

LEMMA NoneIsNoEntry == None \notin Entry
BY DEF Entry

LEMMA InitTypes == Init => TypeOK
<1> SUFFICES ASSUME Init PROVE TypeParts
    BY TypeSplit
<1> USE DEF Init
<1>1. TreesOK
      BY DEF TreesOK, Empty, Trees
<1>2. FilesOK /\ AskOK /\ StreamOK /\ WorkOK /\ BoundsOK
      BY DEF FilesOK, AskOK, StreamOK, WorkOK, BoundsOK, WorkerPhase, Fetching
<1> QED
    BY <1>1, <1>2 DEF TypeParts

\* The parts an action does not touch keep their types.
LEMMA KeptTypes ==
    ASSUME TypeParts
    PROVE  /\ UNCHANGED <<db, durable>> => TreesOK'
           /\ UNCHANGED disk => FilesOK'
           /\ UNCHANGED <<now, askVars>> => AskOK'
           /\ UNCHANGED <<connOpen, streamVars>> => StreamOK'
           /\ UNCHANGED <<pc, fileVars>> => WorkOK'
           /\ UNCHANGED <<completed, boundVars>> => BoundsOK'
BY DEF TypeParts, TreesOK, FilesOK, AskOK, StreamOK, WorkOK, BoundsOK, askVars,
       streamVars, fileVars, boundVars

LEMMA AskTypes ==
    ASSUME AskOK, UNCHANGED <<now, askStamp, askTodo>>,
           NEW r \in Request, NEW p \in {"record", "queue", "file", "done"}, AskGoto(r, p)
    PROVE  AskOK'
BY DEF AskOK, AskGoto

\* A worker goes on with the file it has, is given one, or has none.
LEMMA GotoTypes ==
    ASSUME WorkOK, UNCHANGED fileVars, NEW c \in Conn,
           NEW p \in WorkerPhase, (p \in Fetching) = (pc[c] \in Fetching), Goto(c, p)
    PROVE  WorkOK'
BY DEF WorkOK, Goto, fileVars

LEMMA TakeTypes ==
    ASSUME WorkOK, NEW c \in Conn, NEW e \in Entry, pc[c] = "next", Take(c, e)
    PROVE  WorkOK'
<1>1. e # None /\ Size[e.file] \in Nat /\ got[c] = 0
      BY NoneIsNoEntry DEF WorkOK, Fetching, Entry
<1> QED
    BY <1>1 DEF WorkOK, Take, Goto, WorkerPhase, Fetching

LEMMA PutTypes ==
    ASSUME WorkOK, NEW c \in Conn, NEW p \in {"next", "done"}, Put(c, p)
    PROVE  WorkOK'
BY DEF WorkOK, Put, Goto, WorkerPhase, Fetching

LEMMA StopTypes ==
    ASSUME WorkOK, StreamOK, UNCHANGED connOpen, NEW c \in Conn, Stop(c)
    PROVE  WorkOK' /\ StreamOK'
BY PutTypes DEF Stop, StreamOK

LEMMA FailTypes ==
    ASSUME WorkOK, StreamOK, UNCHANGED connOpen, NEW c \in Conn, Fail(c)
    PROVE  WorkOK' /\ StreamOK'
BY PutTypes, StopTypes DEF Fail, StreamOK, streamVars

LEMMA ReceivedTypes ==
    ASSUME WorkOK, StreamOK, UNCHANGED connOpen, NEW c \in Conn, pc[c] = "read", Received(c)
    PROVE  WorkOK' /\ StreamOK'
<1>1. WorkOK'
      BY GotoTypes DEF Received, Fetching, WorkerPhase
<1>2. StreamOK'
      BY DEF Received, StreamOK, streamVars
<1> QED
    BY <1>1, <1>2

\* A worker with a file in hand has an entry, whose request and file are known.
LEMMA InHand ==
    ASSUME WorkOK, NEW c \in Conn, pc[c] \in Fetching
    PROVE  /\ item[c] \in Entry /\ item[c].req \in Request /\ FileOf(c) \in File
           /\ item[c].at \in Second /\ Size[FileOf(c)] \in Nat
BY DEF WorkOK, FileOf, Entry

LEMMA StepTypes == TypeOK /\ [Next]_vars => TypeOK'
<1> SUFFICES ASSUME TypeParts, [Next]_vars PROVE TypeParts'
    BY DEF TypeOK, TypeParts, TreesOK, FilesOK, AskOK, StreamOK, WorkOK, BoundsOK
<1> USE KeptTypes DEF TypeParts, workVars
<1>1. ASSUME NEW r \in Request, Ask(r) PROVE TypeParts'
  <2>1. AskOK'
        BY <1>1 DEF Ask, AskOK, AskGoto
  <2> QED
      BY <1>1, <2>1 DEF Ask
<1>2. ASSUME NEW r \in Request, AddRequest(r) PROVE TypeParts'
  <2>1. askStamp[r] \in Second
        BY DEF AskOK
  <2>2. TreesOK'
        BY <1>2, <2>1 DEF AddRequest, TreesOK, Trees
  <2>3. AskOK'
        BY <1>2, AskTypes DEF AddRequest
  <2> QED
      BY <1>2, <2>2, <2>3 DEF AddRequest
<1>3. ASSUME NEW r \in Request, QueueFile(r) PROVE TypeParts'
  <2>1. PICK e \in Entry :
          /\ db' = [db EXCEPT !.queue = {g \in @ : ~SameKey(e, g)} \cup {e}]
          /\ events' = [c \in Conn |->
               IF pc[c] \in {"unused", "subscribe", "done"} THEN events[c]
               ELSE Append(events[c], e)]
        BY <1>3 DEF QueueFile
  <2>2. TreesOK'
        BY <1>3, <2>1 DEF QueueFile, TreesOK, Trees
  <2>3. AskOK'
        BY <1>3, AskTypes DEF QueueFile
  <2>4. StreamOK'
        BY <1>3, <2>1 DEF QueueFile, StreamOK
  <2> QED
      BY <1>3, <2>2, <2>3, <2>4 DEF QueueFile
<1>4. ASSUME NEW r \in Request, RecordFile(r) PROVE TypeParts'
  <2>1. PICK f \in File :
          /\ db' = [db EXCEPT !.files[r][f] = "wanted"]
          /\ askTodo' = [askTodo EXCEPT ![r] = @ \ {f}]
        BY <1>4 DEF RecordFile
  <2>2. TreesOK'
        BY <1>4, <2>1 DEF RecordFile, TreesOK, Trees
  <2>3. AskOK'
        BY <1>4, <2>1 DEF RecordFile, AskOK, AskGoto
  <2> QED
      BY <1>4, <2>2, <2>3 DEF RecordFile
<1>5. ASSUME NEW r \in Request, EndAsk(r) PROVE TypeParts'
  <2>1. AskOK'
        BY <1>5, AskTypes DEF EndAsk
  <2> QED
      BY <1>5, <2>1 DEF EndAsk
<1>6. ASSUME NEW c \in Conn, Connect(c) PROVE TypeParts'
  <2>1. StreamOK'
        BY <1>6 DEF Connect, StreamOK, streamVars
  <2>2. WorkOK'
        BY <1>6 DEF Connect, WorkOK, WorkerPhase, Fetching, fileVars
  <2> QED
      BY <1>6, <2>1, <2>2 DEF Connect
<1>7. ASSUME NEW c \in Conn, Close(c) PROVE TypeParts'
  <2>1. StreamOK'
        BY <1>7 DEF Close, StreamOK, streamVars
  <2> QED
      BY <1>7, <2>1 DEF Close
<1>8. ASSUME NEW c \in Conn, Subscribe(c) PROVE TypeParts'
  <2>1. StreamOK'
        BY <1>8 DEF Subscribe, StreamOK, YieldsBacklog
  <2>2. WorkOK'
        BY <1>8, GotoTypes DEF Subscribe, WorkerPhase, Fetching
  <2> QED
      BY <1>8, <2>1, <2>2 DEF Subscribe
<1>9. ASSUME NEW c \in Conn, YieldQueued(c) PROVE TypeParts'
  <2>1. PICK e \in Ahead(c) :
          IF MayFetch(c, e)
          THEN /\ Take(c, e)
               /\ cursor' = [cursor EXCEPT ![c] = <<e.at, e.file>>]
               /\ UNCHANGED <<events, backlog>>
          ELSE Stop(c)
        BY <1>9 DEF YieldQueued
  <2>2. e \in Entry
        BY <2>1 DEF Ahead, TreesOK, Trees
  <2>3. <<e.at, e.file>> \in Nat \X Nat
        BY <2>2 DEF Entry
  <2>4. CASE MayFetch(c, e)
    <3>1. WorkOK'
          BY <1>9, <2>1, <2>2, <2>4, TakeTypes DEF YieldQueued
    <3>2. StreamOK'
          BY <1>9, <2>1, <2>3, <2>4 DEF YieldQueued, StreamOK
    <3> QED
        BY <1>9, <3>1, <3>2 DEF YieldQueued
  <2>5. CASE ~MayFetch(c, e)
        BY <1>9, <2>1, <2>5, StopTypes DEF YieldQueued
  <2> QED
      BY <2>4, <2>5
<1>10. ASSUME NEW c \in Conn, EndBacklog(c) PROVE TypeParts'
  <2>1. StreamOK'
        BY <1>10 DEF EndBacklog, StreamOK
  <2> QED
      BY <1>10, <2>1 DEF EndBacklog
<1>11. ASSUME NEW c \in Conn, YieldInserted(c) PROVE TypeParts'
  <2>1. Head(events[c]) \in Entry /\ Tail(events[c]) \in Seq(Entry)
        BY <1>11 DEF YieldInserted, StreamOK
  <2>2. CASE MayFetch(c, Head(events[c]))
    <3>1. WorkOK'
          BY <1>11, <2>1, <2>2, TakeTypes DEF YieldInserted
    <3>2. StreamOK'
          BY <1>11, <2>1, <2>2 DEF YieldInserted, StreamOK
    <3> QED
        BY <1>11, <3>1, <3>2 DEF YieldInserted
  <2>3. CASE ~MayFetch(c, Head(events[c]))
        BY <1>11, <2>3, StopTypes DEF YieldInserted
  <2> QED
      BY <2>2, <2>3
<1>12. ASSUME NEW c \in Conn, SetupDownload(c) PROVE TypeParts'
  <2>1. FileOf(c) \in File /\ Size[FileOf(c)] \in Nat /\ item[c] # None
        BY <1>12, InHand DEF SetupDownload, WorkOK, Fetching
  <2>2. StartOffset(c) \in Nat /\ StartOffset(c) <= Size[FileOf(c)]
        BY <2>1 DEF StartOffset, FilesOK
  <2>3. CASE Fail(c)
        BY <1>12, <2>3, FailTypes DEF SetupDownload
  <2>4. CASE ~Fail(c)
    <3>1. PICK p \in {"dequeue", "read"} : Goto(c, p)
          BY <1>12, <2>4 DEF SetupDownload
    <3>2. WorkOK'
          BY <1>12, <2>1, <2>2, <2>4, <3>1
          DEF SetupDownload, Goto, WorkOK, FileOf, WorkerPhase, Fetching
    <3> QED
        BY <1>12, <2>4, <3>2 DEF SetupDownload
  <2> QED
      BY <2>3, <2>4
<1>13. ASSUME NEW c \in Conn, Receive(c) PROVE TypeParts'
  <2>1. FileOf(c) \in File /\ Size[FileOf(c)] \in Nat /\ item[c] # None
        BY <1>13, InHand DEF Receive, WorkOK, Fetching
  <2>2. FilesOK'
        BY <1>13, <2>1 DEF Receive, FilesOK, WorkOK
  <2>3. WorkOK'
        BY <1>13, <2>1 DEF Receive, WorkOK, FileOf
  <2> QED
      BY <1>13, <2>2, <2>3 DEF Receive
<1>14. ASSUME NEW c \in Conn, EndStream(c) PROVE TypeParts'
      BY <1>14, FailTypes, ReceivedTypes DEF EndStream
<1>15. ASSUME NEW c \in Conn, ReadError(c) PROVE TypeParts'
  <2>1. FileOf(c) \in File
        BY <1>15, InHand DEF ReadError, Fetching
  <2>2. \/ UNCHANGED disk
        \/ disk' = [disk EXCEPT ![FileOf(c)] = Append(@, 0)]
        BY <1>15 DEF ReadError
  <2>3. FilesOK'
    <3>1. disk[FileOf(c)] \in Seq(Nat)
          BY <2>1 DEF FilesOK
    <3>2. Append(disk[FileOf(c)], 0) \in Seq(Nat)
          BY <3>1
    <3> QED
        BY <2>1, <2>2, <3>2 DEF FilesOK
  <2>4. WorkOK' /\ StreamOK'
    <3>1. Received(c) \/ Fail(c)
          BY <1>15 DEF ReadError
    <3>2. pc[c] = "read" /\ UNCHANGED connOpen
          BY <1>15 DEF ReadError
    <3>3. CASE Received(c)
          BY <3>2, <3>3, ReceivedTypes
    <3>4. CASE Fail(c)
          BY <3>2, <3>4, FailTypes
    <3> QED
        BY <3>1, <3>3, <3>4
  <2>5. BoundsOK'
        BY <1>15 DEF ReadError, BoundsOK
  <2> QED
      BY <1>15, <2>3, <2>4, <2>5 DEF ReadError
<1>16. ASSUME NEW c \in Conn, Dequeue(c) PROVE TypeParts'
  <2>1. TreesOK'
        BY <1>16 DEF Dequeue, TreesOK, Trees
  <2>2. WorkOK'
        BY <1>16, GotoTypes DEF Dequeue, WorkerPhase, Fetching
  <2> QED
      BY <1>16, <2>1, <2>2 DEF Dequeue
<1>17. ASSUME NEW c \in Conn, Count(c) PROVE TypeParts'
  <2>1. db.progress[item[c].req] \in Nat /\ Size[FileOf(c)] \in Nat
        BY <1>17, InHand DEF Count, Fetching, TreesOK, Trees
  <2>2. WorkOK'
        BY <1>17, <2>1 DEF Count, UpdatedBytes, Goto, WorkOK, WorkerPhase, Fetching
  <2> QED
      BY <1>17, <2>2 DEF Count
<1>18. ASSUME NEW c \in Conn, SaveProgress(c) PROVE TypeParts'
  <2>1. item[c].req \in Request /\ sum[c] \in Nat
        BY <1>18, InHand DEF SaveProgress, Fetching, WorkOK
  <2>2. TreesOK'
        BY <1>18, <2>1 DEF SaveProgress, TreesOK, Trees
  <2>3. WorkOK'
        BY <1>18, GotoTypes DEF SaveProgress, WorkerPhase, Fetching
  <2> QED
      BY <1>18, <2>2, <2>3 DEF SaveProgress
<1>19. ASSUME NEW c \in Conn, MarkDownloaded(c) PROVE TypeParts'
  <2>1. item[c].req \in Request /\ FileOf(c) \in File
        BY <1>19, InHand DEF MarkDownloaded, Fetching
  <2>2. TreesOK'
        BY <1>19, <2>1 DEF MarkDownloaded, TreesOK, Trees
  <2>3. WorkOK'
        BY <1>19, PutTypes DEF MarkDownloaded
  <2>4. BoundsOK'
        BY <1>19, <2>1 DEF MarkDownloaded, BoundsOK, boundVars
  <2> QED
      BY <1>19, <2>2, <2>3, <2>4 DEF MarkDownloaded
<1>20. ASSUME Tick PROVE TypeParts'
  <2>1. AskOK'
        BY <1>20 DEF Tick, AskOK, askVars
  <2> QED
      BY <1>20, <2>1 DEF Tick
<1>21. ASSUME Flush PROVE TypeParts'
  <2>1. TreesOK'
        BY <1>21 DEF Flush, TreesOK
  <2> QED
      BY <1>21, <2>1 DEF Flush
<1>22. ASSUME Crash PROVE TypeParts'
  <2>1. TreesOK' /\ AskOK'
        BY <1>22 DEF Crash, TreesOK, AskOK
  <2>2. StreamOK'
        BY <1>22 DEF Crash, StreamOK
  <2>3. WorkOK'
        BY <1>22 DEF Crash, WorkOK, WorkerPhase, Fetching
  <2>4. BoundsOK'
        BY <1>22 DEF Crash, BoundsOK
  <2> QED
      BY <1>22, <2>1, <2>2, <2>3, <2>4 DEF Crash
<1>23. CASE UNCHANGED vars
      BY <1>23 DEF vars
<1> QED
    BY <1>1, <1>2, <1>3, <1>4, <1>5, <1>6, <1>7, <1>8, <1>9, <1>10, <1>11, <1>12,
       <1>13, <1>14, <1>15, <1>16, <1>17, <1>18, <1>19, <1>20, <1>21, <1>22, <1>23
    DEF Next, AskStep, WorkerStep, StreamStep, FetchStep, CompleteStep, EnvironmentStep

\* TypeOK holds in every reachable state: what the trees, the workers and the
\* download calls hold has its type, and no worker counts more bytes of a file
\* than the file has (peer.rs, download and setup_download).
THEOREM TypeCorrect == Spec => []TypeOK
BY InitTypes, StepTypes, PTL DEF Spec

-----------------------------------------------------------------------------
(* Requests *)

\* A file is queued only after its request was recorded.
Recorded == \A r \in Request : askPc[r] \in {"queue", "file"} => r \in db.requests
TreesKnown == /\ \A e \in db.queue : e.req \in db.requests
              /\ \A e \in durable.queue : e.req \in durable.requests
HandsKnown == \A c \in Conn : pc[c] \in Fetching => item[c].req \in db.requests

KnownInv == TreesKnown /\ HandsKnown /\ Recorded

\* A worker keeps its file, drops it, or is given one whose request it has seen.
LEMMA HandsStayKnown ==
    ASSUME WorkOK, HandsKnown, db.requests \subseteq db'.requests, NEW c \in Conn,
           \/ UNCHANGED item /\ \E p \in WorkerPhase :
                Goto(c, p) /\ (p \in Fetching => pc[c] \in Fetching)
           \/ \E p \in {"next", "done"} : Put(c, p)
           \/ \E e \in Entry : Take(c, e) /\ e.req \in db.requests
    PROVE  HandsKnown'
<1>1. CASE UNCHANGED item /\ \E p \in WorkerPhase :
                Goto(c, p) /\ (p \in Fetching => pc[c] \in Fetching)
      BY <1>1 DEF HandsKnown, WorkOK, Goto
<1>2. CASE \E p \in {"next", "done"} : Put(c, p)
      BY <1>2 DEF HandsKnown, WorkOK, Put, Goto, Fetching
<1>3. CASE \E e \in Entry : Take(c, e) /\ e.req \in db.requests
      BY <1>3 DEF HandsKnown, WorkOK, Take, Goto
<1> QED
    BY <1>1, <1>2, <1>3

LEMMA FailPuts ==
    ASSUME NEW c \in Conn, Fail(c)
    PROVE  \E p \in {"next", "done"} : Put(c, p)
BY DEF Fail, Stop

LEMMA KnownStep == TypeParts /\ KnownInv /\ [Next]_vars => KnownInv'
<1> SUFFICES ASSUME TypeParts, KnownInv, [Next]_vars PROVE KnownInv'
    OBVIOUS
<1> USE DEF TypeParts, KnownInv
<1>1. ASSUME UNCHANGED <<db, durable, pc, item>>,
             \A r \in Request : askPc'[r] \in {"queue", "file"} => askPc[r] \in {"queue", "file"}
      PROVE  KnownInv'
      BY <1>1 DEF TreesKnown, HandsKnown, Recorded
<1>2. ASSUME NEW r \in Request, Ask(r) PROVE KnownInv'
      BY <1>1, <1>2 DEF Ask, AskGoto, AskOK, workVars, fileVars
<1>3. ASSUME NEW r \in Request, AddRequest(r) PROVE KnownInv'
  <2>1. db'.requests = db.requests \cup {r} /\ db'.queue = db.queue /\ UNCHANGED durable
        BY <1>3 DEF AddRequest, TreesOK, Trees
  <2>2. TreesKnown' /\ HandsKnown'
        BY <1>3, <2>1 DEF AddRequest, TreesKnown, HandsKnown, workVars, fileVars
  <2>3. Recorded'
        BY <1>3, <2>1 DEF AddRequest, Recorded, AskGoto, AskOK
  <2> QED
      BY <2>2, <2>3
<1>4. ASSUME NEW r \in Request, QueueFile(r) PROVE KnownInv'
  <2>1. PICK e \in Entry :
          e.req = r /\ db' = [db EXCEPT !.queue = {g \in @ : ~SameKey(e, g)} \cup {e}]
        BY <1>4 DEF QueueFile
  <2>2. /\ db'.requests = db.requests /\ db'.queue \subseteq db.queue \cup {e}
        /\ UNCHANGED durable
        BY <1>4, <2>1 DEF QueueFile, TreesOK, Trees
  <2>3. r \in db.requests
        BY <1>4 DEF QueueFile, Recorded
  <2>4. TreesKnown'
        BY <2>1, <2>2, <2>3 DEF TreesKnown
  <2>5. HandsKnown'
        BY <1>4, <2>2 DEF QueueFile, HandsKnown, fileVars
  <2>6. Recorded'
        BY <1>4, <2>2, <2>3 DEF QueueFile, Recorded, AskGoto, AskOK
  <2> QED
      BY <2>4, <2>5, <2>6
<1>5. ASSUME NEW r \in Request, RecordFile(r) PROVE KnownInv'
  <2>1. db'.requests = db.requests /\ db'.queue = db.queue /\ UNCHANGED durable
        BY <1>5 DEF RecordFile, TreesOK, Trees
  <2>2. TreesKnown' /\ HandsKnown'
        BY <1>5, <2>1 DEF RecordFile, TreesKnown, HandsKnown, workVars, fileVars
  <2>3. Recorded'
        BY <1>5, <2>1 DEF RecordFile, Recorded, AskGoto, AskOK
  <2> QED
      BY <2>2, <2>3
<1>6. ASSUME NEW r \in Request, EndAsk(r) PROVE KnownInv'
      BY <1>1, <1>6 DEF EndAsk, AskGoto, AskOK, workVars, fileVars
<1>7. ASSUME NEW c \in Conn, Connect(c) PROVE KnownInv'
      BY <1>7 DEF Connect, TreesKnown, HandsKnown, Recorded, askVars, fileVars, Fetching, WorkOK
<1>8. ASSUME NEW c \in Conn, Close(c) \/ EndBacklog(c) PROVE KnownInv'
      BY <1>1, <1>8 DEF Close, EndBacklog, askVars, workVars, fileVars

\* The steps of a worker that leave the trees as they are.
<1>9. ASSUME NEW c \in Conn, UNCHANGED <<db, durable, askVars>>,
             \/ UNCHANGED item /\ \E p \in WorkerPhase :
                  Goto(c, p) /\ (p \in Fetching => pc[c] \in Fetching)
             \/ \E p \in {"next", "done"} : Put(c, p)
             \/ \E e \in Entry : Take(c, e) /\ e.req \in db.requests
      PROVE  KnownInv'
  <2>1. HandsKnown'
        BY <1>9, HandsStayKnown
  <2>2. TreesKnown' /\ Recorded'
        BY <1>9 DEF TreesKnown, Recorded, askVars
  <2> QED
      BY <2>1, <2>2
<1>10. ASSUME NEW c \in Conn, Subscribe(c) PROVE KnownInv'
       BY <1>9, <1>10 DEF Subscribe, WorkerPhase, Fetching, fileVars
<1>11. ASSUME NEW c \in Conn, YieldQueued(c) \/ YieldInserted(c) PROVE KnownInv'
  <2>1. PICK e \in Entry : IF MayFetch(c, e) THEN Take(c, e) ELSE Stop(c)
    <3>1. CASE YieldQueued(c)
          BY <3>1 DEF YieldQueued, Ahead, TreesOK, Trees
    <3>2. CASE YieldInserted(c)
      <4>1. Head(events[c]) \in Entry
            BY <3>2 DEF YieldInserted, StreamOK
      <4> QED
          BY <3>2, <4>1 DEF YieldInserted
    <3> QED
        BY <1>11, <3>1, <3>2
  <2>2. UNCHANGED <<db, durable, askVars>>
        BY <1>11 DEF YieldQueued, YieldInserted
  <2> QED
      BY <1>9, <2>1, <2>2 DEF MayFetch, Stop
<1>12. ASSUME NEW c \in Conn, SetupDownload(c) PROVE KnownInv'
       BY <1>9, <1>12, FailPuts DEF SetupDownload, WorkerPhase, Fetching
<1>13. ASSUME NEW c \in Conn, Receive(c) PROVE KnownInv'
       BY <1>1, <1>13 DEF Receive, askVars
<1>14. ASSUME NEW c \in Conn, EndStream(c) \/ ReadError(c) PROVE KnownInv'
  <2>1. pc[c] = "read" /\ UNCHANGED <<db, durable, askVars>> /\ (Received(c) \/ Fail(c))
        BY <1>14 DEF EndStream, ReadError
  <2> QED
      BY <1>9, <2>1, FailPuts DEF Received, WorkerPhase, Fetching, fileVars
<1>15. ASSUME NEW c \in Conn, Count(c) PROVE KnownInv'
       BY <1>9, <1>15 DEF Count, WorkerPhase, Fetching

\* The steps of a worker that change the trees forget no request.
<1>16. ASSUME NEW c \in Conn, Dequeue(c) \/ SaveProgress(c) \/ MarkDownloaded(c)
       PROVE  KnownInv'
  <2>1. db'.requests = db.requests /\ db'.queue \subseteq db.queue /\ UNCHANGED durable
    <3>1. CASE Dequeue(c)
          BY <3>1 DEF Dequeue, TreesOK, Trees
    <3>2. CASE SaveProgress(c)
          BY <3>2 DEF SaveProgress, TreesOK, Trees
    <3>3. CASE MarkDownloaded(c)
          BY <3>3 DEF MarkDownloaded, TreesOK, Trees
    <3> QED
        BY <1>16, <3>1, <3>2, <3>3
  <2>2. HandsKnown'
        BY <1>16, <2>1, HandsStayKnown
        DEF Dequeue, SaveProgress, MarkDownloaded, WorkerPhase, Fetching, fileVars
  <2>3. TreesKnown' /\ Recorded'
        BY <1>16, <2>1 DEF Dequeue, SaveProgress, MarkDownloaded, TreesKnown, Recorded, askVars
  <2> QED
      BY <2>2, <2>3
<1>17. CASE Tick
       BY <1>1, <1>17 DEF Tick, askVars, workVars, fileVars
<1>18. CASE Flush
       BY <1>18 DEF Flush, TreesKnown, HandsKnown, Recorded, askVars, workVars, fileVars
<1>19. CASE Crash
       BY <1>19 DEF Crash, TreesKnown, HandsKnown, Recorded, AskOK, Fetching
<1>20. CASE UNCHANGED vars
       BY <1>1, <1>20 DEF vars, askVars, workVars, fileVars
<1> QED
    BY <1>2, <1>3, <1>4, <1>5, <1>6, <1>7, <1>8, <1>10, <1>11, <1>12, <1>13, <1>14, <1>15,
       <1>16, <1>17, <1>18, <1>19, <1>20
    DEF Next, AskStep, WorkerStep, StreamStep, FetchStep, CompleteStep, EnvironmentStep

\* No worker ever has a file of a request that is not on record, so none stops
\* for want of one, wherever a crash falls (peer.rs, process_requests).
THEOREM RequestsKnown == Spec => []QueuedIsKnown
<1>1. Init => KnownInv
      BY DEF Init, Empty, KnownInv, TreesKnown, HandsKnown, Recorded, Fetching
<1>2. TypeOK /\ KnownInv /\ [Next]_vars => KnownInv'
      BY TypeSplit, KnownStep
<1>3. KnownInv => QueuedIsKnown
      BY DEF KnownInv, TreesKnown, HandsKnown, QueuedIsKnown
<1> QED
    BY <1>1, <1>2, <1>3, TypeCorrect, PTL DEF Spec

-----------------------------------------------------------------------------
(* Files *)

Arrived(f) == Len(disk[f]) >= Size[f]
Queued(trees, f) == \E e \in trees.queue : e.file = f
Asked(trees, f) == \E r \in Request : trees.files[r][f] # "none"

\* What is in a tree and not queued has arrived, in memory and at the last
\* flush; so has what is in the hands of a worker past the end of the stream, and
\* what a download call has queued and not recorded yet.
TreesReceived ==
    \A f \in File : /\ Asked(db, f) => Queued(db, f) \/ Arrived(f)
                    /\ Asked(durable, f) => Queued(durable, f) \/ Arrived(f)
HandsReceived ==
    \A c \in Conn :
        /\ pc[c] \in {"dequeue", "count", "save", "mark"} => Arrived(FileOf(c))
        /\ pc[c] = "read" => got[c] <= Len(disk[FileOf(c)])
NextQueued ==
    \A r \in Request, f \in File :
        askPc[r] = "file" /\ IsNext(r, f) => Queued(db, f) \/ Arrived(f)

ReceivedInv == TreesReceived /\ HandsReceived /\ NextQueued

\* Files on disk only grow.
LengthGrows(f) == /\ Len(disk[f]) \in Nat /\ Len(disk'[f]) \in Nat
                  /\ Len(disk[f]) <= Len(disk'[f])

LEMMA AppendGrows ==
    ASSUME FilesOK, NEW g \in File, NEW n \in Nat, disk' = [disk EXCEPT ![g] = Append(@, n)]
    PROVE  /\ \A f \in File : LengthGrows(f)
           /\ Len(disk'[g]) = Len(disk[g]) + 1
<1>1. disk[g] \in Seq(Nat)
      BY DEF FilesOK
<1>2. Len(Append(disk[g], n)) = Len(disk[g]) + 1
      BY <1>1
<1> QED
    BY <1>1, <1>2 DEF FilesOK, LengthGrows

LEMMA DiskGrows ==
    ASSUME TypeParts, [Next]_vars
    PROVE  \A f \in File : LengthGrows(f)
<1> USE DEF TypeParts
<1>1. CASE UNCHANGED disk
      BY <1>1 DEF FilesOK, LengthGrows
<1>2. ASSUME NEW c \in Conn, Receive(c)
      PROVE  \A f \in File : LengthGrows(f)
  <2>1. FileOf(c) \in File /\ got[c] + 1 \in Nat
        BY <1>2, InHand DEF Receive, Fetching, WorkOK
  <2> QED
      BY <1>2, <2>1, AppendGrows DEF Receive
<1>3. ASSUME NEW c \in Conn, ReadError(c)
      PROVE  \A f \in File : LengthGrows(f)
  <2>1. FileOf(c) \in File
        BY <1>3, InHand DEF ReadError, Fetching
  <2>2. UNCHANGED disk \/ disk' = [disk EXCEPT ![FileOf(c)] = Append(@, 0)]
        BY <1>3 DEF ReadError
  <2> QED
      BY <1>1, <2>1, <2>2, AppendGrows
<1> QED
    BY <1>1, <1>2, <1>3
    DEF Next, AskStep, WorkerStep, StreamStep, FetchStep, CompleteStep, EnvironmentStep,
        Ask, AddRequest, QueueFile, RecordFile, EndAsk, Connect, Close, Subscribe, YieldQueued,
        EndBacklog, YieldInserted, SetupDownload, EndStream, Dequeue, Count, SaveProgress,
        MarkDownloaded, Tick, Flush, Crash, vars

LEMMA ArrivedStays ==
    ASSUME TypeParts, [Next]_vars, NEW f \in File, Arrived(f)
    PROVE  Arrived(f)'
BY DiskGrows DEF Arrived, LengthGrows, TypeParts

\* A worker keeps what it has received, drops it, or is given another file.
LEMMA HandsStayReceived ==
    ASSUME TypeParts, [Next]_vars, HandsReceived, NEW c \in Conn,
           \/ UNCHANGED fileVars /\ \E p \in {"next", "dequeue", "count", "save", "mark"} :
                Goto(c, p) /\ (p # "next" => Arrived(FileOf(c))')
           \/ \E p \in {"next", "done"} : Put(c, p)
           \/ \E e \in Entry : Take(c, e)
    PROVE  HandsReceived'
<1> USE DEF TypeParts
<1>1. ASSUME NEW o \in Conn, o # c
      PROVE  /\ pc'[o] \in {"dequeue", "count", "save", "mark"} => Arrived(FileOf(o))'
             /\ pc'[o] = "read" => got'[o] <= Len(disk'[FileOf(o)'])
  <2>1. pc'[o] = pc[o] /\ item'[o] = item[o] /\ got'[o] = got[o]
        BY <1>1 DEF Goto, Put, Take, WorkOK, fileVars
  <2>2. CASE pc[o] \in {"dequeue", "count", "save", "mark"}
    <3>1. FileOf(o) \in File /\ Arrived(FileOf(o))
          BY <2>2, InHand DEF HandsReceived, Fetching
    <3>2. Arrived(FileOf(o))'
          BY <2>1, <3>1, ArrivedStays DEF Arrived, FileOf
    <3> QED
        BY <2>1, <2>2, <3>2
  <2>3. CASE pc[o] = "read"
    <3>1. FileOf(o) \in File /\ got[o] <= Len(disk[FileOf(o)])
          BY <2>3, InHand DEF HandsReceived, Fetching
    <3>2. LengthGrows(FileOf(o)) /\ got[o] \in Nat
          BY <3>1, DiskGrows DEF WorkOK
    <3> QED
        BY <2>1, <2>3, <3>1, <3>2 DEF FileOf, LengthGrows
  <2> QED
      BY <2>1, <2>2, <2>3
<1>2. /\ pc'[c] \in {"dequeue", "count", "save", "mark"} => Arrived(FileOf(c))'
      /\ pc'[c] # "read"
      BY DEF Goto, Put, Take, WorkOK
<1> QED
    BY <1>1, <1>2 DEF HandsReceived

\* A step that removes no entry and no file from the trees and records none.
LEMMA TreesStayReceived ==
    ASSUME TypeParts, [Next]_vars, TreesReceived, UNCHANGED durable,
           \A f \in File : Asked(db, f)' => Asked(db, f) \/ Arrived(f)' \/ Queued(db, f)',
           \A f \in File : Queued(db, f) => Queued(db, f)' \/ Arrived(f)'
    PROVE  TreesReceived'
<1>1. \A f \in File : Arrived(f) => Arrived(f)'
      BY ArrivedStays
<1> QED
    BY <1>1 DEF TreesReceived, Asked, Queued

LEMMA NextStaysQueued ==
    ASSUME TypeParts, [Next]_vars, NextQueued,
           \A f \in File : Queued(db, f) => Queued(db, f)' \/ Arrived(f)',
           UNCHANGED askTodo,
           \A r \in Request : askPc'[r] = "file" => askPc[r] = "file"
    PROVE  NextQueued'
<1>1. \A f \in File : Arrived(f) => Arrived(f)'
      BY ArrivedStays
<1> QED
    BY <1>1 DEF NextQueued, IsNext

LEMMA ReceivedStep == TypeParts /\ ReceivedInv /\ [Next]_vars => ReceivedInv'
<1> SUFFICES ASSUME TypeParts, ReceivedInv, [Next]_vars PROVE ReceivedInv'
    OBVIOUS
<1> USE DEF ReceivedInv
<1>1. ASSUME UNCHANGED <<db, durable>> PROVE TreesReceived'
      BY <1>1, TreesStayReceived DEF Asked, Queued
<1>2. ASSUME UNCHANGED <<db, askTodo>>,
             \A r \in Request : askPc'[r] = "file" => askPc[r] = "file"
      PROVE  NextQueued'
      BY <1>2, NextStaysQueued DEF Queued
<1>3. ASSUME UNCHANGED <<pc, fileVars>> PROVE HandsReceived'
  <2>1. ASSUME NEW c \in Conn, pc[c] \in {"dequeue", "count", "save", "mark"}
        PROVE  Arrived(FileOf(c))'
    <3>1. FileOf(c) \in File /\ Arrived(FileOf(c))
          BY <2>1, InHand DEF HandsReceived, Fetching, TypeParts
    <3> QED
        BY <1>3, <3>1, ArrivedStays DEF Arrived, FileOf, fileVars
  <2>2. ASSUME NEW c \in Conn, pc[c] = "read"
        PROVE  got[c] <= Len(disk'[FileOf(c)])
    <3>1. FileOf(c) \in File /\ got[c] <= Len(disk[FileOf(c)])
          BY <2>2, InHand DEF HandsReceived, Fetching, TypeParts
    <3>2. LengthGrows(FileOf(c)) /\ got[c] \in Nat
          BY <3>1, DiskGrows DEF WorkOK, TypeParts
    <3> QED
        BY <3>1, <3>2 DEF LengthGrows
  <2> QED
      BY <1>3, <2>1, <2>2 DEF HandsReceived, FileOf, fileVars

\* Download calls.
<1>4. ASSUME NEW r \in Request, Ask(r) \/ EndAsk(r) PROVE ReceivedInv'
  <2>1. \A q \in Request : askPc'[q] = "file" => askPc[q] = "file"
        BY <1>4 DEF Ask, EndAsk, AskGoto, AskOK, TypeParts
  <2> QED
      BY <1>1, <1>2, <1>3, <1>4, <2>1 DEF Ask, EndAsk, workVars
<1>5. ASSUME NEW r \in Request, AddRequest(r) PROVE ReceivedInv'
  <2>1. db'.queue = db.queue /\ db'.files = db.files /\ UNCHANGED durable
        BY <1>5 DEF AddRequest, TypeParts, TreesOK, Trees
  <2>2. \A q \in Request : askPc'[q] = "file" => askPc[q] = "file"
        BY <1>5 DEF AddRequest, AskGoto, AskOK, TypeParts
  <2>3. TreesReceived'
        BY <2>1, TreesStayReceived DEF Asked, Queued
  <2>4. NextQueued'
        BY <1>5, <2>1, <2>2, NextStaysQueued DEF Queued, AddRequest
  <2> QED
      BY <1>3, <1>5, <2>3, <2>4 DEF AddRequest, workVars
<1>6. ASSUME NEW r \in Request, QueueFile(r) PROVE ReceivedInv'
  <2>1. PICK e \in Entry :
          /\ IsNext(r, e.file)
          /\ db' = [db EXCEPT !.queue = {g \in @ : ~SameKey(e, g)} \cup {e}]
        BY <1>6 DEF QueueFile
  <2>2. /\ db'.queue = {g \in db.queue : ~SameKey(e, g)} \cup {e}
        /\ db'.files = db.files /\ UNCHANGED durable
        BY <1>6, <2>1 DEF QueueFile, TypeParts, TreesOK, Trees
  <2>3. \A f \in File : Queued(db, f) => Queued(db, f)'
        BY <2>2 DEF Queued, SameKey
  <2>4. TreesReceived'
        BY <2>2, <2>3, TreesStayReceived DEF Asked
  <2>5. ASSUME NEW q \in Request, NEW f \in File, askPc'[q] = "file", IsNext(q, f)'
        PROVE  Queued(db, f)' \/ Arrived(f)'
    <3>1. IsNext(q, f)
          BY <1>6, <2>5 DEF QueueFile, IsNext
    <3>2. CASE q = r
      <4>1. e.file \in File /\ f <= e.file /\ e.file <= f
            BY <2>1, <3>1, <3>2 DEF IsNext, Entry
      <4>2. f = e.file
            BY <4>1
      <4> QED
          BY <2>2, <4>2 DEF Queued
    <3>3. CASE q # r
      <4>1. askPc[q] = "file"
            BY <1>6, <2>5, <3>3 DEF QueueFile, AskGoto, AskOK, TypeParts
      <4> QED
          BY <2>3, <3>1, <4>1, ArrivedStays DEF NextQueued
    <3> QED
        BY <3>2, <3>3
  <2>6. NextQueued'
        BY <2>5 DEF NextQueued
  <2> QED
      BY <1>3, <1>6, <2>4, <2>6 DEF QueueFile
<1>7. ASSUME NEW r \in Request, RecordFile(r) PROVE ReceivedInv'
  <2>1. PICK f \in File :
          /\ IsNext(r, f)
          /\ db' = [db EXCEPT !.files[r][f] = "wanted"]
          /\ askTodo' = [askTodo EXCEPT ![r] = @ \ {f}]
        BY <1>7 DEF RecordFile
  <2>2. db'.queue = db.queue /\ UNCHANGED durable
        BY <1>7, <2>1 DEF RecordFile, TypeParts, TreesOK, Trees
  <2>3. \A g \in File : Asked(db, g)' => Asked(db, g) \/ g = f
        BY <2>1 DEF Asked, TypeParts, TreesOK, Trees
  <2>4. Queued(db, f)' \/ Arrived(f)'
        BY <1>7, <2>1, <2>2, ArrivedStays DEF RecordFile, NextQueued, Queued
  <2>5. TreesReceived'
        BY <2>2, <2>3, <2>4, TreesStayReceived DEF Queued
  <2>6. \A q \in Request : askPc'[q] = "file" => q # r /\ askPc[q] = "file"
        BY <1>7 DEF RecordFile, AskGoto, AskOK, TypeParts
  <2>7. \A q \in Request : q # r => askTodo'[q] = askTodo[q]
        BY <2>1 DEF AskOK, TypeParts
  <2>8. NextQueued'
        BY <2>2, <2>6, <2>7, ArrivedStays DEF NextQueued, IsNext, Queued
  <2> QED
      BY <1>3, <1>7, <2>5, <2>8 DEF RecordFile, workVars

\* Workers that do not touch the trees.
<1>8. ASSUME NEW c \in Conn, UNCHANGED <<db, durable, askVars>>,
             \/ UNCHANGED fileVars /\ \E p \in {"next", "dequeue", "count", "save", "mark"} :
                  Goto(c, p) /\ (p # "next" => Arrived(FileOf(c))')
             \/ \E p \in {"next", "done"} : Put(c, p)
             \/ \E e \in Entry : Take(c, e)
      PROVE  ReceivedInv'
      BY <1>1, <1>2, <1>8, HandsStayReceived DEF askVars
<1>9. ASSUME NEW c \in Conn, Connect(c) PROVE ReceivedInv'
  <2>1. HandsReceived'
    <3>1. ASSUME NEW o \in Conn, o # c
          PROVE  pc'[o] = pc[o]
          BY <1>9, <3>1 DEF Connect, WorkOK, TypeParts
    <3>2. pc'[c] = "subscribe"
          BY <1>9 DEF Connect, WorkOK, TypeParts
    <3> QED
        BY <1>9, <3>1, <3>2 DEF Connect, HandsReceived, Arrived, FileOf, fileVars
  <2> QED
      BY <1>1, <1>2, <1>9, <2>1 DEF Connect, askVars
<1>10. ASSUME NEW c \in Conn, Close(c) \/ EndBacklog(c) PROVE ReceivedInv'
       BY <1>1, <1>2, <1>3, <1>10 DEF Close, EndBacklog, askVars, workVars
<1>11. ASSUME NEW c \in Conn, Subscribe(c) PROVE ReceivedInv'
       BY <1>8, <1>11 DEF Subscribe
<1>12. ASSUME NEW c \in Conn, YieldQueued(c) \/ YieldInserted(c) PROVE ReceivedInv'
  <2>1. PICK e \in Entry : IF MayFetch(c, e) THEN Take(c, e) ELSE Stop(c)
    <3>1. CASE YieldQueued(c)
          BY <3>1 DEF YieldQueued, Ahead, TreesOK, Trees, TypeParts
    <3>2. CASE YieldInserted(c)
      <4>1. Head(events[c]) \in Entry
            BY <3>2 DEF YieldInserted, StreamOK, TypeParts
      <4> QED
          BY <3>2, <4>1 DEF YieldInserted
    <3> QED
        BY <1>12, <3>1, <3>2
  <2>2. UNCHANGED <<db, durable, askVars>>
        BY <1>12 DEF YieldQueued, YieldInserted
  <2> QED
      BY <1>8, <2>1, <2>2 DEF Stop
<1>13. ASSUME NEW c \in Conn, SetupDownload(c) PROVE ReceivedInv'
  <2>1. FileOf(c) \in File /\ Size[FileOf(c)] \in Nat /\ UNCHANGED disk
        BY <1>13, InHand DEF SetupDownload, Fetching, TypeParts
  <2>2. Len(disk[FileOf(c)]) \in Nat
        BY <2>1 DEF FilesOK, TypeParts
  <2>3. CASE Fail(c)
        BY <1>8, <1>13, <2>3, FailPuts DEF SetupDownload
  <2>4. CASE ~Fail(c)
    <3>1. \A o \in Conn : o # c => pc'[o] = pc[o] /\ got'[o] = got[o]
          BY <1>13, <2>4 DEF SetupDownload, Goto, WorkOK, TypeParts
    <3>2. /\ pc'[c] \in {"dequeue", "read"} /\ got'[c] = StartOffset(c) /\ UNCHANGED item
          /\ pc'[c] = "dequeue" => StartOffset(c) >= Size[FileOf(c)]
          BY <1>13, <2>4 DEF SetupDownload, Goto, WorkOK, TypeParts
    <3>3. StartOffset(c) <= Len(disk[FileOf(c)])
          BY <2>1, <2>2 DEF StartOffset
    <3>4. pc'[c] = "dequeue" => Arrived(FileOf(c))'
          BY <2>1, <2>2, <3>2, <3>3 DEF StartOffset, Arrived, FileOf
    <3>5. HandsReceived'
          BY <2>1, <3>1, <3>2, <3>3, <3>4 DEF HandsReceived, Arrived, FileOf
    <3> QED
        BY <1>1, <1>2, <1>13, <3>5 DEF SetupDownload, askVars
  <2> QED
      BY <2>3, <2>4
<1>14. ASSUME NEW c \in Conn, Receive(c) PROVE ReceivedInv'
  <2>1. /\ FileOf(c) \in File /\ got[c] \in Nat /\ got[c] <= Len(disk[FileOf(c)])
        /\ got[c] + 1 \in Nat
        BY <1>14, InHand DEF Receive, Fetching, WorkOK, TypeParts, HandsReceived
  <2>2. Len(disk'[FileOf(c)]) = Len(disk[FileOf(c)]) + 1 /\ Len(disk[FileOf(c)]) \in Nat
        BY <1>14, <2>1, AppendGrows DEF Receive, LengthGrows, TypeParts
  <2>3. ASSUME NEW o \in Conn, pc'[o] \in {"dequeue", "count", "save", "mark"}
        PROVE  Arrived(FileOf(o))'
    <3>1. FileOf(o) \in File /\ Arrived(FileOf(o)) /\ UNCHANGED item
          BY <1>14, <2>3, InHand DEF Receive, HandsReceived, Fetching, TypeParts
    <3> QED
        BY <3>1, ArrivedStays DEF Arrived, FileOf
  <2>4. ASSUME NEW o \in Conn, pc'[o] = "read"
        PROVE  got'[o] <= Len(disk'[FileOf(o)'])
    <3>1. UNCHANGED <<item, pc>>
          BY <1>14 DEF Receive
    <3>2. CASE o = c
          BY <1>14, <2>1, <2>2, <3>1, <3>2 DEF Receive, FileOf, WorkOK, TypeParts
    <3>3. CASE o # c
      <4>1. FileOf(o) \in File /\ got[o] <= Len(disk[FileOf(o)])
            BY <2>4, <3>1, InHand DEF HandsReceived, Fetching, TypeParts
      <4>2. LengthGrows(FileOf(o)) /\ got[o] \in Nat /\ got'[o] = got[o]
            BY <1>14, <3>3, <4>1, DiskGrows DEF Receive, WorkOK, TypeParts
      <4> QED
          BY <3>1, <4>1, <4>2 DEF LengthGrows, FileOf
    <3> QED
        BY <3>2, <3>3
  <2>5. HandsReceived'
        BY <2>3, <2>4 DEF HandsReceived
  <2> QED
      BY <1>1, <1>2, <1>14, <2>5 DEF Receive, askVars
<1>15. ASSUME NEW c \in Conn, EndStream(c) PROVE ReceivedInv'
  <2>1. UNCHANGED <<db, durable, askVars>>
        BY <1>15 DEF EndStream
  <2>2. CASE Complete(c)
    <3>1. FileOf(c) \in File /\ Arrived(FileOf(c))
      <4>1. FileOf(c) \in File /\ Size[FileOf(c)] \in Nat /\ got[c] <= Len(disk[FileOf(c)])
            BY <1>15, InHand DEF EndStream, Fetching, TypeParts, HandsReceived
      <4> QED
          BY <2>2, <4>1 DEF Complete, Arrived, FilesOK, WorkOK, TypeParts
    <3>2. Arrived(FileOf(c))'
          BY <1>15, <2>2, <3>1, ArrivedStays DEF EndStream, Received, Arrived, FileOf, fileVars
    <3> QED
        BY <1>8, <1>15, <2>1, <2>2, <3>2 DEF EndStream, Received
  <2>3. CASE ~Complete(c)
        BY <1>8, <1>15, <2>1, <2>3, FailPuts DEF EndStream
  <2> QED
      BY <2>2, <2>3
<1>16. ASSUME NEW c \in Conn, ReadError(c) PROVE ReceivedInv'
  <2>1. UNCHANGED <<db, durable, askVars>>
        BY <1>16 DEF ReadError
  <2>2. CASE Fail(c)
        BY <1>8, <2>1, <2>2, FailPuts
  <2>3. CASE ~Fail(c)
    <3>1. /\ Received(c) /\ got[c] + 1 >= Size[FileOf(c)]
          /\ disk' = [disk EXCEPT ![FileOf(c)] = Append(@, 0)]
          BY <1>16, <2>3 DEF ReadError
    <3>2. /\ FileOf(c) \in File /\ got[c] \in Nat /\ Size[FileOf(c)] \in Nat
          /\ got[c] <= Len(disk[FileOf(c)])
          BY <1>16, InHand DEF ReadError, Fetching, WorkOK, TypeParts, HandsReceived
    <3>3. Len(disk'[FileOf(c)]) = Len(disk[FileOf(c)]) + 1 /\ Len(disk[FileOf(c)]) \in Nat
          BY <3>1, <3>2, AppendGrows DEF LengthGrows, TypeParts
    <3>4. Arrived(FileOf(c))'
          BY <3>1, <3>2, <3>3 DEF Arrived, FileOf, Received, fileVars
    <3> QED
        BY <1>8, <2>1, <3>1, <3>4 DEF Received
  <2> QED
      BY <2>2, <2>3

\* Completion.
<1>17. ASSUME NEW c \in Conn, pc[c] \in {"dequeue", "count", "save", "mark"}
       PROVE  FileOf(c) \in File /\ (UNCHANGED item => Arrived(FileOf(c))')
  <2>1. FileOf(c) \in File /\ Arrived(FileOf(c))
        BY <1>17, InHand DEF HandsReceived, Fetching, TypeParts
  <2> QED
      BY <2>1, ArrivedStays DEF FileOf, Arrived
<1>18. ASSUME NEW c \in Conn, Dequeue(c) PROVE ReceivedInv'
  <2>1. /\ db'.queue = {e \in db.queue : ~SameKey(e, item[c])} /\ db'.files = db.files
        /\ UNCHANGED durable
        BY <1>18 DEF Dequeue, TypeParts, TreesOK, Trees
  <2>2. UNCHANGED <<fileVars, item, askTodo, askPc>> /\ pc[c] = "dequeue"
        BY <1>18 DEF Dequeue, fileVars, askVars
  <2>3. \A f \in File : Queued(db, f) => Queued(db, f)' \/ Arrived(f)'
        BY <1>17, <2>1, <2>2 DEF Queued, SameKey, FileOf, Arrived
  <2>4. TreesReceived'
        BY <2>1, <2>3, TreesStayReceived DEF Asked
  <2>5. NextQueued'
        BY <2>2, <2>3, NextStaysQueued
  <2>6. HandsReceived'
        BY <1>17, <1>18, <2>2, HandsStayReceived DEF Dequeue
  <2> QED
      BY <2>4, <2>5, <2>6
<1>19. ASSUME NEW c \in Conn, Count(c) PROVE ReceivedInv'
  <2>1. /\ UNCHANGED <<db, durable, disk, askVars, item, got>>
        /\ pc[c] = "count" /\ Goto(c, "save")
        BY <1>19 DEF Count
  <2>2. \A o \in Conn : o # c => pc'[o] = pc[o]
        BY <2>1 DEF Goto, WorkOK, TypeParts
  <2>3. HandsReceived'
        BY <2>1, <2>2 DEF HandsReceived, Goto, Arrived, FileOf, WorkOK, TypeParts
  <2> QED
      BY <1>1, <1>2, <2>1, <2>3 DEF askVars
<1>20. ASSUME NEW c \in Conn, SaveProgress(c) PROVE ReceivedInv'
  <2>1. db'.queue = db.queue /\ db'.files = db.files /\ UNCHANGED durable
        BY <1>20 DEF SaveProgress, TypeParts, TreesOK, Trees
  <2>2. UNCHANGED <<fileVars, item, askTodo, askPc>> /\ pc[c] = "save"
        BY <1>20 DEF SaveProgress, fileVars, askVars
  <2>3. TreesReceived' /\ NextQueued'
        BY <2>1, <2>2, TreesStayReceived, NextStaysQueued DEF Asked, Queued
  <2>4. HandsReceived'
        BY <1>17, <1>20, <2>2, HandsStayReceived DEF SaveProgress
  <2> QED
      BY <2>3, <2>4
<1>21. ASSUME NEW c \in Conn, MarkDownloaded(c) PROVE ReceivedInv'
  <2>1. /\ db'.queue = db.queue /\ UNCHANGED <<durable, disk, askTodo, askPc>>
        /\ pc[c] = "mark"
        BY <1>21 DEF MarkDownloaded, TypeParts, TreesOK, Trees, askVars
  <2>2. \A f \in File : Asked(db, f)' => Asked(db, f) \/ f = FileOf(c)
        BY <1>21 DEF MarkDownloaded, Asked, TypeParts, TreesOK, Trees
  <2>3. Arrived(FileOf(c))
        BY <2>1 DEF HandsReceived
  <2>4. \A f \in File : Asked(db, f)' => Asked(db, f) \/ Arrived(f)' \/ Queued(db, f)'
        BY <2>1, <2>2, <2>3 DEF Arrived
  <2>5. TreesReceived' /\ NextQueued'
        BY <2>1, <2>4, TreesStayReceived, NextStaysQueued DEF Queued
  <2>6. HandsReceived'
        BY <1>21, HandsStayReceived DEF MarkDownloaded
  <2> QED
      BY <2>5, <2>6

\* The environment.
<1>22. CASE Tick
       BY <1>1, <1>2, <1>3, <1>22 DEF Tick, askVars, workVars
<1>23. CASE Flush
       BY <1>2, <1>3, <1>23 DEF Flush, TreesReceived, Asked, Queued, Arrived, askVars, workVars
<1>24. CASE Crash
  <2>1. \A c \in Conn : pc'[c] \in {"unused", "done"}
        BY <1>24 DEF Crash
  <2>2. \A r \in Request : askPc'[r] # "file"
        BY <1>24 DEF Crash
  <2>3. TreesReceived'
        BY <1>24 DEF Crash, TreesReceived, Asked, Queued, Arrived
  <2> QED
      BY <2>1, <2>2, <2>3 DEF HandsReceived, NextQueued
<1>25. CASE UNCHANGED vars
       BY <1>1, <1>2, <1>3, <1>25 DEF vars, askVars, workVars
<1> QED
    BY <1>4, <1>5, <1>6, <1>7, <1>9, <1>10, <1>11, <1>12, <1>13, <1>14, <1>15, <1>16, <1>18,
       <1>19, <1>20, <1>21, <1>22, <1>23, <1>24, <1>25
    DEF Next, AskStep, WorkerStep, StreamStep, FetchStep, CompleteStep, EnvironmentStep

\* A file that was queued and is not any more has arrived in full, whichever
\* connections, error codes, overlapping workers and crashes there were
\* (wishlist.rs, file_completed; peer.rs, download).
THEOREM QueueServed == Spec => []LeavesWhenReceived
<1>1. Init => ReceivedInv
      BY DEF Init, Empty, ReceivedInv, TreesReceived, HandsReceived, NextQueued, Asked
<1>2. TypeOK /\ ReceivedInv /\ [Next]_vars => ReceivedInv'
      BY TypeSplit, ReceivedStep
<1>3. ReceivedInv => LeavesWhenReceived
      BY DEF ReceivedInv, TreesReceived, LeavesWhenReceived, Asked, Queued, Arrived
<1> QED
    BY <1>1, <1>2, <1>3, TypeCorrect, PTL DEF Spec

-----------------------------------------------------------------------------
(* Resuming *)

Active(c) == connOpen[c] \/ pc[c] \in Fetching

\* One worker at most fetches, and it appends the bytes it asked for where the
\* file ends.
OneActive == ~Overlap => \A c, o \in Conn : Active(c) /\ Active(o) => c = o
AppendsAtEnd ==
    errors = 0 /\ ~Overlap =>
        \A c \in Conn : pc[c] = "read" => got[c] = Len(disk[FileOf(c)]) \/ Complete(c)

SeamlessInv == OneActive /\ AppendsAtEnd /\ ResumesSeamlessly

\* Active workers are those that were, but for a new connection.
LEMMA OneStaysActive ==
    ASSUME TypeParts, OneActive, [Next]_vars
    PROVE  OneActive'
<1> USE DEF TypeParts
<1>1. ASSUME \A c \in Conn : Active(c)' => Active(c) PROVE OneActive'
      BY <1>1 DEF OneActive
<1>2. ASSUME NEW c \in Conn, UNCHANGED connOpen, pc[c] \in Fetching \/ pc'[c] \notin Fetching,
             \A o \in Conn : o # c => pc'[o] = pc[o]
      PROVE  OneActive'
      BY <1>1, <1>2 DEF Active
<1>3. ASSUME NEW c \in Conn, NEW p, Put(c, p) \/ Goto(c, p)
      PROVE  pc'[c] = p /\ \A o \in Conn : o # c => pc'[o] = pc[o]
      BY <1>3 DEF Put, Goto, WorkOK
<1>4. ASSUME NEW c \in Conn, Fail(c) \/ Stop(c)
      PROVE  pc'[c] \notin Fetching /\ \A o \in Conn : o # c => pc'[o] = pc[o]
      BY <1>3, <1>4 DEF Fail, Stop, Fetching
<1>5. ASSUME UNCHANGED <<connOpen, pc>> PROVE OneActive'
      BY <1>1, <1>5 DEF Active
<1>6. ASSUME NEW c \in Conn, Connect(c) PROVE OneActive'
  <2>1. \A o \in Conn : o # c => connOpen'[o] = connOpen[o] /\ pc'[o] = pc[o]
        BY <1>6 DEF Connect, StreamOK, WorkOK
  <2> QED
      BY <1>6, <2>1 DEF Connect, OneActive, Active
<1>7. ASSUME NEW c \in Conn, Close(c) PROVE OneActive'
      BY <1>1, <1>7 DEF Close, Active, StreamOK, workVars
<1>8. ASSUME NEW c \in Conn, Subscribe(c) PROVE OneActive'
      BY <1>2, <1>3, <1>8 DEF Subscribe, Fetching
<1>9. ASSUME NEW c \in Conn, YieldQueued(c) \/ YieldInserted(c) PROVE OneActive'
  <2>1. PICK e : IF MayFetch(c, e) THEN Take(c, e) ELSE Stop(c)
        BY <1>9 DEF YieldQueued, YieldInserted
  <2>2. UNCHANGED connOpen
        BY <1>9 DEF YieldQueued, YieldInserted
  <2>3. CASE MayFetch(c, e)
    <3>1. Active(c) /\ \A o \in Conn : o # c => pc'[o] = pc[o]
          BY <1>3, <2>1, <2>3 DEF MayFetch, Take, Active
    <3> QED
        BY <1>1, <2>2, <3>1 DEF Active
  <2>4. CASE ~MayFetch(c, e)
        BY <1>2, <1>4, <2>1, <2>2, <2>4
  <2> QED
      BY <2>3, <2>4
<1>10. ASSUME NEW c \in Conn, SetupDownload(c) \/ EndStream(c) \/ ReadError(c)
       PROVE  OneActive'
  <2>1. UNCHANGED connOpen /\ pc[c] \in Fetching
        BY <1>10 DEF SetupDownload, EndStream, ReadError, Fetching
  <2>2. Fail(c) \/ \E p : Goto(c, p)
        BY <1>10 DEF SetupDownload, EndStream, ReadError, Received
  <2> QED
      BY <1>2, <1>3, <1>4, <2>1, <2>2
<1>11. ASSUME NEW c \in Conn,
              Dequeue(c) \/ Count(c) \/ SaveProgress(c) \/ MarkDownloaded(c)
       PROVE  OneActive'
  <2>1. UNCHANGED connOpen /\ pc[c] \in Fetching /\ \E p : Goto(c, p) \/ Put(c, p)
        BY <1>11 DEF Dequeue, Count, SaveProgress, MarkDownloaded, Fetching
  <2> QED
      BY <1>2, <1>3, <2>1
<1>12. CASE Crash
  <2>1. \A c \in Conn : connOpen'[c] = FALSE /\ pc'[c] \notin Fetching
        BY <1>12 DEF Crash, Fetching
  <2> QED
      BY <1>1, <2>1 DEF Active
<1> QED
    BY <1>5, <1>6, <1>7, <1>8, <1>9, <1>10, <1>11, <1>12
    DEF Next, AskStep, WorkerStep, StreamStep, FetchStep, CompleteStep, EnvironmentStep,
        Ask, AddRequest, QueueFile, RecordFile, EndAsk, EndBacklog, Receive, Tick, Flush,
        vars, workVars

\* Only Receive and ReadError write to the disk.
LEMMA SeamlessStep == TypeParts /\ SeamlessInv /\ [Next]_vars => SeamlessInv'
<1> SUFFICES ASSUME TypeParts, SeamlessInv, [Next]_vars PROVE SeamlessInv'
    OBVIOUS
<1>1. OneActive'
      BY OneStaysActive DEF SeamlessInv
<1> USE DEF TypeParts, SeamlessInv
<1>2. ASSUME UNCHANGED <<disk, errors>>,
             \A c \in Conn : pc'[c] = "read" =>
                pc[c] = "read" /\ item'[c] = item[c] /\ got'[c] = got[c]
      PROVE  SeamlessInv'
      BY <1>1, <1>2 DEF AppendsAtEnd, ResumesSeamlessly, FileOf, Complete
<1>3. ASSUME NEW c \in Conn, UNCHANGED <<disk, errors>>, pc'[c] # "read",
             \A o \in Conn : o # c =>
                pc'[o] = pc[o] /\ item'[o] = item[o] /\ got'[o] = got[o]
      PROVE  SeamlessInv'
      BY <1>2, <1>3
<1>4. ASSUME NEW c \in Conn, UNCHANGED <<disk, errors>>,
             \/ Fail(c) \/ Stop(c) \/ \E e : Take(c, e)
             \/ \E p \in {"next", "dequeue", "count", "save", "mark"} :
                  Goto(c, p) /\ UNCHANGED <<item, got>>
             \/ Put(c, "next")
      PROVE  SeamlessInv'
  <2>1. pc'[c] # "read" /\ \A o \in Conn : o # c =>
                pc'[o] = pc[o] /\ item'[o] = item[o] /\ got'[o] = got[o]
        BY <1>4 DEF Fail, Stop, Take, Put, Goto, WorkOK
  <2> QED
      BY <1>3, <1>4, <2>1
<1>5. ASSUME UNCHANGED <<disk, errors, pc, item, got>> PROVE SeamlessInv'
      BY <1>2, <1>5
<1>6. ASSUME NEW c \in Conn, Connect(c) PROVE SeamlessInv'
  <2>1. \A o \in Conn : pc'[o] = "read" => pc[o] = "read"
        BY <1>6 DEF Connect, WorkOK
  <2> QED
      BY <1>2, <1>6, <2>1 DEF Connect, fileVars, boundVars
<1>7. ASSUME NEW c \in Conn, Subscribe(c) PROVE SeamlessInv'
      BY <1>4, <1>7 DEF Subscribe, fileVars, boundVars
<1>8. ASSUME NEW c \in Conn, YieldQueued(c) \/ YieldInserted(c) PROVE SeamlessInv'
  <2>1. UNCHANGED <<disk, errors>> /\ (Stop(c) \/ \E e : Take(c, e))
        BY <1>8 DEF YieldQueued, YieldInserted, boundVars
  <2> QED
      BY <1>4, <2>1
<1>9. ASSUME NEW c \in Conn, SetupDownload(c) PROVE SeamlessInv'
  <2>1. FileOf(c) \in File /\ Size[FileOf(c)] \in Nat /\ UNCHANGED <<disk, errors>>
        BY <1>9, InHand DEF SetupDownload, Fetching, boundVars
  <2>2. CASE Fail(c)
        BY <1>4, <2>1, <2>2
  <2>3. CASE ~Fail(c)
    <3>1. \A o \in Conn : o # c =>
                pc'[o] = pc[o] /\ item'[o] = item[o] /\ got'[o] = got[o]
          BY <1>9, <2>3 DEF SetupDownload, Goto, WorkOK
    <3>2. got'[c] = StartOffset(c) /\ UNCHANGED item
          BY <1>9, <2>3 DEF SetupDownload, Goto, WorkOK
    <3>3. StartOffset(c) = Len(disk[FileOf(c)]) \/ StartOffset(c) >= Size[FileOf(c)]
          BY <2>1 DEF StartOffset
    <3>4. AppendsAtEnd'
          BY <2>1, <3>1, <3>2, <3>3 DEF AppendsAtEnd, FileOf, Complete
    <3>5. ResumesSeamlessly'
          BY <2>1 DEF ResumesSeamlessly
    <3> QED
        BY <1>1, <3>4, <3>5
  <2> QED
      BY <2>2, <2>3
<1>10. ASSUME NEW c \in Conn, Receive(c) PROVE SeamlessInv'
  <2>1. FileOf(c) \in File /\ Size[FileOf(c)] \in Nat /\ got[c] \in Nat
        BY <1>10, InHand DEF Receive, Fetching, WorkOK
  <2>2. disk[FileOf(c)] \in Seq(Nat)
        BY <2>1 DEF FilesOK
  <2>3. /\ disk' = [disk EXCEPT ![FileOf(c)] = Append(@, got[c] + 1)]
        /\ got' = [got EXCEPT ![c] = @ + 1] /\ UNCHANGED <<pc, item, errors>>
        /\ pc[c] = "read" /\ ~Complete(c)
        BY <1>10, <2>1 DEF Receive, Complete, boundVars
  <2> SUFFICES ASSUME errors = 0, ~Overlap
               PROVE  /\ \A o \in Conn : pc'[o] = "read" =>
                           got'[o] = Len(disk'[FileOf(o)']) \/ Complete(o)'
                      /\ \A f \in File : \A i \in DOMAIN disk'[f] : disk'[f][i] = i
      BY <1>1, <2>3 DEF AppendsAtEnd, ResumesSeamlessly
  <2>4. got[c] = Len(disk[FileOf(c)])
        BY <2>3 DEF AppendsAtEnd
  <2>5. ASSUME NEW o \in Conn, pc'[o] = "read"
        PROVE  got'[o] = Len(disk'[FileOf(o)']) \/ Complete(o)'
    <3>1. o = c
          BY <2>3, <2>5 DEF OneActive, Active, Fetching
    <3>2. Len(disk'[FileOf(c)]) = got[c] + 1
          BY <2>1, <2>2, <2>3, <2>4 DEF FilesOK
    <3> QED
        BY <2>3, <3>1, <3>2 DEF FileOf, WorkOK
  <2>6. ASSUME NEW f \in File, NEW i \in DOMAIN disk'[f]
        PROVE  disk'[f][i] = i
    <3>1. CASE f = FileOf(c)
      <4>1. disk'[f] = Append(disk[f], got[c] + 1)
            BY <2>1, <2>3, <3>1 DEF FilesOK
      <4>2. \A j \in DOMAIN disk[f] : disk[f][j] = j
            BY <2>6 DEF ResumesSeamlessly
      <4> QED
          BY <2>1, <2>2, <2>4, <3>1, <4>1, <4>2
    <3>2. CASE f # FileOf(c)
      <4>1. disk'[f] = disk[f]
            BY <2>3, <3>2 DEF FilesOK
      <4> QED
          BY <2>6, <4>1 DEF ResumesSeamlessly
    <3> QED
        BY <3>1, <3>2
  <2> QED
      BY <2>5, <2>6
<1>11. ASSUME NEW c \in Conn, EndStream(c) PROVE SeamlessInv'
       BY <1>4, <1>11 DEF EndStream, Received, fileVars, boundVars
<1>12. ASSUME NEW c \in Conn, ReadError(c) PROVE SeamlessInv'
  <2>1. errors' # 0
        BY <1>12 DEF ReadError, BoundsOK
  <2> QED
      BY <1>1, <2>1 DEF AppendsAtEnd, ResumesSeamlessly
<1>13. ASSUME NEW c \in Conn,
              Dequeue(c) \/ Count(c) \/ SaveProgress(c) \/ MarkDownloaded(c)
       PROVE  SeamlessInv'
  <2>1. UNCHANGED <<disk, errors>>
        BY <1>13 DEF Dequeue, Count, SaveProgress, MarkDownloaded, boundVars
  <2> QED
      BY <1>4, <1>13, <2>1 DEF Dequeue, Count, SaveProgress, MarkDownloaded, fileVars
<1>14. CASE Crash
  <2>1. UNCHANGED <<disk, errors>> /\ \A c \in Conn : pc'[c] # "read"
        BY <1>14 DEF Crash
  <2> QED
      BY <1>2, <2>1
<1> QED
    BY <1>5, <1>6, <1>7, <1>8, <1>9, <1>10, <1>11, <1>12, <1>13, <1>14
    DEF Next, AskStep, WorkerStep, StreamStep, FetchStep, CompleteStep, EnvironmentStep,
        Ask, AddRequest, QueueFile, RecordFile, EndAsk, Close, EndBacklog, Tick, Flush,
        vars, workVars, fileVars, boundVars

\* However often downloads are interrupted, by a lost connection or a crash, a
\* local file is the beginning of the remote one, if the peer sends no error
\* codes and a worker has finished before the next starts (peer.rs, download).
THEOREM DownloadsResume == Spec => []ResumesSeamlessly
<1>1. Init => SeamlessInv
      BY DEF Init, SeamlessInv, OneActive, AppendsAtEnd, ResumesSeamlessly, Active, Fetching
<1>2. TypeOK /\ SeamlessInv /\ [Next]_vars => SeamlessInv'
      BY TypeSplit, SeamlessStep
<1>3. SeamlessInv => ResumesSeamlessly
      BY DEF SeamlessInv
<1> QED
    BY <1>1, <1>2, <1>3, TypeCorrect, PTL DEF Spec

-----------------------------------------------------------------------------
(* Every file is queued once *)

About(e, r, f) == e.req = r /\ e.file = f

\* The call has queued the file, or is about to record that it has.
Settled(r, f) ==
    /\ f \in Wants[r] /\ askPc[r] \notin {"idle", "record"}
    /\ askPc[r] = "queue" => f \notin askTodo[r]
    /\ askPc[r] = "file" => f \notin askTodo[r] \/ IsNext(r, f)
WasAsked(e) == e.at = askStamp[e.req] /\ Settled(e.req, e.file)

Told(c, e) == \E i \in DOMAIN events[c] : events[c][i] = e
Holds(c, e) == pc[c] \in Fetching /\ item[c] = e
AskedInv ==
    /\ \A r \in Request : askTodo[r] \subseteq Wants[r]
    /\ \A e \in db.queue \cup durable.queue : WasAsked(e)
    /\ \A e \in Entry, c \in Conn : Told(c, e) \/ Holds(c, e) => WasAsked(e)

\* The entry a call adds.
NewEntry(r, e) == e.at = askStamp[r] /\ e.req = r /\ IsNext(r, e.file)
Adds(r, e) ==
    /\ NewEntry(r, e)
    /\ db' = [db EXCEPT !.queue = {g \in @ : ~SameKey(e, g)} \cup {e}]
    /\ events' = [c \in Conn |-> IF pc[c] \in {"unused", "subscribe", "done"} THEN events[c]
                                 ELSE Append(events[c], e)]

LEMMA Added ==
    ASSUME NEW r \in Request, QueueFile(r)
    PROVE  \E e \in Entry : Adds(r, e)
BY DEF QueueFile, Adds, NewEntry

\* What a step may do to the queue, to what a worker is told and to what it has.
LEMMA QueueMoves ==
    ASSUME TypeParts, [Next]_vars
    PROVE  \/ \E r \in Request : QueueFile(r)
           \/ db'.queue \subseteq db.queue /\ durable' \in {db, durable}
           \/ Crash
<1> USE DEF TypeParts, TreesOK, Trees
<1>1. ASSUME NEW r \in Request, AddRequest(r) \/ RecordFile(r) PROVE db'.queue = db.queue /\ durable' = durable
      BY <1>1 DEF AddRequest, RecordFile
<1>2. ASSUME NEW c \in Conn, Dequeue(c) \/ SaveProgress(c) \/ MarkDownloaded(c)
      PROVE  db'.queue \subseteq db.queue /\ durable' = durable
  <2>1. CASE Dequeue(c)
        BY <2>1 DEF Dequeue
  <2>2. CASE SaveProgress(c)
        BY <2>2 DEF SaveProgress
  <2>3. CASE MarkDownloaded(c)
        BY <2>3 DEF MarkDownloaded
  <2> QED BY <1>2, <2>1, <2>2, <2>3
<1> QED
    BY <1>1, <1>2
    DEF Next, AskStep, WorkerStep, StreamStep, FetchStep, CompleteStep, EnvironmentStep,
        Ask, EndAsk, Connect, Close, Subscribe, YieldQueued, EndBacklog, YieldInserted,
        SetupDownload, Receive, EndStream, ReadError, Count, Tick, Flush, vars

Keeps(c) == UNCHANGED <<item[c], events[c], backlog[c]>> /\ pc'[c] = pc[c] /\ sum'[c] = sum[c]
Fetches(c) == /\ UNCHANGED <<item[c], events[c], backlog[c]>>
              /\ pc[c] \in Fetching /\ pc'[c] \in Fetching
Drops(c) == /\ pc'[c] \in {"next", "done"}
            /\ pc'[c] = "done" => events'[c] = <<>>
            /\ \/ UNCHANGED <<events[c], backlog[c]>> /\ pc[c] \in {"next"} \cup Fetching
               \/ events'[c] = <<>> /\ backlog'[c] = FALSE
TakesQueued(c) == /\ item'[c] \in db.queue /\ UNCHANGED <<events[c], backlog[c], connOpen>>
                  /\ backlog[c] /\ connOpen[c] /\ pc[c] = "next" /\ pc'[c] = "setup"
TakesInserted(c) == /\ events[c] # <<>> /\ item'[c] = Head(events[c]) /\ events'[c] = Tail(events[c])
                    /\ ~backlog[c] /\ UNCHANGED <<backlog[c], connOpen>>
                    /\ connOpen[c] /\ pc[c] = "next" /\ pc'[c] = "setup"
Starts(c) == /\ UNCHANGED events[c] /\ pc[c] \notin Fetching /\ pc'[c] \notin Fetching
             /\ \/ UNCHANGED backlog[c] /\ pc[c] = "unused" /\ pc'[c] = "subscribe"
                \/ backlog'[c] = TRUE /\ pc[c] = "subscribe" /\ pc'[c] = "next"
                \/ backlog'[c] = FALSE /\ pc'[c] = pc[c] /\ pc[c] = "next"
Restarts == \A c \in Conn : /\ pc'[c] \in {"unused", "done"} /\ events'[c] = <<>>
                            /\ backlog'[c] = FALSE /\ item'[c] = None /\ connOpen'[c] = FALSE
Moves(c) == Keeps(c) \/ Fetches(c) \/ Drops(c) \/ TakesQueued(c) \/ TakesInserted(c) \/ Starts(c)

LEMMA WorkerMoves ==
    ASSUME TypeParts, [Next]_vars, ~Crash, \A r \in Request : ~QueueFile(r)
    PROVE  \A c \in Conn : Moves(c)
<1> USE DEF TypeParts
<1>0. SUFFICES ASSUME NEW o \in Conn PROVE Moves(o)
      OBVIOUS
<1>1. ASSUME UNCHANGED workVars PROVE Keeps(o)
      BY <1>1 DEF workVars, fileVars, streamVars, Keeps
<1>2. ASSUME NEW c \in Conn, Fail(c) \/ Stop(c), pc[c] \in {"next"} \cup Fetching
      PROVE  Moves(o)
  <2>1. c # o => Keeps(o)
        BY <1>2 DEF Fail, Stop, Put, Goto, streamVars, Keeps, WorkOK, StreamOK
  <2>2. c = o => Drops(o)
        BY <1>2 DEF Fail, Stop, Put, Goto, streamVars, Drops, WorkOK, StreamOK
  <2> QED BY <2>1, <2>2 DEF Moves
<1>3. ASSUME NEW c \in Conn, UNCHANGED <<item, streamVars>>, pc[c] \in Fetching,
             NEW p \in Fetching, Goto(c, p) \/ UNCHANGED pc, \A x \in Conn \ {c} : sum'[x] = sum[x]
      PROVE  Moves(o)
      BY <1>3 DEF Goto, Moves, Keeps, Fetches, WorkOK, streamVars
<1>4. ASSUME NEW c \in Conn, Connect(c) \/ Subscribe(c) \/ EndBacklog(c) PROVE Moves(o)
  <2>1. c # o => Keeps(o)
        BY <1>4 DEF Connect, Subscribe, EndBacklog, Goto, streamVars, fileVars, Keeps, WorkOK, StreamOK
  <2>2. c = o => Starts(o)
        BY <1>4 DEF Connect, Subscribe, EndBacklog, Goto, YieldsBacklog, streamVars, fileVars, Starts,
                    WorkOK, StreamOK, Fetching
  <2> QED BY <2>1, <2>2 DEF Moves
<1>5. ASSUME NEW c \in Conn, YieldQueued(c) PROVE Moves(o)
  <2>1. PICK e \in Ahead(c) :
          IF MayFetch(c, e)
          THEN /\ Take(c, e)
               /\ cursor' = [cursor EXCEPT ![c] = <<e.at, e.file>>]
               /\ UNCHANGED <<events, backlog>>
          ELSE Stop(c)
        BY <1>5 DEF YieldQueued
  <2>2. CASE MayFetch(c, e)
    <3>1. c # o => Keeps(o)
          BY <1>5, <2>1, <2>2 DEF Take, Goto, Keeps, WorkOK
    <3>2. c = o => TakesQueued(o)
          BY <1>5, <2>1, <2>2 DEF YieldQueued, MayFetch, Ahead, Take, Goto, TakesQueued, WorkOK
    <3> QED BY <3>1, <3>2 DEF Moves
  <2> QED BY <1>2, <1>5, <2>1, <2>2 DEF YieldQueued
<1>6. ASSUME NEW c \in Conn, YieldInserted(c) PROVE Moves(o)
  <2>1. CASE MayFetch(c, Head(events[c]))
    <3>1. c # o => Keeps(o)
          BY <1>6, <2>1 DEF YieldInserted, Take, Goto, Keeps, WorkOK, StreamOK
    <3>2. c = o => TakesInserted(o)
          BY <1>6, <2>1 DEF YieldInserted, MayFetch, Take, Goto, TakesInserted, WorkOK, StreamOK
    <3> QED BY <3>1, <3>2 DEF Moves
  <2> QED BY <1>2, <1>6, <2>1 DEF YieldInserted
<1>7. ASSUME NEW c \in Conn, SetupDownload(c) PROVE Moves(o)
      BY <1>2, <1>3, <1>7 DEF SetupDownload, Fetching
<1>8. ASSUME NEW c \in Conn, Receive(c) PROVE Moves(o)
      BY <1>3, <1>8 DEF Receive, Fetching
<1>9. ASSUME NEW c \in Conn, EndStream(c) \/ ReadError(c) PROVE Moves(o)
      BY <1>2, <1>3, <1>9 DEF EndStream, ReadError, Received, fileVars, Fetching
<1>10. ASSUME NEW c \in Conn, Dequeue(c) \/ Count(c) \/ SaveProgress(c) PROVE Moves(o)
       BY <1>3, <1>10 DEF Dequeue, Count, SaveProgress, fileVars, Fetching, WorkOK
<1>11. ASSUME NEW c \in Conn, MarkDownloaded(c) PROVE Moves(o)
  <2>1. c # o => Keeps(o)
        BY <1>11 DEF MarkDownloaded, Put, Goto, streamVars, Keeps, WorkOK
  <2>2. c = o => Drops(o)
        BY <1>11 DEF MarkDownloaded, Put, Goto, streamVars, Drops, WorkOK, Fetching
  <2> QED BY <2>1, <2>2 DEF Moves
<1> QED
    BY <1>1, <1>4, <1>5, <1>6, <1>7, <1>8, <1>9, <1>10, <1>11
    DEF Next, AskStep, WorkerStep, StreamStep, FetchStep, CompleteStep, EnvironmentStep, Moves,
        Ask, AddRequest, RecordFile, EndAsk, Close, Tick, Flush, vars

LEMMA CrashMoves == ASSUME Crash PROVE Restarts /\ db' = durable /\ durable' = durable
BY DEF Crash, Restarts

LEMMA SettledStays ==
    ASSUME TypeParts, [Next]_vars, NEW e \in Entry, WasAsked(e)
    PROVE  WasAsked(e)'
<1> USE DEF TypeParts, AskOK, WasAsked, Settled, IsNext, Entry, AskGoto
<1>1. ASSUME NEW r \in Request, Ask(r) \/ AddRequest(r) \/ EndAsk(r) PROVE WasAsked(e)'
      BY <1>1 DEF Ask, AddRequest, EndAsk
<1>2. ASSUME NEW r \in Request, QueueFile(r) PROVE WasAsked(e)'
      BY <1>2 DEF QueueFile
<1>3. ASSUME NEW r \in Request, RecordFile(r) PROVE WasAsked(e)'
  <2>1. PICK f \in File : IsNext(r, f) /\ askTodo' = [askTodo EXCEPT ![r] = @ \ {f}]
        BY <1>3 DEF RecordFile
  <2>2. askPc[r] = "file" /\ askPc' = [askPc EXCEPT ![r] = "queue"] /\ UNCHANGED askStamp
        BY <1>3 DEF RecordFile
  <2>3. IsNext(r, e.file) => e.file = f
        BY <2>1
  <2> QED BY <2>1, <2>2, <2>3
<1>4. CASE Crash
      BY <1>4 DEF Crash
<1>5. CASE UNCHANGED askVars
      BY <1>5 DEF askVars
<1> QED
    BY <1>1, <1>2, <1>3, <1>4, <1>5
    DEF Next, AskStep, WorkerStep, StreamStep, FetchStep, CompleteStep, EnvironmentStep,
        Connect, Close, Subscribe, YieldQueued, EndBacklog, YieldInserted, SetupDownload, Receive,
        EndStream, ReadError, Dequeue, Count, SaveProgress, MarkDownloaded, Tick, Flush, vars

LEMMA TodoShrinks ==
    ASSUME TypeParts, [Next]_vars, \A r \in Request : askTodo[r] \subseteq Wants[r]
    PROVE  \A r \in Request : askTodo'[r] \subseteq Wants[r]
<1>1. ASSUME NEW r \in Request, RecordFile(r) PROVE \A o \in Request : askTodo'[o] \subseteq askTodo[o]
      BY <1>1 DEF RecordFile, TypeParts, AskOK
<1>2. (\A r \in Request : ~RecordFile(r)) => UNCHANGED askTodo
      BY DEF Next, AskStep, WorkerStep, StreamStep, FetchStep, CompleteStep, EnvironmentStep,
        Ask, AddRequest, QueueFile, EndAsk,
        Connect, Close, Subscribe, YieldQueued, EndBacklog, YieldInserted, SetupDownload, Receive,
        EndStream, ReadError, Dequeue, Count, SaveProgress, MarkDownloaded, Tick, Flush, Crash, vars, askVars
<1> QED BY <1>1, <1>2

LEMMA TypesStay == TypeParts /\ [Next]_vars => TypeParts'
BY StepTypes DEF TypeOK, TypeParts, TreesOK, FilesOK, AskOK, StreamOK, WorkOK, BoundsOK

LEMMA TellsNext ==
    ASSUME TypeParts, NEW c \in Conn, events[c] # <<>>
    PROVE  /\ Head(events[c]) = events[c][1] /\ 1 \in DOMAIN events[c] /\ Head(events[c]) \in Entry
           /\ DOMAIN Tail(events[c]) = 1..(Len(events[c]) - 1) /\ DOMAIN events[c] = 1..Len(events[c])
           /\ \A i \in DOMAIN Tail(events[c]) : i + 1 \in DOMAIN events[c] /\ Tail(events[c])[i] = events[c][i + 1]
<1>1. events[c] \in Seq(Entry)
      BY DEF TypeParts, StreamOK
<1> QED BY <1>1

\* When nothing is added a worker has what it had, or was told of, or is queued.
LEMMA HandsMove ==
    ASSUME TypeParts, [Next]_vars, ~Crash, \A r \in Request : ~QueueFile(r), NEW c \in Conn, NEW e
    PROVE  /\ Told(c, e)' => Told(c, e)
           /\ Holds(c, e)' => Holds(c, e) \/ Told(c, e) \/ e \in db.queue
<1>1. Moves(c)
      BY WorkerMoves
<1>2. CASE TakesInserted(c)
      BY <1>2, TellsNext DEF TakesInserted, Told, Holds
<1>3. CASE TakesQueued(c)
      BY <1>3 DEF TakesQueued, Told, Holds
<1> QED BY <1>1, <1>2, <1>3 DEF Moves, Keeps, Fetches, Drops, Starts, Fetching, Told, Holds

LEMMA AppendTells ==
    ASSUME TypeParts, NEW r \in Request, NEW e \in Entry, Adds(r, e), NEW c \in Conn, NEW g
    PROVE  Told(c, g)' => Told(c, g) \/ g = e
<1>1. events[c] \in Seq(Entry) /\ events'[c] \in {events[c], Append(events[c], e)}
      BY DEF Adds, TypeParts, StreamOK
<1>2. ASSUME NEW i \in DOMAIN Append(events[c], e)
      PROVE  Append(events[c], e)[i] = e \/ (i \in DOMAIN events[c] /\ Append(events[c], e)[i] = events[c][i])
      BY <1>1
<1> QED BY <1>1, <1>2 DEF Told

LEMMA AskedStep == TypeParts /\ AskedInv /\ [Next]_vars => AskedInv'
<1> SUFFICES ASSUME TypeParts, AskedInv, [Next]_vars PROVE AskedInv'
    OBVIOUS
<1>0. /\ \A e \in Entry : WasAsked(e) => WasAsked(e)'
      /\ \A r \in Request : askTodo'[r] \subseteq Wants[r]
      BY SettledStays, TodoShrinks DEF AskedInv
<1>1. db.queue \cup durable.queue \subseteq Entry
      BY DEF TypeParts, TreesOK, Trees
<1>2. db'.queue \cup durable'.queue \subseteq Entry
      BY TypesStay DEF TypeParts, TreesOK, Trees
<1>3. ASSUME /\ \A e \in db'.queue \cup durable'.queue : WasAsked(e) \/ WasAsked(e)'
             /\ \A c \in Conn, e \in Entry : Told(c, e)' \/ Holds(c, e)' => WasAsked(e) \/ WasAsked(e)'
      PROVE  AskedInv'
  <2>1. \A e \in db'.queue \cup durable'.queue : WasAsked(e)'
        BY <1>0, <1>2, <1>3
  <2>2. \A e \in Entry, c \in Conn : Told(c, e)' \/ Holds(c, e)' => WasAsked(e)'
        BY <1>0, <1>3
  <2> QED BY <1>0, <2>1, <2>2 DEF AskedInv
<1>4. CASE Crash
  <2>1. Restarts /\ db' = durable /\ durable' = durable
        BY <1>4, CrashMoves
  <2>2. \A c \in Conn, e \in Entry : ~Told(c, e)' /\ ~Holds(c, e)'
    <3>1. SUFFICES ASSUME NEW c \in Conn, NEW e \in Entry PROVE ~Told(c, e)' /\ ~Holds(c, e)'
          OBVIOUS
    <3>2. pc'[c] \in {"unused", "done"} /\ events'[c] = <<>>
          BY <2>1 DEF Restarts
    <3>3. ~Told(c, e)'
          BY <3>2 DEF Told
    <3>4. ~Holds(c, e)'
          BY <3>2 DEF Holds, Fetching
    <3> QED BY <3>3, <3>4
  <2> QED BY <1>3, <2>1, <2>2 DEF AskedInv
<1>5. ASSUME NEW r \in Request, QueueFile(r) PROVE AskedInv'
  <2>1. PICK e \in Entry : Adds(r, e)
        BY <1>5, Added
  <2>2. WasAsked(e)'
        BY <1>5, <2>1 DEF QueueFile, Adds, NewEntry, AskGoto, WasAsked, Settled, IsNext, AskedInv, TypeParts, AskOK
  <2>3. db'.queue \subseteq db.queue \cup {e} /\ durable' = durable
        BY <1>5, <2>1 DEF Adds, QueueFile, TypeParts, TreesOK, Trees
  <2>4. \A c \in Conn, g \in Entry : Holds(c, g)' => Holds(c, g)
        BY <1>5 DEF QueueFile, fileVars, Holds
  <2> QED BY <1>3, <2>1, <2>2, <2>3, <2>4, AppendTells DEF AskedInv
<1>6. CASE ~Crash /\ \A r \in Request : ~QueueFile(r)
      BY <1>3, <1>6, QueueMoves, HandsMove DEF AskedInv
<1> QED BY <1>4, <1>5, <1>6

\* Neither what is yielded from the queue nor what was inserted meanwhile is yielded twice.
BacklogFirst ==
    QuietBacklog => \A c \in Conn :
        backlog[c] \/ pc[c] \in {"unused", "subscribe", "done"} => events[c] = <<>>
YieldedOnce ==
    QuietBacklog => \A c \in Conn :
        /\ \A i, j \in DOMAIN events[c] : About(events[c][i], events[c][j].req, events[c][j].file) => i = j
        /\ pc[c] \in Fetching => \A i \in DOMAIN events[c] : ~About(events[c][i], item[c].req, item[c].file)

LEMMA BacklogStep ==
    ASSUME TypeParts, BacklogFirst, [Next]_vars
    PROVE  BacklogFirst'
<1> SUFFICES ASSUME QuietBacklog, NEW c \in Conn,
                    backlog'[c] \/ pc'[c] \in {"unused", "subscribe", "done"}
             PROVE  events'[c] = <<>>
    BY DEF BacklogFirst
<1>1. ASSUME NEW r \in Request, QueueFile(r) PROVE events'[c] = <<>>
      BY <1>1 DEF QueueFile, BacklogFirst
<1>2. CASE Crash
      BY <1>2, CrashMoves DEF Restarts
<1>3. CASE ~Crash /\ \A r \in Request : ~QueueFile(r)
  <2>1. Moves(c)
        BY <1>3, WorkerMoves
  <2> QED BY <2>1 DEF Moves, Keeps, Fetches, Drops, TakesQueued, TakesInserted, Starts, BacklogFirst, Fetching
<1> QED BY <1>1, <1>2, <1>3

\* A call queues a file that nobody has been told of.
LEMMA AddsFresh ==
    ASSUME TypeParts, AskedInv, NEW r \in Request, QueueFile(r), NEW e \in Entry, Adds(r, e),
           NEW g \in Entry, WasAsked(g)
    PROVE  ~About(g, e.req, e.file)
BY DEF QueueFile, Adds, NewEntry, WasAsked, Settled, About, IsNext

LEMMA YieldedStep ==
    ASSUME TypeParts, AskedInv, BacklogFirst, YieldedOnce, [Next]_vars
    PROVE  YieldedOnce'
<1> SUFFICES ASSUME QuietBacklog, NEW c \in Conn
             PROVE  /\ \A i, j \in DOMAIN events'[c] :
                         About(events'[c][i], events'[c][j].req, events'[c][j].file) => i = j
                    /\ pc'[c] \in Fetching =>
                         \A i \in DOMAIN events'[c] : ~About(events'[c][i], item'[c].req, item'[c].file)
    BY DEF YieldedOnce, About
<1>0. /\ \A i, j \in DOMAIN events[c] : About(events[c][i], events[c][j].req, events[c][j].file) => i = j
      /\ pc[c] \in Fetching => \A i \in DOMAIN events[c] : ~About(events[c][i], item[c].req, item[c].file)
      BY DEF YieldedOnce
<1>1. CASE events'[c] = <<>>
      BY <1>1
<1>2. CASE Crash
      BY <1>1, <1>2, CrashMoves DEF Restarts
<1>3. ASSUME NEW r \in Request, QueueFile(r)
      PROVE  /\ \A i, j \in DOMAIN events'[c] :
                  About(events'[c][i], events'[c][j].req, events'[c][j].file) => i = j
             /\ pc'[c] \in Fetching =>
                  \A i \in DOMAIN events'[c] : ~About(events'[c][i], item'[c].req, item'[c].file)
  <2>1. PICK e \in Entry : Adds(r, e)
        BY <1>3, Added
  <2>2. pc'[c] = pc[c] /\ item'[c] = item[c]
        BY <1>3 DEF QueueFile, fileVars
  <2>3. CASE events'[c] = events[c]
        BY <1>0, <2>2, <2>3
  <2>4. CASE events'[c] = Append(events[c], e)
    <3> DEFINE es == events[c]
    <3>1. es \in Seq(Entry)
          BY DEF TypeParts, StreamOK
    <3>2. /\ DOMAIN Append(es, e) = 1..(Len(es) + 1) /\ DOMAIN es = 1..Len(es) /\ Len(es) \in Nat
          /\ Append(es, e)[Len(es) + 1] = e
          /\ \A i \in DOMAIN es : es[i] \in Entry /\ Append(es, e)[i] = es[i]
          BY <3>1
    <3>3. \A i \in DOMAIN es : ~About(es[i], e.req, e.file)
      <4>1. \A i \in DOMAIN es : WasAsked(es[i])
            BY <3>2 DEF AskedInv, Told
      <4> QED BY <1>3, <2>1, <3>2, <4>1, AddsFresh
    <3>4. pc[c] \in Fetching => item[c] \in Entry /\ ~About(item[c], e.req, e.file)
      <4>1. pc[c] \in Fetching => item[c] \in Entry /\ WasAsked(item[c])
            BY DEF TypeParts, WorkOK, AskedInv, Holds
      <4> QED BY <1>3, <2>1, <4>1, AddsFresh
    <3>5. \A i \in DOMAIN Append(es, e) : i \in DOMAIN es \/ i = Len(es) + 1
          BY <3>2
    <3> HIDE DEF es
    <3>6. ASSUME NEW i \in DOMAIN Append(es, e), NEW j \in DOMAIN Append(es, e),
                 About(Append(es, e)[i], Append(es, e)[j].req, Append(es, e)[j].file)
          PROVE  i = j
      <4>1. CASE i \in DOMAIN es /\ j \in DOMAIN es
            BY <1>0, <3>2, <3>6, <4>1 DEF es
      <4>2. CASE i \in DOMAIN es /\ j = Len(es) + 1
            BY <3>2, <3>3, <3>6, <4>2
      <4>3. CASE i = Len(es) + 1 /\ j \in DOMAIN es
            BY <3>2, <3>3, <3>6, <4>3 DEF About
      <4> QED BY <3>5, <4>1, <4>2, <4>3
    <3>7. ASSUME pc[c] \in Fetching, NEW i \in DOMAIN Append(es, e)
          PROVE  ~About(Append(es, e)[i], item[c].req, item[c].file)
          BY <1>0, <3>2, <3>4, <3>5, <3>7 DEF About, es
    <3> QED BY <2>2, <2>4, <3>6, <3>7 DEF es
  <2> QED BY <2>1, <2>3, <2>4 DEF Adds
<1>4. CASE ~Crash /\ \A r \in Request : ~QueueFile(r)
  <2>1. Moves(c)
        BY <1>4, WorkerMoves
  <2>2. CASE TakesInserted(c)
    <3>1. \A i, j \in DOMAIN events'[c] : i + 1 = j + 1 => i = j
          BY <2>2, TellsNext DEF TakesInserted
    <3>2. \A i \in DOMAIN events'[c] : i + 1 # 1
          BY <2>2, TellsNext DEF TakesInserted
    <3> QED BY <1>0, <2>2, <3>1, <3>2, TellsNext DEF TakesInserted
  <2>3. CASE TakesQueued(c)
        BY <1>1, <2>3 DEF TakesQueued, BacklogFirst
  <2> QED BY <1>0, <2>1, <2>2, <2>3 DEF Moves, Keeps, Fetches, Drops, Starts, Fetching
<1> QED BY <1>2, <1>3, <1>4

-----------------------------------------------------------------------------
(* Progress *)

Counting == {"count", "save", "mark"}

\* A worker gets to each phase of file_completed from the one before.
LEMMA PhaseMoves ==
    ASSUME TypeParts, [Next]_vars, NEW c \in Conn, pc'[c] \in Counting
    PROVE  \/ pc'[c] = pc[c] /\ item'[c] = item[c] /\ sum'[c] = sum[c]
           \/ pc'[c] = "count" /\ Dequeue(c)
           \/ pc'[c] = "save" /\ Count(c)
           \/ pc'[c] = "mark" /\ SaveProgress(c)
<1> USE DEF TypeParts, WorkOK, Counting
<1>1. ASSUME NEW o \in Conn, NEW p, p \notin Counting, Goto(o, p), UNCHANGED <<item, sum>>
      PROVE  pc'[c] = pc[c] /\ item'[c] = item[c] /\ sum'[c] = sum[c]
      BY <1>1 DEF Goto
<1>2. ASSUME NEW o \in Conn, NEW p \in {"next", "done"}, Put(o, p)
      PROVE  pc'[c] = pc[c] /\ item'[c] = item[c] /\ sum'[c] = sum[c]
      BY <1>2 DEF Put, Goto
<1>3. ASSUME NEW o \in Conn, NEW e, Take(o, e)
      PROVE  pc'[c] = pc[c] /\ item'[c] = item[c] /\ sum'[c] = sum[c]
      BY <1>3 DEF Take, Goto
<1>4. ASSUME UNCHANGED <<pc, item, sum>>
      PROVE  pc'[c] = pc[c] /\ item'[c] = item[c] /\ sum'[c] = sum[c]
      BY <1>4
<1>5. ASSUME NEW o \in Conn, Fail(o) \/ Stop(o)
      PROVE  pc'[c] = pc[c] /\ item'[c] = item[c] /\ sum'[c] = sum[c]
      BY <1>2, <1>5 DEF Fail, Stop
<1>6. ASSUME NEW o \in Conn, Connect(o) \/ Subscribe(o)
      PROVE  pc'[c] = pc[c] /\ item'[c] = item[c] /\ sum'[c] = sum[c]
      BY <1>1, <1>6 DEF Connect, Subscribe, fileVars, Goto
<1>7. ASSUME NEW o \in Conn, YieldQueued(o) \/ YieldInserted(o)
      PROVE  pc'[c] = pc[c] /\ item'[c] = item[c] /\ sum'[c] = sum[c]
      BY <1>3, <1>5, <1>7 DEF YieldQueued, YieldInserted
<1>8. ASSUME NEW o \in Conn, SetupDownload(o) \/ EndStream(o) \/ ReadError(o) \/ Receive(o)
      PROVE  pc'[c] = pc[c] /\ item'[c] = item[c] /\ sum'[c] = sum[c]
      BY <1>1, <1>4, <1>5, <1>8 DEF SetupDownload, EndStream, ReadError, Receive, Received, fileVars
<1>9. ASSUME NEW o \in Conn, Dequeue(o)
      PROVE  (pc'[c] = pc[c] /\ item'[c] = item[c] /\ sum'[c] = sum[c]) \/ (pc'[c] = "count" /\ Dequeue(c))
      BY <1>9 DEF Dequeue, Goto, fileVars
<1>10. ASSUME NEW o \in Conn, Count(o)
       PROVE  (pc'[c] = pc[c] /\ item'[c] = item[c] /\ sum'[c] = sum[c]) \/ (pc'[c] = "save" /\ Count(c))
       BY <1>10 DEF Count, Goto
<1>11. ASSUME NEW o \in Conn, SaveProgress(o)
       PROVE  (pc'[c] = pc[c] /\ item'[c] = item[c] /\ sum'[c] = sum[c]) \/ (pc'[c] = "mark" /\ SaveProgress(c))
       BY <1>11 DEF SaveProgress, Goto, fileVars
<1>12. ASSUME NEW o \in Conn, MarkDownloaded(o)
       PROVE  pc'[c] = pc[c] /\ item'[c] = item[c] /\ sum'[c] = sum[c]
       BY <1>2, <1>12 DEF MarkDownloaded
<1>13. ~Crash
       BY DEF Crash
<1> QED
    BY <1>4, <1>6, <1>7, <1>8, <1>9, <1>10, <1>11, <1>12, <1>13
    DEF Next, AskStep, WorkerStep, StreamStep, FetchStep, CompleteStep, EnvironmentStep,
        Ask, AddRequest, QueueFile, RecordFile, EndAsk, Close, EndBacklog, Tick, Flush,
        vars, workVars, fileVars

\* What is being counted is not queued any more.
OutOfQueue ==
    \A c \in Conn : pc[c] \in Counting =>
        \A e \in db.queue : ~About(e, item[c].req, item[c].file)

LEMMA OutStep ==
    ASSUME TypeParts, AskedInv, OutOfQueue, [Next]_vars
    PROVE  OutOfQueue'
<1> SUFFICES ASSUME NEW c \in Conn, pc'[c] \in Counting, NEW e \in db'.queue
             PROVE  ~About(e, item'[c].req, item'[c].file)
    BY DEF OutOfQueue, About
<1>1. CASE Crash
      BY <1>1, CrashMoves DEF Restarts, Counting
<1>2. ASSUME NEW r \in Request, QueueFile(r) PROVE ~About(e, item'[c].req, item'[c].file)
  <2>1. PICK g \in Entry : Adds(r, g)
        BY <1>2, Added
  <2>2. e \in db.queue \/ e = g
        BY <2>1 DEF Adds, TypeParts, TreesOK, Trees
  <2>3. pc'[c] = pc[c] /\ item'[c] = item[c]
        BY <1>2 DEF QueueFile, fileVars
  <2>4. item[c] \in Entry /\ WasAsked(item[c])
        BY <2>3 DEF TypeParts, WorkOK, AskedInv, Holds, Fetching, Counting
  <2>5. ~About(item[c], g.req, g.file)
        BY <1>2, <2>1, <2>4, AddsFresh
  <2> QED BY <2>2, <2>3, <2>5 DEF OutOfQueue, About
<1>3. CASE ~Crash /\ \A r \in Request : ~QueueFile(r)
  <2>1. Moves(c) /\ db'.queue \subseteq db.queue
        BY <1>3, WorkerMoves, QueueMoves
  <2>2. Keeps(c) \/ Fetches(c)
        BY <2>1 DEF Moves, Drops, TakesQueued, TakesInserted, Starts, Fetching, Counting
  <2>3. item'[c] = item[c]
        BY <2>2 DEF Keeps, Fetches
  <2>4. CASE pc[c] \in Counting
        BY <2>1, <2>3, <2>4 DEF OutOfQueue
  <2>5. CASE pc[c] \notin Counting
    <3>1. Dequeue(c)
          BY <2>5, PhaseMoves DEF Counting, Count, SaveProgress
    <3>2. item[c] \in Entry /\ WasAsked(item[c]) /\ e \in Entry /\ WasAsked(e)
          BY <2>1, <3>1 DEF TypeParts, WorkOK, TreesOK, Trees, AskedInv, Holds, Dequeue, Fetching
    <3>3. ~SameKey(e, item[c])
          BY <3>1 DEF Dequeue, TypeParts, TreesOK, Trees
    <3> QED BY <2>3, <3>2, <3>3 DEF SameKey, About, WasAsked
  <2> QED BY <2>4, <2>5
<1> QED BY <1>1, <1>2, <1>3

\* What a step may do to the counts and the marks.
LEMMA TreesMove ==
    ASSUME TypeParts, [Next]_vars
    PROVE  /\ durable' = durable \/ (durable' = db /\ db' = db)
           /\ \/ Crash
              \/ \E c \in Conn : SaveProgress(c) /\ db'.files = db.files
                   /\ db'.progress = [db.progress EXCEPT ![item[c].req] = sum[c]]
              \/ \E c \in Conn : MarkDownloaded(c) /\ db'.progress = db.progress
                   /\ db'.files = [db.files EXCEPT ![item[c].req][FileOf(c)] = "downloaded"]
              \/ db'.progress = db.progress /\ \E r \in Request, f \in File :
                   db'.files = [db.files EXCEPT ![r][f] = "wanted"]
              \/ db'.progress = db.progress /\ db'.files = db.files
<1> USE DEF TypeParts, TreesOK, Trees
<1>1. ASSUME NEW r \in Request, AddRequest(r) \/ QueueFile(r)
      PROVE  durable' = durable /\ db'.progress = db.progress /\ db'.files = db.files
      BY <1>1 DEF AddRequest, QueueFile
<1>2. ASSUME NEW r \in Request, RecordFile(r)
      PROVE  /\ durable' = durable /\ db'.progress = db.progress
             /\ \E f \in File : db'.files = [db.files EXCEPT ![r][f] = "wanted"]
      BY <1>2 DEF RecordFile
<1>3. ASSUME NEW c \in Conn, Dequeue(c)
      PROVE  durable' = durable /\ db'.progress = db.progress /\ db'.files = db.files
      BY <1>3 DEF Dequeue
<1>4. ASSUME NEW c \in Conn, SaveProgress(c)
      PROVE  /\ durable' = durable /\ db'.files = db.files
             /\ db'.progress = [db.progress EXCEPT ![item[c].req] = sum[c]]
      BY <1>4 DEF SaveProgress
<1>5. ASSUME NEW c \in Conn, MarkDownloaded(c)
      PROVE  /\ durable' = durable /\ db'.progress = db.progress
             /\ db'.files = [db.files EXCEPT ![item[c].req][FileOf(c)] = "downloaded"]
      BY <1>5 DEF MarkDownloaded
<1>6. CASE Crash
      BY <1>6 DEF Crash
<1>7. CASE Flush
      BY <1>7 DEF Flush
<1>8. CASE UNCHANGED <<db, durable>>
      BY <1>8
<1>9. \/ \E r \in Request : AddRequest(r) \/ QueueFile(r) \/ RecordFile(r)
      \/ \E c \in Conn : Dequeue(c) \/ SaveProgress(c) \/ MarkDownloaded(c)
      \/ Crash \/ Flush \/ UNCHANGED <<db, durable>>
    BY DEF Next, AskStep, WorkerStep, StreamStep, FetchStep, CompleteStep, EnvironmentStep,
        Ask, EndAsk, Connect, Close, Subscribe, YieldQueued, EndBacklog, YieldInserted,
        SetupDownload, Receive, EndStream, ReadError, Count, Tick, vars
<1> QED BY <1>1, <1>2, <1>3, <1>4, <1>5, <1>6, <1>7, <1>8, <1>9

\* Between reading the count and writing it nobody else writes it.
CountsUp ==
    ~Overlap => \A c \in Conn :
        /\ pc[c] = "save" => sum[c] = db.progress[item[c].req] + Size[item[c].file]
        /\ pc[c] = "mark" => sum[c] = db.progress[item[c].req]

LEMMA CountsStep ==
    ASSUME TypeParts, OneActive, CountsUp, [Next]_vars
    PROVE  CountsUp'
<1> SUFFICES ASSUME ~Overlap, NEW c \in Conn
             PROVE  /\ pc'[c] = "save" => sum'[c] = db'.progress[item'[c].req] + Size[item'[c].file]
                    /\ pc'[c] = "mark" => sum'[c] = db'.progress[item'[c].req]
    BY DEF CountsUp
<1>1. CASE pc'[c] \notin Counting
      BY <1>1 DEF Counting
<1>2. CASE Count(c)
      BY <1>2 DEF Count, UpdatedBytes, FileOf, Goto, TypeParts, WorkOK
<1>3. CASE SaveProgress(c)
  <2>1. item[c].req \in Request /\ UNCHANGED item
        BY <1>3, InHand DEF SaveProgress, TypeParts, Fetching, fileVars
  <2> QED BY <1>3, <2>1 DEF SaveProgress, Goto, TypeParts, WorkOK, TreesOK, Trees, fileVars
<1>4. CASE pc'[c] = "count"
      BY <1>4
<1>5. CASE pc'[c] \in {"save", "mark"} /\ pc'[c] = pc[c] /\ item'[c] = item[c] /\ sum'[c] = sum[c]
  <2>1. \A o \in Conn : SaveProgress(o) => o = c
        BY <1>5 DEF SaveProgress, OneActive, Active, Fetching
  <2>2. ~SaveProgress(c)
        BY <1>5 DEF SaveProgress, Goto, TypeParts, WorkOK
  <2>3. ~Crash
        BY <1>5 DEF Crash
  <2>4. db'.progress = db.progress
        BY <2>1, <2>2, <2>3, TreesMove
  <2> QED BY <1>5, <2>4 DEF CountsUp
<1> QED BY <1>1, <1>2, <1>3, <1>4, <1>5, PhaseMoves DEF Counting

LEMMA BytesSum == \A files : Bytes(files) = SumOf(Size, files)
BY DEF Bytes, SumOf, MapThenSumSet, MapThenFoldSet

LEMMA WantsSums ==
    ASSUME NEW r \in Request, NEW S \in SUBSET Wants[r]
    PROVE  /\ IsFiniteSet(S) /\ Bytes(S) \in Nat
           /\ \A T \in SUBSET S : Bytes(T) <= Bytes(S)
           /\ \A f \in Wants[r] \ S : Bytes(S \cup {f}) = Bytes(S) + Size[f] /\ Size[f] \in Nat
<1>1. IsFiniteSet(S) /\ \A x \in Wants[r] : Size[x] \in Nat
      BY FS_Subset
<1>2. Values(Size, S, Nat) /\ \A f \in Wants[r] : Values(Size, S \cup {f}, Int)
      BY <1>1 DEF Values
<1>3. SumOf(Size, S) \in Nat
      BY <1>1, <1>2, SumType
<1>4. \A T \in SUBSET S : SumOf(Size, T) <= SumOf(Size, S)
      BY <1>1, <1>2, SumGrows
<1>5. ASSUME NEW f \in Wants[r] \ S PROVE SumOf(Size, S \cup {f}) = SumOf(Size, S) + Size[f]
  <2>1. SumOf(Size, S \cup {f}) = Size[f] + SumOf(Size, S)
        BY <1>1, <1>2, SumAdded
  <2> QED BY <1>1, <1>3, <2>1
<1> QED BY <1>1, <1>3, <1>4, <1>5, BytesSum

-----------------------------------------------------------------------------
(* The progress covers what is marked *)

Marked(trees, r) == {f \in File : trees.files[r][f] = "downloaded"}
Covers(trees, r, files) == files \subseteq Wants[r] /\ Bytes(files) <= trees.progress[r]

\* It also covers the file a worker is about to mark.
MarksCovered ==
    ~Overlap =>
        /\ \A r \in Request : /\ Covers(db, r, Marked(db, r))
                              /\ Covers(durable, r, Marked(durable, r))
        /\ \A c \in Conn : pc[c] = "mark" =>
             Covers(db, item[c].req, Marked(db, item[c].req) \cup {item[c].file})

LEMMA CoversLess ==
    ASSUME NEW r \in Request, NEW trees, trees.progress[r] \in Nat, NEW S, Covers(trees, r, S),
           NEW T \in SUBSET S
    PROVE  Covers(trees, r, T)
<1>1. /\ S \in SUBSET Wants[r] /\ T \in SUBSET Wants[r]
      /\ Bytes(S) <= trees.progress[r]
      BY DEF Covers
<1>2. Bytes(T) <= Bytes(S) /\ Bytes(T) \in Nat /\ Bytes(S) \in Nat
      BY <1>1, WantsSums
<1> QED BY <1>1, <1>2 DEF Covers

\* The files a step marks.
LEMMA MarksMove ==
    ASSUME TypeParts, [Next]_vars, ~Crash, NEW r \in Request
    PROVE  \/ Marked(db', r) \subseteq Marked(db, r)
           \/ \E c \in Conn : /\ MarkDownloaded(c) /\ item[c].req = r
                              /\ Marked(db', r) = Marked(db, r) \cup {item[c].file}
<1>1. db.files \in [Request -> [File -> {"none", "wanted", "downloaded"}]]
      BY DEF TypeParts, TreesOK, Trees
<1>2. ASSUME NEW c \in Conn, MarkDownloaded(c),
             db'.files = [db.files EXCEPT ![item[c].req][FileOf(c)] = "downloaded"]
      PROVE  \/ Marked(db', r) = Marked(db, r)
             \/ item[c].req = r /\ Marked(db', r) = Marked(db, r) \cup {item[c].file}
  <2>1. item[c].req \in Request /\ item[c].file \in File
        BY <1>2, InHand DEF MarkDownloaded, Fetching, TypeParts, FileOf
  <2> QED BY <1>1, <1>2, <2>1 DEF Marked, FileOf
<1>3. ASSUME NEW q \in Request, NEW f \in File, db'.files = [db.files EXCEPT ![q][f] = "wanted"]
      PROVE  Marked(db', r) \subseteq Marked(db, r)
      BY <1>1, <1>3 DEF Marked
<1> QED BY <1>2, <1>3, TreesMove DEF Marked

LEMMA MarksStep ==
    ASSUME TypeParts, AskedInv, OneActive, CountsUp, MarksCovered, [Next]_vars
    PROVE  MarksCovered'
<1> SUFFICES ASSUME ~Overlap
             PROVE  /\ \A r \in Request : /\ Covers(db', r, Marked(db', r))
                                          /\ Covers(durable', r, Marked(durable', r))
                    /\ \A c \in Conn : pc'[c] = "mark" =>
                         Covers(db', item'[c].req, Marked(db', item'[c].req) \cup {item'[c].file})
    BY DEF MarksCovered, Covers, Marked
<1>0. /\ \A r \in Request : /\ db.progress[r] \in Nat /\ db'.progress[r] \in Nat
                            /\ Covers(db, r, Marked(db, r)) /\ Covers(durable, r, Marked(durable, r))
      /\ \A c \in Conn : pc[c] = "mark" =>
           Covers(db, item[c].req, Marked(db, item[c].req) \cup {item[c].file})
      BY TypesStay DEF TypeParts, TreesOK, Trees, MarksCovered
<1>1. \A r \in Request : Covers(durable', r, Marked(durable', r))
      BY <1>0, TreesMove DEF Covers, Marked
<1>2. CASE Crash
  <2>1. db' = durable /\ \A c \in Conn : pc'[c] # "mark"
        BY <1>2, CrashMoves DEF Restarts
  <2> QED BY <1>0, <1>1, <2>1
<1>3. ASSUME NEW c \in Conn, SaveProgress(c) PROVE
             /\ \A r \in Request : Covers(db', r, Marked(db', r))
             /\ \A o \in Conn : pc'[o] = "mark" =>
                  Covers(db', item'[o].req, Marked(db', item'[o].req) \cup {item'[o].file})
  <2> DEFINE r == item[c].req
             f == item[c].file
  <2>1. pc[c] = "save" /\ UNCHANGED item /\ db'.files = db.files
        BY <1>3 DEF SaveProgress, fileVars, TypeParts, TreesOK, Trees
  <2>2. r \in Request /\ f \in File /\ item[c] \in Entry
        BY <2>1, InHand DEF Fetching, TypeParts, FileOf
  <2>3. f \in Wants[r]
        BY <2>1, <2>2 DEF AskedInv, Holds, Fetching, WasAsked, Settled
  <2>4. \A q \in Request : db'.progress[q] = IF q = r THEN db.progress[r] + Size[f] ELSE db.progress[q]
        BY <1>3, <2>1, <2>2 DEF SaveProgress, CountsUp, TypeParts, TreesOK, Trees
  <2>5. \A q \in Request : Marked(db', q) = Marked(db, q)
        BY <2>1 DEF Marked
  <2>6. Covers(db', r, Marked(db, r) \cup {f})
    <3>1. Marked(db, r) \in SUBSET Wants[r] /\ Bytes(Marked(db, r)) <= db.progress[r]
          BY <1>0, <2>2 DEF Covers
    <3>2. Size[f] \in Nat /\ db.progress[r] \in Nat /\ Bytes(Marked(db, r)) \in Nat
          BY <1>0, <2>2, <3>1, WantsSums
    <3> HIDE DEF r, f
    <3>3. Bytes(Marked(db, r) \cup {f}) <= Bytes(Marked(db, r)) + Size[f]
      <4>1. CASE f \in Marked(db, r)
        <5>1. Marked(db, r) \cup {f} = Marked(db, r)
              BY <4>1
        <5> QED BY <3>2, <5>1
      <4>2. CASE f \notin Marked(db, r)
        <5>1. Bytes(Marked(db, r) \cup {f}) = Bytes(Marked(db, r)) + Size[f]
              BY <2>2, <2>3, <3>1, <4>2, WantsSums
        <5> QED BY <3>2, <5>1
      <4> QED BY <4>1, <4>2
    <3>4. Bytes(Marked(db, r) \cup {f}) \in Nat
          BY <2>2, <2>3, <3>1, WantsSums
    <3>5. Bytes(Marked(db, r) \cup {f}) <= db'.progress[r]
          BY <2>2, <2>4, <3>1, <3>2, <3>3, <3>4
    <3> QED BY <2>3, <3>1, <3>5 DEF Covers
  <2>7. \A q \in Request : Covers(db', q, Marked(db', q))
    <3>1. Covers(db', r, Marked(db, r))
          BY <1>0, <2>2, <2>6, CoversLess
    <3> QED BY <1>0, <2>4, <2>5, <3>1 DEF Covers
  <2>8. \A o \in Conn : pc'[o] = "mark" => o = c
    <3>1. ASSUME NEW o \in Conn, o # c, pc'[o] = "mark" PROVE FALSE
      <4>1. pc[o] = "mark"
            BY <1>3, <3>1 DEF SaveProgress, Goto, TypeParts, WorkOK
      <4> QED BY <2>1, <3>1, <4>1 DEF OneActive, Active, Fetching
    <3> QED BY <3>1
  <2> QED BY <2>1, <2>2, <2>5, <2>6, <2>7, <2>8
<1>4. ASSUME ~Crash, \A c \in Conn : ~SaveProgress(c) PROVE
             /\ \A r \in Request : Covers(db', r, Marked(db', r))
             /\ \A o \in Conn : pc'[o] = "mark" =>
                  Covers(db', item'[o].req, Marked(db', item'[o].req) \cup {item'[o].file})
  <2>1. db'.progress = db.progress
        BY <1>4, TreesMove
  <2>2. ASSUME NEW r \in Request PROVE Covers(db', r, Marked(db', r))
    <3>1. CASE Marked(db', r) \subseteq Marked(db, r)
          BY <1>0, <2>1, <3>1, CoversLess DEF Covers
    <3>2. ASSUME NEW c \in Conn, MarkDownloaded(c), item[c].req = r,
                 Marked(db', r) = Marked(db, r) \cup {item[c].file}
          PROVE  Covers(db', r, Marked(db', r))
          BY <1>0, <2>1, <3>2 DEF MarkDownloaded, Covers
    <3> QED BY <1>4, <3>1, <3>2, MarksMove
  <2>3. ASSUME NEW o \in Conn, pc'[o] = "mark"
        PROVE  Covers(db', item'[o].req, Marked(db', item'[o].req) \cup {item'[o].file})
    <3>1. pc[o] = "mark" /\ item'[o] = item[o]
          BY <1>4, <2>3, PhaseMoves DEF Counting
    <3>2. item[o].req \in Request
          BY <3>1, InHand DEF Fetching, TypeParts
    <3>3. \A c \in Conn : ~MarkDownloaded(c)
      <4>1. ASSUME NEW c \in Conn, MarkDownloaded(c) PROVE FALSE
        <5>1. c = o
              BY <3>1, <4>1 DEF MarkDownloaded, OneActive, Active, Fetching
        <5> QED BY <2>3, <4>1, <5>1 DEF MarkDownloaded, Put, Goto, TypeParts, WorkOK
      <4> QED BY <4>1
    <3>4. Marked(db', item[o].req) \subseteq Marked(db, item[o].req)
          BY <1>4, <3>2, <3>3, MarksMove
    <3>5. Covers(db, item[o].req, Marked(db', item[o].req) \cup {item[o].file})
      <4>1. /\ Covers(db, item[o].req, Marked(db, item[o].req) \cup {item[o].file})
            /\ db.progress[item[o].req] \in Nat
            BY <1>0, <3>1, <3>2
      <4>2. Marked(db', item[o].req) \cup {item[o].file} \in SUBSET (Marked(db, item[o].req) \cup {item[o].file})
            BY <3>4
      <4> QED BY <3>2, <4>1, <4>2, CoversLess
    <3> QED BY <2>1, <3>1, <3>5 DEF Covers
  <2> QED BY <2>2, <2>3
<1> QED BY <1>1, <1>2, <1>3, <1>4

-----------------------------------------------------------------------------
(* What is counted has come *)

\* A worker may still count the file, or will be given it.
Due(r, f) ==
    \E c \in Conn :
        \/ connOpen[c] /\ \E i \in DOMAIN events[c] : About(events[c][i], r, f)
        \/ pc[c] \in Fetching \ {"mark"} /\ About(item[c], r, f)

Gone(trees, r) ==
    {f \in Wants[r] : Settled(r, f) /\ Arrived(f) /\ \A e \in trees.queue : ~About(e, r, f)}
Counted(r) == {f \in Gone(db, r) : ~Due(r, f)}

CountedCame ==
    QuietBacklog /\ ~Overlap => \A r \in Request :
        /\ db.progress[r] <= Bytes(Counted(r))
        /\ durable.progress[r] <= Bytes(Gone(durable, r))

CountedInv == /\ AskedInv /\ BacklogFirst /\ YieldedOnce /\ OutOfQueue
              /\ OneActive /\ CountsUp /\ ReceivedInv

LEMMA WasSettled ==
    ASSUME TypeParts, [Next]_vars, NEW r \in Request, NEW f \in File, Settled(r, f)
    PROVE  Settled(r, f)'
<1>1. PICK e \in Entry : e.req = r /\ e.file = f /\ WasAsked(e)
  <2> DEFINE g == [at |-> askStamp[r], file |-> f, req |-> r]
  <2>1. g \in Entry /\ g.req = r /\ g.file = f /\ WasAsked(g)
        BY DEF TypeParts, AskOK, Entry, WasAsked
  <2> QED BY <2>1
<1>2. WasAsked(e)'
      BY <1>1, SettledStays
<1> QED BY <1>1, <1>2 DEF WasAsked

\* A worker that has counted a file and marks it never counts it again.
LEMMA MarkEnds ==
    ASSUME TypeParts, [Next]_vars, NEW c \in Conn, pc[c] = "mark"
    PROVE  pc'[c] \notin Fetching \ {"mark"}
<1> USE DEF TypeParts, WorkOK, Fetching
<1>1. ASSUME NEW o \in Conn, o # c, NEW p, Goto(o, p) \/ Put(o, p) PROVE pc'[c] = pc[c]
      BY <1>1 DEF Goto, Put
<1>2. ASSUME NEW o \in Conn, Fail(o) \/ Stop(o), o # c PROVE pc'[c] = pc[c]
      BY <1>1, <1>2 DEF Fail, Stop
<1>3. ASSUME NEW o \in Conn,
             Connect(o) \/ Subscribe(o) \/ SetupDownload(o) \/ EndStream(o) \/ ReadError(o)
             \/ YieldQueued(o) \/ YieldInserted(o) \/ Dequeue(o) \/ Count(o) \/ SaveProgress(o)
      PROVE  pc'[c] = pc[c]
  <2>1. o # c
        BY <1>3 DEF Connect, Subscribe, SetupDownload, EndStream, ReadError, YieldQueued, YieldInserted,
                    Dequeue, Count, SaveProgress
  <2>2. Fail(o) \/ Stop(o) \/ \E p : Goto(o, p)
        BY <1>3 DEF Connect, Subscribe, SetupDownload, EndStream, ReadError, YieldQueued, YieldInserted,
                    Dequeue, Count, SaveProgress, Received, Take, Goto
  <2> QED BY <1>1, <1>2, <2>1, <2>2
<1>4. ASSUME NEW o \in Conn, MarkDownloaded(o) PROVE pc'[c] \in {"mark", "next"}
      BY <1>4 DEF MarkDownloaded, Put, Goto
<1>5. Crash => pc'[c] = "done"
      BY DEF Crash
<1> QED
    BY <1>3, <1>4, <1>5
    DEF Next, AskStep, WorkerStep, StreamStep, FetchStep, CompleteStep, EnvironmentStep,
        Ask, AddRequest, QueueFile, RecordFile, EndAsk, Close, EndBacklog, Receive, Tick, Flush,
        vars, workVars, fileVars

LEMMA OpensOne ==
    ASSUME TypeParts, [Next]_vars, NEW c \in Conn, connOpen'[c], ~connOpen[c]
    PROVE  Connect(c)
<1>1. \A o \in Conn : Connect(o) => o = c
      BY DEF Connect, TypeParts, StreamOK
<1>2. \A o \in Conn : ~Close(o) \/ connOpen'[c] = connOpen[c]
      BY DEF Close, TypeParts, StreamOK
<1>3. ~Crash /\ connOpen' # connOpen
      BY DEF Crash
<1> QED
    BY <1>1, <1>2, <1>3
    DEF Next, AskStep, WorkerStep, StreamStep, FetchStep, CompleteStep, EnvironmentStep,
        Ask, AddRequest, QueueFile, RecordFile, EndAsk, Subscribe, YieldQueued, EndBacklog,
        YieldInserted, SetupDownload, Receive, EndStream, ReadError, Dequeue, Count, SaveProgress,
        MarkDownloaded, Tick, Flush, vars

\* No step lets a counted file be fetched for its request again.
LEMMA NotDueAgain ==
    ASSUME TypeParts, CountedInv, QuietBacklog, [Next]_vars, NEW r \in Request, NEW f \in Counted(r)
    PROVE  ~Due(r, f)'
<1> USE DEF CountedInv
<1>0. ~Due(r, f) /\ f \in Gone(db, r) /\ Settled(r, f) /\ \A e \in db.queue : ~About(e, r, f)
      BY DEF Counted, Gone
<1>1. SUFFICES ASSUME NEW c \in Conn
               PROVE  /\ connOpen'[c] => \A i \in DOMAIN events'[c] : ~About(events'[c][i], r, f)
                      /\ pc'[c] \in Fetching \ {"mark"} => ~About(item'[c], r, f)
      BY DEF Due, About
<1>2. /\ connOpen[c] => \A i \in DOMAIN events[c] : ~About(events[c][i], r, f)
      /\ pc[c] \in Fetching \ {"mark"} => ~About(item[c], r, f)
      BY <1>0 DEF Due
<1>3. CASE Crash
      BY <1>3, CrashMoves DEF Restarts, Fetching
<1>4. CASE Connect(c)
  <2>1. pc[c] = "unused" /\ events'[c] = events[c] /\ pc'[c] = "subscribe"
        BY <1>4 DEF Connect, streamVars, TypeParts, WorkOK
  <2> QED BY <2>1 DEF BacklogFirst, Fetching
<1>5. ASSUME NEW q \in Request, QueueFile(q)
      PROVE  /\ connOpen'[c] => \A i \in DOMAIN events'[c] : ~About(events'[c][i], r, f)
             /\ pc'[c] \in Fetching \ {"mark"} => ~About(item'[c], r, f)
  <2>1. PICK e \in Entry : Adds(q, e)
        BY <1>5, Added
  <2>2. ~About(e, r, f)
        BY <1>0, <1>5, <2>1 DEF QueueFile, Adds, NewEntry, Settled, About, IsNext
  <2>3. UNCHANGED <<pc, item, connOpen>>
        BY <1>5 DEF QueueFile, fileVars
  <2>4. ASSUME connOpen'[c], NEW i \in DOMAIN events'[c] PROVE ~About(events'[c][i], r, f)
    <3>1. PICK g : g = events'[c][i]
          OBVIOUS
    <3>2. Told(c, g)'
          BY <2>4, <3>1 DEF Told
    <3>3. Told(c, g) \/ g = e
          BY <2>1, <3>2, AppendTells
    <3> QED BY <1>2, <2>2, <2>3, <2>4, <3>1, <3>3 DEF Told
  <2> QED BY <1>2, <2>3, <2>4
<1>6. CASE ~Crash /\ ~Connect(c) /\ \A q \in Request : ~QueueFile(q)
  <2>1. Moves(c) /\ (connOpen'[c] => connOpen[c])
        BY <1>6, WorkerMoves, OpensOne
  <2>2. CASE TakesInserted(c)
    <3>1. \A i \in DOMAIN events'[c] : \E j \in DOMAIN events[c] : events'[c][i] = events[c][j]
          BY <2>2, TellsNext DEF TakesInserted
    <3>2. ~About(item'[c], r, f)
          BY <1>2, <2>2, TellsNext DEF TakesInserted
    <3> QED BY <1>2, <2>1, <3>1, <3>2
  <2>3. CASE TakesQueued(c)
        BY <1>0, <1>2, <2>1, <2>3 DEF TakesQueued
  <2>4. CASE Keeps(c)
        BY <1>2, <2>1, <2>4 DEF Keeps
  <2>5. CASE Fetches(c)
        BY <1>2, <2>1, <2>5, MarkEnds DEF Fetches
  <2>6. CASE Drops(c)
        BY <1>2, <2>1, <2>6 DEF Drops, Fetching
  <2>7. CASE Starts(c)
        BY <1>2, <2>1, <2>7 DEF Starts
  <2> QED BY <2>1, <2>2, <2>3, <2>4, <2>5, <2>6, <2>7 DEF Moves
<1> QED BY <1>3, <1>4, <1>5, <1>6

\* A counted file stays counted, but for a crash.
LEMMA StaysCounted ==
    ASSUME TypeParts, CountedInv, QuietBacklog, ~Crash, [Next]_vars, NEW r \in Request
    PROVE  Counted(r) \subseteq Counted(r)'
<1>1. SUFFICES ASSUME NEW f \in Counted(r) PROVE f \in Counted(r)'
      OBVIOUS
<1>2. f \in Wants[r] /\ f \in File /\ Settled(r, f) /\ Arrived(f) /\ \A e \in db.queue : ~About(e, r, f)
      BY DEF Counted, Gone
<1>3. Settled(r, f)' /\ Arrived(f)' /\ ~Due(r, f)'
      BY <1>2, WasSettled, ArrivedStays, NotDueAgain
<1>4. \A e \in db'.queue : ~About(e, r, f)
  <2>1. ASSUME NEW q \in Request, QueueFile(q) PROVE \A e \in db'.queue : ~About(e, r, f)
    <3>1. PICK e \in Entry : Adds(q, e)
          BY <2>1, Added
    <3>2. ~About(e, r, f)
          BY <1>2, <2>1, <3>1 DEF QueueFile, Adds, NewEntry, Settled, About, IsNext
    <3>3. db'.queue \subseteq db.queue \cup {e}
          BY <3>1 DEF Adds, TypeParts, TreesOK, Trees
    <3> QED BY <1>2, <3>2, <3>3
  <2> QED BY <1>2, <2>1, QueueMoves
<1> QED BY <1>2, <1>3, <1>4 DEF Counted, Gone

LEMMA StaysGone ==
    ASSUME TypeParts, [Next]_vars, NEW r \in Request, NEW trees
    PROVE  \A f \in Gone(trees, r) : f \in Wants[r] /\ Settled(r, f)' /\ Arrived(f)'
BY WasSettled, ArrivedStays DEF Gone

\* The file whose bytes are added was not counted and is now.
LEMMA CountsFile ==
    ASSUME TypeParts, CountedInv, QuietBacklog, ~Overlap, [Next]_vars, NEW c \in Conn, SaveProgress(c),
           NEW r, NEW f, item[c].req = r, item[c].file = f
    PROVE  f \in Wants[r] \ Counted(r) /\ f \in Counted(r)'
<1> USE DEF CountedInv
<1>1. pc[c] = "save" /\ pc'[c] = "mark" /\ UNCHANGED <<item, events, connOpen>> /\ ~Crash
      BY DEF SaveProgress, Goto, TypeParts, WorkOK, fileVars, streamVars, Crash
<1>2. item[c] \in Entry /\ r \in Request /\ f \in File
      BY <1>1, InHand DEF Fetching, TypeParts, FileOf
<1>3. Settled(r, f) /\ f \in Wants[r]
      BY <1>1, <1>2 DEF AskedInv, Holds, Fetching, WasAsked, Settled
<1>4. Due(r, f)
      BY <1>1 DEF Due, Fetching, About
<1>5. Arrived(f)
      BY <1>1 DEF ReceivedInv, HandsReceived, FileOf
<1>6. Settled(r, f)' /\ Arrived(f)'
      BY <1>2, <1>3, <1>5, WasSettled, ArrivedStays
<1>7. \A e \in db'.queue : ~About(e, r, f)
  <2>1. db'.queue = db.queue
        BY DEF SaveProgress, TypeParts, TreesOK, Trees
  <2> QED BY <1>1, <2>1 DEF OutOfQueue, Counting
<1>8. ~Due(r, f)'
  <2>1. ASSUME NEW o \in Conn, o # c PROVE ~connOpen'[o] /\ pc'[o] \notin Fetching
    <3>1. pc'[o] = pc[o]
          BY <2>1 DEF SaveProgress, Goto, TypeParts, WorkOK
    <3> QED BY <1>1, <2>1, <3>1 DEF OneActive, Active, Fetching
  <2>2. \A i \in DOMAIN events'[c] : ~About(events'[c][i], r, f)
        BY <1>1 DEF YieldedOnce, Fetching
  <2>3. ASSUME NEW o \in Conn
        PROVE  /\ connOpen'[o] => \A i \in DOMAIN events'[o] : ~About(events'[o][i], r, f)
               /\ pc'[o] \notin Fetching \ {"mark"}
        BY <1>1, <2>1, <2>2, <2>3
  <2> QED BY <2>3 DEF Due, About
<1>9. f \in Counted(r)'
      BY <1>1, <1>3, <1>6, <1>7, <1>8 DEF Counted, Gone
<1> QED BY <1>1, <1>3, <1>4, <1>9 DEF Counted

LEMMA CountedStep ==
    ASSUME TypeParts, CountedInv, CountedCame, [Next]_vars
    PROVE  CountedCame'
<1> SUFFICES ASSUME QuietBacklog, ~Overlap, NEW r \in Request
             PROVE  /\ db'.progress[r] <= Bytes(Counted(r)')
                    /\ durable'.progress[r] <= Bytes(Gone(durable, r)')
    BY DEF CountedCame
<1> DEFINE C == Counted(r)
           D == Counted(r)'
           G == Gone(durable, r)
           H == Gone(durable, r)'
<1>1. /\ C \in SUBSET Wants[r] /\ D \in SUBSET Wants[r]
      /\ G \in SUBSET Wants[r] /\ H \in SUBSET Wants[r]
      BY DEF Counted, Gone
<1>2. /\ db.progress[r] <= Bytes(C) /\ durable.progress[r] <= Bytes(G)
      /\ db.progress[r] \in Nat /\ durable.progress[r] \in Nat
      /\ db'.progress[r] \in Nat /\ durable'.progress[r] \in Nat
      BY TypesStay DEF CountedCame, TypeParts, TreesOK, Trees
<1>3. ASSUME NEW S \in SUBSET Wants[r], NEW T \in SUBSET Wants[r], S \subseteq T, NEW n \in Nat,
             n <= Bytes(S)
      PROVE  n <= Bytes(T)
  <2>1. Bytes(S) <= Bytes(T) /\ Bytes(S) \in Nat /\ Bytes(T) \in Nat
        BY <1>3, WantsSums
  <2> QED BY <1>3, <2>1
<1>4. durable'.progress[r] <= Bytes(H)
  <2>1. CASE durable' = durable
    <3>1. G \subseteq H
          BY <2>1, StaysGone DEF Gone
    <3> QED BY <1>1, <1>2, <1>3, <2>1, <3>1
  <2>2. CASE durable' = db
    <3>1. C \subseteq H
          BY <2>2, StaysGone DEF Counted, Gone
    <3> QED BY <1>1, <1>2, <1>3, <2>2, <3>1
  <2> QED BY <2>1, <2>2, TreesMove
<1>5. db'.progress[r] <= Bytes(D)
  <2>1. CASE Crash
    <3>1. db' = durable /\ durable' = durable /\ \A f : ~Due(r, f)'
          BY <2>1, CrashMoves DEF Restarts, Due, Fetching
    <3>2. G \subseteq D
          BY <3>1, StaysGone DEF Counted, Gone
    <3> QED BY <1>1, <1>2, <1>3, <3>1, <3>2
  <2>2. CASE ~Crash /\ db'.progress[r] = db.progress[r]
        BY <1>1, <1>2, <1>3, <2>2, StaysCounted
  <2>3. ASSUME ~Crash, NEW c \in Conn, SaveProgress(c), item[c].req = r,
               db'.progress = [db.progress EXCEPT ![item[c].req] = sum[c]]
        PROVE  db'.progress[r] <= Bytes(D)
    <3>0. PICK f : f = item[c].file
          OBVIOUS
    <3>1. db'.progress[r] = db.progress[r] + Size[f]
          BY <2>3, <3>0 DEF SaveProgress, CountedInv, CountsUp, TypeParts, TreesOK, Trees
    <3>2. f \in Wants[r] \ C /\ f \in D
          BY <2>3, <3>0, CountsFile
    <3>3. Bytes(C \cup {f}) = Bytes(C) + Size[f] /\ Size[f] \in Nat /\ Bytes(C) \in Nat
          BY <1>1, <3>2, WantsSums
    <3>4. C \cup {f} \subseteq D
          BY <2>3, <3>2, StaysCounted
    <3>5. db'.progress[r] <= Bytes(C \cup {f})
          BY <1>2, <3>1, <3>3
    <3> QED BY <1>1, <1>2, <1>3, <3>2, <3>4, <3>5
  <2>4. \/ Crash \/ db'.progress[r] = db.progress[r]
        \/ \E c \in Conn : /\ SaveProgress(c) /\ item[c].req = r
                           /\ db'.progress = [db.progress EXCEPT ![item[c].req] = sum[c]]
        BY TreesMove DEF TypeParts, TreesOK, Trees
  <2> QED BY <2>1, <2>2, <2>3, <2>4
<1> QED BY <1>4, <1>5

ProgressInv == CountedInv /\ MarksCovered /\ CountedCame

LEMMA InitProgress == Init => ProgressInv
<1> SUFFICES ASSUME Init PROVE ProgressInv
    OBVIOUS
<1>1. /\ \A c \in Conn : /\ connOpen[c] = FALSE /\ pc[c] = "unused" /\ events[c] = <<>>
                         /\ backlog[c] = FALSE
      /\ db = Empty /\ durable = Empty /\ askTodo = Wants
      /\ \A r \in Request : askPc[r] = "idle"
      BY DEF Init
<1>2. /\ Empty.queue = {} /\ \A r \in Request : Empty.progress[r] = 0
      /\ \A r \in Request : \A f \in File : Empty.files[r][f] = "none"
      BY DEF Empty
<1>3. AskedInv
      BY <1>1, <1>2 DEF AskedInv, Told, Holds, Fetching
<1>4. BacklogFirst /\ YieldedOnce /\ OutOfQueue /\ OneActive /\ CountsUp /\ ReceivedInv
      BY <1>1, <1>2 DEF BacklogFirst, YieldedOnce, OutOfQueue, OneActive, CountsUp, ReceivedInv, Active,
         Fetching, Counting, TreesReceived, HandsReceived, NextQueued, Asked
<1>5. MarksCovered
  <2>1. \A r \in Request : Marked(Empty, r) = {}
        BY <1>2 DEF Marked
  <2>2. Bytes({}) = 0
        BY BytesSum, SumEmpty
  <2>3. ASSUME NEW r \in Request PROVE Covers(Empty, r, Marked(Empty, r))
    <3>1. Marked(Empty, r) = {} /\ Bytes(Marked(Empty, r)) = 0 /\ Empty.progress[r] = 0
          BY <1>2, <2>1, <2>2
    <3> QED BY <3>1 DEF Covers
  <2> QED BY <1>1, <2>3 DEF MarksCovered
<1>6. CountedCame
  <2>1. ASSUME NEW r \in Request, NEW S \in SUBSET Wants[r] PROVE 0 <= Bytes(S)
    <3>1. Bytes(S) \in Nat
          BY WantsSums
    <3> QED BY <3>1
  <2>2. \A r \in Request : /\ Counted(r) \in SUBSET Wants[r]
                           /\ Gone(durable, r) \in SUBSET Wants[r]
        BY DEF Counted, Gone
  <2> QED BY <1>1, <1>2, <2>1, <2>2 DEF CountedCame
<1> QED BY <1>3, <1>4, <1>5, <1>6 DEF ProgressInv, CountedInv

LEMMA ProgressStep == TypeOK /\ ProgressInv /\ [Next]_vars => ProgressInv'
BY TypeSplit, AskedStep, BacklogStep, YieldedStep, OutStep, OneStaysActive, CountsStep, ReceivedStep,
   MarksStep, CountedStep DEF ProgressInv, CountedInv

LEMMA ProgressHolds == Spec => [](TypeOK /\ ProgressInv)
BY TypeCorrect, InitProgress, ProgressStep, PTL DEF Spec

\* At every moment at which a crash may strike, the progress of a request
\* covers the files marked as downloaded and counts no byte of a file that has
\* not come, or none twice (wishlist.rs, file_completed).
THEOREM ProgressCorrect == Spec => []ProgressBounded
<1>1. ASSUME TypeOK, ProgressInv PROVE ProgressBounded
  <2> SUFFICES ASSUME QuietBacklog, ~Overlap, NEW r \in Request
               PROVE  /\ Bytes(Marked(db, r)) <= db.progress[r]
                      /\ db.progress[r] <=
                           Bytes({f \in Wants[r] : /\ Len(disk[f]) >= Size[f]
                                                   /\ \A e \in db.queue : e.file = f => e.req # r})
      BY DEF ProgressBounded, Marked
  <2> DEFINE G == {f \in Wants[r] : /\ Len(disk[f]) >= Size[f]
                                    /\ \A e \in db.queue : e.file = f => e.req # r}
  <2>1. Counted(r) \in SUBSET G /\ G \in SUBSET Wants[r]
        BY DEF Counted, Gone, Arrived, About
  <2>2. /\ db.progress[r] \in Nat /\ db.progress[r] <= Bytes(Counted(r))
        /\ Bytes(Marked(db, r)) <= db.progress[r]
        BY <1>1 DEF ProgressInv, CountedCame, MarksCovered, Covers, TypeOK, Trees
  <2> HIDE DEF G
  <2>3. Bytes(Counted(r)) <= Bytes(G) /\ Bytes(Counted(r)) \in Nat /\ Bytes(G) \in Nat
        BY <2>1, WantsSums
  <2>4. db.progress[r] <= Bytes(G)
        BY <2>2, <2>3
  <2> QED BY <2>2, <2>4 DEF G
<1> QED BY <1>1, ProgressHolds, PTL

LEMMA CompletedStep ==
    ASSUME TypeOK, ProgressInv, CompletedIsReceived, [Next]_vars
    PROVE  CompletedIsReceived'
<1> SUFFICES ASSUME QuietBacklog, ~Overlap, NEW r \in completed', NEW f \in Wants[r], Size[f] > 0
             PROVE  Arrived(f)'
    BY DEF CompletedIsReceived, Arrived
<1> USE TypeSplit DEF ProgressInv
<1>1. completed \subseteq Request /\ completed' \subseteq Request
      BY StepTypes DEF TypeOK
<1>2. f \in File
      BY <1>1
<1>3. CASE r \in completed
      BY <1>2, <1>3, ArrivedStays DEF CompletedIsReceived, Arrived
<1>4. ASSUME NEW c \in Conn, MarkDownloaded(c), r \notin completed PROVE Arrived(f)'
  <2>1. /\ pc[c] = "mark" /\ item[c].req = r /\ sum[c] = Bytes(Wants[r])
        BY <1>4 DEF MarkDownloaded, RequestComplete, TotalSize, Bytes
  <2>2. Bytes(Wants[r]) <= Bytes(Counted(r))
        BY <1>1, <2>1 DEF CountedInv, CountsUp, CountedCame
  <2>3. Counted(r) \in SUBSET Wants[r] /\ IsFiniteSet(Wants[r]) /\ Values(Size, Wants[r], Nat)
        BY <1>1 DEF Counted, Gone, Values
  <2>4. \A g \in Wants[r] \ Counted(r) : Size[g] = 0
        BY <2>2, <2>3, SumWhole, BytesSum
  <2>5. Arrived(f)
        BY <2>4 DEF Counted, Gone
  <2> QED BY <1>2, <2>5, ArrivedStays
<1>5. completed' = completed \/ \E c \in Conn : MarkDownloaded(c)
    BY DEF Next, AskStep, WorkerStep, StreamStep, FetchStep, CompleteStep, EnvironmentStep,
        Ask, AddRequest, QueueFile, RecordFile, EndAsk, Connect, Close, Subscribe, YieldQueued,
        EndBacklog, YieldInserted, SetupDownload, Receive, EndStream, ReadError, Dequeue, Count,
        SaveProgress, Tick, Flush, Crash, vars
<1> QED BY <1>3, <1>4, <1>5

\* A request is reported as complete only when every file of it that has any
\* bytes has come in full (peer.rs, process_requests).
THEOREM CompletionCorrect == Spec => []CompletedIsReceived
<1>1. Init => CompletedIsReceived
      BY DEF Init, CompletedIsReceived
<1> QED BY <1>1, CompletedStep, ProgressHolds, PTL DEF Spec
=============================================================================
