------------------------- MODULE ConfigStoreProofs -------------------------
(***************************************************************************)
(* Theorems about Config, for any number of io threads, any files and any  *)
(* number of uploads and crashes.  The inductive invariant says where a    *)
(* load stands: what it has opened, how far it has counted, and what the   *)
(* poll thread has read so far.                                            *)
(***************************************************************************)
EXTENDS ConfigStore, TLAPS

Counting == {"count", "store"}

(* A thread writes a file for an upload it was asked for.                   *)
WriteInv == \A h \in IoThreads :
    io[h] = "write" => \E u \in Uploads, m \in BOOLEAN : job[h] = Mixed(u, m)

(* What a load has opened is a file of its kind.                            *)
DocInv == \A h \in IoThreads :
    /\ io[h] \in {"reset", "count", "store"} => doc[h] \in Photos
    /\ io[h] \in {"ip", "port"} => doc[h] \in Servers

(* Nobody works unless main is up.                                          *)
MainInv == main # "up" => /\ \A h \in IoThreads : io[h] = "idle"
                          /\ poll = "idle"

WritesServer(h) == io[h] = "write" /\ job[h].kind = "server"

(* Whatever main cannot start with was left by an upload, or an upload is   *)
(* about to write it.                                                      *)
SpoiledInv ==
    /\ Bad("server", serverFile) =>
          "server" \in spoiled \/ \E h \in IoThreads : WritesServer(h)
    /\ Bad("mysql", mysqlFile) => "mysql" \in spoiled
    /\ main = "dead" => spoiled # {}

(* One load alone counts up to the size of the file it opened.              *)
TableInv == ~met.photo =>
    /\ \A g, h \in IoThreads : io[g] \in Counting /\ io[h] \in Counting => g = h
    /\ \A h \in IoThreads :
          /\ io[h] = "count" => tablenum + left[h] = doc[h].size
          /\ io[h] = "store" => tablenum = doc[h].size
    /\ TableMatchesParam

(* One load alone replaces the server fields one after the other.           *)
ServerInv == main = "up" /\ ~met.server =>
    /\ \A g, h \in IoThreads : io[g] = "port" /\ io[h] = "port" => g = h
    /\ \A h \in IoThreads : io[h] = "port" => server.ip = doc[h].ip
    /\ (\A h \in IoThreads : io[h] # "port") => server \in Servers

EntriesRead == body.entries # NoRow => body.num = body.entries.size

(* While no load has run since the task began to read, nothing is half      *)
(* loaded, and what was read so far is what stands there.                  *)
ReadInv ==
    /\ poll \in {"entries", "ip", "port"} /\ ~overlap =>
          ~Loading /\ ~met.photo /\ ~met.server
    /\ poll = "entries" /\ ~overlap => body.num = tablenum
    /\ poll \in {"ip", "port", "done"} /\ ~overlap => EntriesRead
    /\ poll = "port" /\ ~overlap => host.ip = server.ip
    /\ poll = "done" /\ ~overlap => host \in Servers

IInv == /\ TypeOK /\ WriteInv /\ DocInv /\ MainInv /\ SpoiledInv
        /\ TableInv /\ ServerInv /\ ReadInv

---------------------------------------------------------------------------
LEMMA UploadIs ==
    ASSUME NEW u \in Uploads
    PROVE  /\ u.kind \in {"photo", "server", "mysql"}
           /\ u.kind = "photo" => u.file \in Photos \union {Unreadable}
           /\ u.kind = "server" => u.file \in Servers \union {Unreadable, Lacking}
           /\ u.kind = "mysql" => u.file \in {Whole, Unreadable, Lacking}
  BY DEF Uploads

LEMMA MixedJob ==
    ASSUME NEW u \in Uploads, NEW m \in BOOLEAN PROVE Mixed(u, m) \in Jobs
  BY DEF Jobs

(* An upload is opened: its thread writes, and those beside it are mixed.   *)
LEMMA Opened ==
    ASSUME TypeOK, WriteInv, NEW h \in IoThreads, NEW u \in Uploads, UploadOpen(h, u)
    PROVE  /\ \A g \in IoThreads : job'[g] \in Jobs
           /\ WriteInv'
           /\ job'[h].kind = u.kind
           /\ \A g \in IoThreads \ {h} : io'[g] = io[g]
                  /\ (io[g] = "write" => job'[g].kind = job[g].kind)
<1> DEFINE beside == {g \in Others(h) : io[g] = "write" /\ job[g].kind = u.kind}
           meets == beside # {}
<1>1. /\ io' = [io EXCEPT ![h] = "write"]
      /\ job' = [g \in IoThreads |-> CASE g = h -> Mixed(u, meets)
                                     [] g \in beside -> Mixed(job[g], TRUE)
                                     [] OTHER -> job[g]]
  BY DEF UploadOpen, Goes
<1> h \notin beside /\ beside \subseteq IoThreads \ {h} /\ meets \in BOOLEAN
  BY DEF Others
<1> HIDE DEF meets
<1>2. job'[h] = Mixed(u, meets)
  BY <1>1
<1>3. ASSUME NEW g \in IoThreads \ {h}
      PROVE  /\ io'[g] = io[g] /\ job'[g] \in Jobs
             /\ io[g] = "write" =>
                   /\ job'[g].kind = job[g].kind
                   /\ \E v \in Uploads, m \in BOOLEAN : job'[g] = Mixed(v, m)
  <2>1. io'[g] = io[g]
    BY <1>1 DEF TypeOK
  <2>2. CASE g \in beside
    <3>1. PICK v \in Uploads, m \in BOOLEAN : job[g] = Mixed(v, m)
      BY <2>2 DEF WriteInv
    <3>2. job'[g] = Mixed(v, TRUE)
      <4>1. job'[g] = Mixed(job[g], TRUE)
        BY <1>1, <2>2
      <4> QED
        BY <3>1, <4>1 DEF Mixed
    <3>3. job'[g].kind = job[g].kind /\ job'[g] \in Jobs
      <4>1. job'[g].kind = job[g].kind
        BY <3>1, <3>2 DEF Mixed
      <4>2. job'[g] \in Jobs
        BY <3>2, MixedJob
      <4> QED
        BY <4>1, <4>2
    <3> QED
      BY <2>1, <3>2, <3>3
  <2>3. CASE g \notin beside
    <3>1. job'[g] = job[g] /\ job[g] \in Jobs
      BY <1>1, <2>3 DEF TypeOK
    <3> QED
      BY <2>1, <3>1 DEF WriteInv
  <2> QED
    BY <2>2, <2>3
<1> HIDE DEF beside
<1>4. \A g \in IoThreads :
         io'[g] = "write" => \E v \in Uploads, m \in BOOLEAN : job'[g] = Mixed(v, m)
  <2> SUFFICES ASSUME NEW g \in IoThreads, io'[g] = "write"
               PROVE  \E v \in Uploads, m \in BOOLEAN : job'[g] = Mixed(v, m)
    OBVIOUS
  <2>1. CASE g = h
    BY <1>2, <2>1
  <2>2. CASE g # h
    BY <1>3, <2>2
  <2> QED
    BY <2>1, <2>2
<1>5. job'[h] \in Jobs /\ job'[h].kind = u.kind
  BY <1>2, MixedJob DEF Mixed
<1> QED
  BY <1>3, <1>4, <1>5 DEF WriteInv

(* A thread moves on and the others stay. *)
LEMMA Gone ==
    ASSUME TypeOK, NEW h \in IoThreads, NEW from, NEW to \in Places, Goes(h, from, to)
    PROVE  /\ io' \in [IoThreads -> Places]
           /\ io[h] = from /\ io'[h] = to
           /\ \A g \in IoThreads \ {h} : io'[g] = io[g]
  BY DEF TypeOK, Goes

LEMMA AllPlaces ==
    Places = {"idle", "write", "mysql", "photo", "reset", "count", "store", "server", "ip", "port"}
  BY DEF Places, PhotoLoad, ServerLoad

LEMMA TypeStep == TypeOK /\ WriteInv /\ DocInv /\ [Next]_vars => TypeOK'
<1> SUFFICES ASSUME TypeOK, WriteInv, DocInv, [Next]_vars PROVE TypeOK'
  OBVIOUS
<1> USE DEF TypeOK, Places, PhotoLoad, ServerLoad
<1>1. CASE UNCHANGED vars
  BY <1>1 DEF vars, disk, photo, reader, counts
<1>2. CASE Start \/ StartFails
  <2>1. ~Bad("server", serverFile) => serverFile \in [ip : Texts, port : Texts]
    BY ConfigConstants DEF Bad
  <2> QED
    BY <1>2, <2>1 DEF Start, StartFails, disk, photo, reader, counts
<1>3. ASSUME Dies, uploads' = uploads, crashes' \in 0..MaxCrashes PROVE TypeOK'
  <2>1. server' \in [ip : Texts, port : Texts] /\ host' \in [ip : Texts, port : Texts]
    BY <1>3 DEF Dies, Fresh, Empty, Texts
  <2>2. job' \in [IoThreads -> Jobs]
    BY <1>3 DEF Dies, Fresh, Jobs
  <2>3. body' \in [num : Int, entries : Photos \union {NoRow}] /\ tablenum' \in Int
    BY <1>3, ConfigConstants DEF Dies, Fresh
  <2>4. spoiled' \subseteq {"server", "mysql"}
    BY <1>3 DEF Dies
  <2>5. met' \in [photo : BOOLEAN, server : BOOLEAN]
    BY <1>3 DEF Dies, Fresh
  <2> QED
    BY <1>3, <2>1, <2>2, <2>3, <2>4, <2>5 DEF Dies, Fresh
<1>4. CASE Crash
  BY <1>3, <1>4, ConfigConstants DEF Crash
<1>5. CASE ReadCount \/ ReadEntries \/ ReadIp \/ ReadPort
  <2>1. body' \in [num : Int, entries : Photos \union {NoRow}]
    BY <1>5 DEF ReadCount, ReadEntries, ReadIp, ReadPort
  <2>2. host' \in [ip : Texts, port : Texts]
    BY <1>5 DEF ReadCount, ReadEntries, ReadIp, ReadPort, readOthers
  <2>3. overlap' \in BOOLEAN
    BY <1>5 DEF ReadCount, ReadEntries, ReadIp, ReadPort
  <2> QED
    BY <1>5, <2>1, <2>2, <2>3
       DEF ReadCount, ReadEntries, ReadIp, ReadPort, readOthers, disk, photo, counts
<1>6. ASSUME NEW h \in IoThreads, NEW u \in Uploads, UploadOpen(h, u) PROVE TypeOK'
  <2>1. job' \in [IoThreads -> Jobs]
    <3>1. job' = [g \in IoThreads |-> job'[g]]
      BY <1>6 DEF UploadOpen
    <3> QED
      BY <1>6, <3>1, Opened
  <2>2. uploads' \in 0..MaxUploads
    BY <1>6, ConfigConstants DEF UploadOpen
  <2>3. io' \in [IoThreads -> Places]
    BY <1>6, Gone DEF UploadOpen
  <2>4. /\ photoFile' \in Photos \union {Unreadable}
        /\ serverFile' \in Servers \union {Unreadable, Lacking}
        /\ mysqlFile' \in {Whole, Unreadable, Lacking}
    BY <1>6 DEF UploadOpen
  <2>5. UNCHANGED <<spoiled, main, doc, left, photo, server, reader, met, overlap, crashes>>
    BY <1>6 DEF UploadOpen
  <2> QED
    BY <2>1, <2>2, <2>3, <2>4, <2>5 DEF photo, reader
<1>7. ASSUME NEW h \in IoThreads, UploadClose(h) PROVE TypeOK'
  <2>1. PICK u \in Uploads, m \in BOOLEAN : job[h] = Mixed(u, m)
    BY <1>7 DEF WriteInv, UploadClose, Goes
  <2>2. /\ photoFile' \in Photos \union {Unreadable}
        /\ serverFile' \in Servers \union {Unreadable, Lacking}
        /\ mysqlFile' \in {Whole, Unreadable, Lacking}
        /\ spoiled' \subseteq {"server", "mysql"}
    <3>1. PICK c \in {job[h].file, Unreadable} :
             /\ photoFile' = IF job[h].kind = "photo" THEN c ELSE photoFile
             /\ serverFile' = IF job[h].kind = "server" THEN c ELSE serverFile
             /\ mysqlFile' = IF job[h].kind = "mysql" THEN c ELSE mysqlFile
             /\ spoiled' = IF Bad(job[h].kind, c) THEN spoiled \union {job[h].kind}
                                                 ELSE spoiled \ {job[h].kind}
      BY <1>7 DEF UploadClose
    <3>2. Bad(job[h].kind, c) => job[h].kind \in {"server", "mysql"}
      BY DEF Bad
    <3>3. spoiled' \subseteq {"server", "mysql"}
      BY <3>1, <3>2
    <3> job[h].kind = u.kind /\ job[h].file = u.file
      BY <2>1 DEF Mixed
    <3>4. /\ job[h].kind = "photo" => c \in Photos \union {Unreadable}
          /\ job[h].kind = "server" => c \in Servers \union {Unreadable, Lacking}
          /\ job[h].kind = "mysql" => c \in {Whole, Unreadable, Lacking}
      BY <3>1, UploadIs
    <3> QED
      BY <3>1, <3>3, <3>4
  <2>3. job' \in [IoThreads -> Jobs]
    BY <1>7 DEF UploadClose, Jobs
  <2> QED
    BY <1>7, <2>2, <2>3 DEF UploadClose, Goes, Overlaps, photo, reader, counts
<1>8. ASSUME NEW h \in IoThreads, Tips(h) PROVE TypeOK'
  BY <1>8 DEF Tips, Goes, Overlaps, disk, photo, reader, counts
<1>9. ASSUME NEW h \in IoThreads, Load(h) PROVE TypeOK'
  <2> USE DEF loadOthers, serverOthers, disk, photo, reader, counts, Goes
  <2>1. CASE PhotoUnreadable(h) \/ PhotoCounted(h)
    BY <2>1 DEF PhotoUnreadable, PhotoCounted
  <2>10. CASE PhotoOpen(h)
    BY <2>10 DEF PhotoOpen
  <2>2. CASE PhotoReset(h)
    <3>1. doc[h].size \in Nat
      BY <2>2, ConfigConstants DEF PhotoReset, DocInv
    <3>2. met' \in [photo : BOOLEAN, server : BOOLEAN]
      BY <2>2 DEF PhotoReset, Meets
    <3> QED
      BY <2>2, <3>1, <3>2 DEF PhotoReset, Overlaps
  <2>3. CASE PhotoCount(h)
    BY <2>3 DEF PhotoCount, Overlaps
  <2>4. CASE PhotoStore(h)
    BY <2>4 DEF PhotoStore, Overlaps, DocInv
  <2>5. CASE ServerUnreadable(h)
    BY <2>5 DEF ServerUnreadable
  <2>11. CASE ServerOpen(h)
    BY <2>11 DEF ServerOpen
  <2>6. CASE ServerIp(h)
    <3>1. server' \in [ip : Texts, port : Texts]
      BY <2>6, ConfigConstants DEF ServerIp, DocInv
    <3>2. met' \in [photo : BOOLEAN, server : BOOLEAN]
      BY <2>6 DEF ServerIp, Meets
    <3> QED
      BY <2>6, <3>1, <3>2 DEF ServerIp, Overlaps
  <2>7. CASE ServerPort(h)
    <3>1. server' \in [ip : Texts, port : Texts]
      BY <2>7, ConfigConstants DEF ServerPort, DocInv
    <3> QED
      BY <2>7, <3>1 DEF ServerPort, Overlaps
  <2>8. CASE MysqlLoad(h)
    BY <2>8 DEF MysqlLoad, Jobs
  <2>9. CASE ElementLacking(h)
    BY <1>3, <2>9 DEF ElementLacking
  <2> QED
    BY <1>9, <2>1, <2>2, <2>3, <2>4, <2>5, <2>6, <2>7, <2>8, <2>9, <2>10, <2>11 DEF Load
<1> QED
  BY <1>1, <1>2, <1>4, <1>5, <1>6, <1>7, <1>8, <1>9 DEF Next
---------------------------------------------------------------------------
LoadGoes(h) ==
    \/ PhotoUnreadable(h) \/ PhotoOpen(h) \/ PhotoReset(h) \/ PhotoCount(h)
    \/ PhotoCounted(h) \/ PhotoStore(h)
    \/ ServerUnreadable(h) \/ ServerOpen(h) \/ ServerIp(h) \/ ServerPort(h)
    \/ MysqlLoad(h)

ThreadGoes(h) == Tips(h) \/ UploadClose(h) \/ LoadGoes(h)
Reads == ReadCount \/ ReadEntries \/ ReadIp \/ ReadPort

(* Every step is one of these. *)
LEMMA Steps ==
    ASSUME [Next]_vars
    PROVE  \/ UNCHANGED vars \/ Start \/ StartFails \/ Dies \/ Reads
           \/ \E h \in IoThreads : \/ ThreadGoes(h)
                                   \/ \E u \in Uploads : UploadOpen(h, u)
  BY DEF Next, Crash, ElementLacking, Load, LoadGoes, ThreadGoes, Reads

(* What a thread does to its own load leaves those of the others.           *)
LEMMA Alone ==
    ASSUME TypeOK, NEW h \in IoThreads, ThreadGoes(h)
    PROVE  /\ \A g \in IoThreads \ {h} : /\ io'[g] = io[g] /\ job'[g] = job[g]
                                         /\ doc'[g] = doc[g] /\ left'[g] = left[g]
           /\ io'[h] # "write" /\ main' = main /\ poll' = poll
           /\ io[h] = "idle" => main = "up"
<1> USE DEF TypeOK, loadOthers, serverOthers, reader, Goes
<1>1. CASE Tips(h) \/ UploadClose(h)
  BY <1>1 DEF Tips, UploadClose
<1>2. CASE PhotoUnreadable(h) \/ PhotoOpen(h) \/ PhotoReset(h)
  BY <1>2 DEF PhotoUnreadable, PhotoOpen, PhotoReset
<1>3. CASE PhotoCount(h) \/ PhotoCounted(h) \/ PhotoStore(h)
  BY <1>3 DEF PhotoCount, PhotoCounted, PhotoStore
<1>4. CASE ServerUnreadable(h) \/ ServerOpen(h) \/ ServerIp(h) \/ ServerPort(h) \/ MysqlLoad(h)
  BY <1>4 DEF ServerUnreadable, ServerOpen, ServerIp, ServerPort, MysqlLoad
<1> QED
  BY <1>1, <1>2, <1>3, <1>4 DEF ThreadGoes, LoadGoes

(* After a death there is nothing half done. *)
LEMMA DeadIsClean ==
    Dies => WriteInv' /\ DocInv' /\ MainInv' /\ TableInv' /\ ServerInv' /\ ReadInv'
<1> SUFFICES ASSUME Dies
             PROVE  WriteInv' /\ DocInv' /\ MainInv' /\ TableInv' /\ ServerInv' /\ ReadInv'
  OBVIOUS
<1>1. /\ main' = "down" /\ poll' = "idle" /\ param' = NoRow
      /\ \A h \in IoThreads : io'[h] = "idle"
  BY DEF Dies, Fresh
<1> QED
  BY <1>1 DEF WriteInv, DocInv, MainInv, TableInv, ServerInv, ReadInv, Counting, TableMatchesParam

LEMMA ReadsKeep ==
    Reads => UNCHANGED <<photoFile, serverFile, mysqlFile, spoiled, main, io, job, doc,
                         left, tablenum, param, server, met>>
  BY DEF Reads, ReadCount, ReadEntries, ReadIp, ReadPort, readOthers, disk, photo

LEMMA WriteStep == TypeOK /\ WriteInv /\ [Next]_vars => WriteInv'
<1> SUFFICES ASSUME TypeOK, WriteInv, [Next]_vars PROVE WriteInv'
  OBVIOUS
<1>1. CASE UNCHANGED vars \/ Start \/ StartFails \/ Reads
  <2>1. UNCHANGED <<io, job>>
    BY <1>1, ReadsKeep DEF vars, Start, StartFails
  <2> QED
    BY <2>1 DEF WriteInv
<1>2. ASSUME NEW h \in IoThreads, ThreadGoes(h) PROVE WriteInv'
  <2>1. /\ io'[h] # "write"
        /\ \A g \in IoThreads \ {h} : io'[g] = io[g] /\ job'[g] = job[g]
    BY <1>2, Alone
  <2> QED
    BY <2>1 DEF WriteInv
<1>3. ASSUME NEW h \in IoThreads, NEW u \in Uploads, UploadOpen(h, u) PROVE WriteInv'
  BY <1>3, Opened
<1> QED
  BY <1>1, <1>2, <1>3, Steps, DeadIsClean

LEMMA MainStep == TypeOK /\ MainInv /\ [Next]_vars => MainInv'
<1> SUFFICES ASSUME TypeOK, MainInv, [Next]_vars PROVE MainInv'
  OBVIOUS
<1>1. CASE UNCHANGED vars \/ Start \/ StartFails
  BY <1>1 DEF vars, Start, StartFails, MainInv, reader
<1>2. CASE Reads
  <2>1. main = "up" /\ main' = main
    BY <1>2, ReadsKeep DEF Reads, ReadCount, ReadEntries, ReadIp, ReadPort, MainInv
  <2> QED
    BY <2>1 DEF MainInv
<1>3. ASSUME NEW h \in IoThreads, ThreadGoes(h) PROVE MainInv'
  <2>1. main = "up" /\ main' = main
    BY <1>3, Alone DEF MainInv
  <2> QED
    BY <2>1 DEF MainInv
<1>4. ASSUME NEW h \in IoThreads, NEW u \in Uploads, UploadOpen(h, u) PROVE MainInv'
  BY <1>4 DEF UploadOpen, MainInv
<1> QED
  BY <1>1, <1>2, <1>3, <1>4, Steps, DeadIsClean

LEMMA DocStep == TypeOK /\ DocInv /\ [Next]_vars => DocInv'
<1> SUFFICES ASSUME TypeOK, DocInv, [Next]_vars PROVE DocInv'
  OBVIOUS
<1>1. CASE UNCHANGED vars \/ Start \/ StartFails \/ Reads
  <2>1. UNCHANGED <<io, doc>>
    BY <1>1, ReadsKeep DEF vars, Start, StartFails
  <2> QED
    BY <2>1 DEF DocInv
<1>2. ASSUME NEW h \in IoThreads, ThreadGoes(h) PROVE DocInv'
  <2>1. \A g \in IoThreads \ {h} : io'[g] = io[g] /\ doc'[g] = doc[g]
    BY <1>2, Alone
  <2> SUFFICES /\ io'[h] \in {"reset", "count", "store"} => doc'[h] \in Photos
               /\ io'[h] \in {"ip", "port"} => doc'[h] \in Servers
    BY <2>1 DEF DocInv
  <2> USE DEF TypeOK, loadOthers, serverOthers, Goes
  <2>2. CASE Tips(h) \/ UploadClose(h)
    BY <2>2 DEF Tips, UploadClose
  <2>3. CASE PhotoUnreadable(h)
    BY <2>3 DEF PhotoUnreadable
  <2>4. CASE PhotoOpen(h)
    BY <2>4 DEF PhotoOpen
  <2>5. CASE PhotoReset(h) \/ PhotoCount(h) \/ PhotoCounted(h) \/ PhotoStore(h)
    BY <2>5 DEF PhotoReset, PhotoCount, PhotoCounted, PhotoStore, DocInv
  <2>6. CASE ServerUnreadable(h) \/ ServerOpen(h) \/ ServerIp(h) \/ ServerPort(h) \/ MysqlLoad(h)
    BY <2>6 DEF ServerUnreadable, ServerOpen, ServerIp, ServerPort, MysqlLoad, DocInv
  <2> QED
    BY <1>2, <2>2, <2>3, <2>4, <2>5, <2>6 DEF ThreadGoes, LoadGoes
<1>3. ASSUME NEW h \in IoThreads, NEW u \in Uploads, UploadOpen(h, u) PROVE DocInv'
  <2>1. /\ io'[h] = "write" /\ doc' = doc
        /\ \A g \in IoThreads \ {h} : io'[g] = io[g]
    BY <1>3 DEF UploadOpen, Goes, TypeOK
  <2> QED
    BY <2>1 DEF DocInv
<1> QED
  BY <1>1, <1>2, <1>3, Steps, DeadIsClean
---------------------------------------------------------------------------
LEMMA SpoiledStep ==
    TypeOK /\ WriteInv /\ MainInv /\ SpoiledInv /\ [Next]_vars => SpoiledInv'
<1> SUFFICES ASSUME TypeOK, WriteInv, MainInv, SpoiledInv, [Next]_vars PROVE SpoiledInv'
  OBVIOUS
<1>1. CASE UNCHANGED vars \/ Start \/ Reads
  <2>1. UNCHANGED <<serverFile, mysqlFile, spoiled, io, job>> /\ (main' = main \/ main' = "up")
    BY <1>1, ReadsKeep DEF vars, Start, disk
  <2> QED
    BY <2>1 DEF SpoiledInv, WritesServer, Bad
<1>2. CASE StartFails
  <2>1. spoiled # {}
    BY <1>2 DEF StartFails, SpoiledInv, MainInv, WritesServer
  <2>2. UNCHANGED <<serverFile, mysqlFile, spoiled, io, job>>
    BY <1>2 DEF StartFails, disk
  <2> QED
    BY <2>1, <2>2 DEF SpoiledInv, WritesServer, Bad
<1>3. CASE Dies
  <2>1. /\ main' = "down" /\ UNCHANGED <<serverFile, mysqlFile>>
        /\ spoiled \subseteq spoiled'
        /\ (\E h \in IoThreads : WritesServer(h)) => "server" \in spoiled'
    BY <1>3 DEF Dies, WritesServer
  <2> QED
    BY <2>1 DEF SpoiledInv, Bad
<1>4. ASSUME NEW h \in IoThreads, NEW u \in Uploads, UploadOpen(h, u) PROVE SpoiledInv'
  <2>1. /\ io'[h] = "write" /\ job'[h].kind = u.kind
        /\ \A g \in IoThreads \ {h} : /\ io'[g] = io[g]
                                      /\ io[g] = "write" => job'[g].kind = job[g].kind
    <3>1. io'[h] = "write"
      BY <1>4 DEF UploadOpen, Goes, TypeOK
    <3>2. WriteInv
      OBVIOUS
    <3> QED
      BY <1>4, <3>1, <3>2, Opened
  <2>2. /\ main = "up" /\ main' = main /\ spoiled' = spoiled /\ io[h] = "idle"
        /\ serverFile' = IF u.kind = "server" THEN Unreadable ELSE serverFile
        /\ mysqlFile' = IF u.kind = "mysql" THEN Unreadable ELSE mysqlFile
    BY <1>4 DEF UploadOpen, Goes
  <2>3. Bad("mysql", mysqlFile') => "mysql" \in spoiled
    BY <2>2, ConfigConstants DEF Bad, SpoiledInv
  <2>4. Bad("server", serverFile') =>
           "server" \in spoiled \/ \E g \in IoThreads : io'[g] = "write" /\ job'[g].kind = "server"
    <3>1. CASE u.kind = "server"
      BY <2>1, <3>1
    <3>2. CASE u.kind # "server"
      BY <2>1, <2>2, <3>2 DEF SpoiledInv, WritesServer
    <3> QED
      BY <3>1, <3>2
  <2> QED
    BY <2>2, <2>3, <2>4 DEF SpoiledInv, WritesServer, Bad
<1>5. ASSUME NEW h \in IoThreads, UploadClose(h) PROVE SpoiledInv'
  <2>1. io[h] = "write" /\ main' = main /\ main = "up"
    BY <1>5 DEF UploadClose, Goes, MainInv
  <2>2. /\ job[h].kind \in {"photo", "server", "mysql"}
        /\ \A g \in IoThreads \ {h} : io'[g] = io[g] /\ job'[g] = job[g]
    <3>1. PICK u \in Uploads, m \in BOOLEAN : job[h] = Mixed(u, m)
      BY <2>1 DEF WriteInv
    <3>2. job[h].kind = u.kind
      BY <3>1 DEF Mixed
    <3> QED
      BY <1>5, <3>2, UploadIs, Alone DEF ThreadGoes
  <2>3. PICK c :
           /\ serverFile' = IF job[h].kind = "server" THEN c ELSE serverFile
           /\ mysqlFile' = IF job[h].kind = "mysql" THEN c ELSE mysqlFile
           /\ spoiled' = IF Bad(job[h].kind, c) THEN spoiled \union {job[h].kind}
                                               ELSE spoiled \ {job[h].kind}
    BY <1>5 DEF UploadClose
  <2>4. CASE job[h].kind = "photo"
    BY <2>1, <2>2, <2>3, <2>4 DEF SpoiledInv, WritesServer, Bad
  <2>5. CASE job[h].kind = "server"
    BY <2>1, <2>2, <2>3, <2>5 DEF SpoiledInv, WritesServer, Bad
  <2>6. CASE job[h].kind = "mysql"
    BY <2>1, <2>2, <2>3, <2>6 DEF SpoiledInv, WritesServer, Bad
  <2> QED
    BY <2>2, <2>4, <2>5, <2>6
<1>6. ASSUME NEW h \in IoThreads, Tips(h) \/ LoadGoes(h) PROVE SpoiledInv'
  <2>1. /\ UNCHANGED <<serverFile, mysqlFile, spoiled, main>>
        /\ io[h] # "write"
    BY <1>6 DEF Tips, LoadGoes, PhotoUnreadable, PhotoOpen, PhotoReset, PhotoCount, PhotoCounted,
         PhotoStore, ServerUnreadable, ServerOpen, ServerIp, ServerPort, MysqlLoad,
         loadOthers, serverOthers, disk, Goes
  <2>2. \A g \in IoThreads \ {h} : io'[g] = io[g] /\ job'[g] = job[g]
    BY <1>6, Alone DEF ThreadGoes
  <2> QED
    BY <2>1, <2>2 DEF SpoiledInv, WritesServer, Bad
<1> QED
  BY <1>1, <1>2, <1>3, <1>4, <1>5, <1>6, Steps DEF ThreadGoes

---------------------------------------------------------------------------
(* A step that touches no count and nothing of a thread that counts.        *)
LEMMA TableKept ==
    ASSUME TableInv, met'.photo = met.photo, UNCHANGED <<tablenum, param>>,
           \A g \in IoThreads : io[g] \in Counting \/ io'[g] \in Counting =>
               io'[g] = io[g] /\ doc'[g] = doc[g] /\ left'[g] = left[g]
    PROVE  TableInv'
<1>1. \A g \in IoThreads : io'[g] \in Counting <=> io[g] \in Counting
  OBVIOUS
<1>2. TableMatchesParam => TableMatchesParam'
  BY <1>1 DEF TableMatchesParam, Counting
<1> QED
  BY <1>1, <1>2 DEF TableInv, Counting

LEMMA TableStep == TypeOK /\ DocInv /\ TableInv /\ [Next]_vars => TableInv'
<1> SUFFICES ASSUME TypeOK, DocInv, TableInv, [Next]_vars PROVE TableInv'
  OBVIOUS
<1>1. CASE UNCHANGED vars \/ Start \/ StartFails \/ Reads
  <2>1. UNCHANGED <<io, doc, left, tablenum, param, met>>
    BY <1>1, ReadsKeep DEF vars, Start, StartFails, photo
  <2> QED
    BY <2>1, TableKept
<1>2. ASSUME NEW h \in IoThreads, NEW u \in Uploads, UploadOpen(h, u) PROVE TableInv'
  <2>1. /\ UNCHANGED <<doc, left, tablenum, param, met>>
        /\ io[h] \notin Counting /\ io'[h] \notin Counting
        /\ \A g \in IoThreads \ {h} : io'[g] = io[g]
    BY <1>2 DEF UploadOpen, Goes, TypeOK, photo, Counting
  <2> QED
    BY <2>1, TableKept
<1>3. ASSUME NEW h \in IoThreads, ThreadGoes(h),
             \/ Tips(h) \/ UploadClose(h) \/ PhotoUnreadable(h) \/ PhotoOpen(h)
             \/ ServerUnreadable(h) \/ ServerOpen(h) \/ ServerIp(h) \/ ServerPort(h) \/ MysqlLoad(h)
      PROVE  TableInv'
  <2>1. /\ UNCHANGED <<tablenum, param>>
        /\ io[h] \notin Counting /\ io'[h] \notin Counting
        /\ met'.photo = met.photo
    <3> USE DEF loadOthers, serverOthers, photo, Goes, TypeOK, Counting
    <3>1. CASE Tips(h) \/ UploadClose(h)
      BY <3>1 DEF Tips, UploadClose
    <3>2. CASE PhotoUnreadable(h) \/ PhotoOpen(h)
      BY <3>2 DEF PhotoUnreadable, PhotoOpen
    <3>3. CASE ServerUnreadable(h) \/ ServerOpen(h) \/ ServerPort(h) \/ MysqlLoad(h)
      BY <3>3 DEF ServerUnreadable, ServerOpen, ServerPort, MysqlLoad
    <3>4. CASE ServerIp(h)
      BY <3>4 DEF ServerIp, Meets
    <3> QED
      BY <1>3, <3>1, <3>2, <3>3, <3>4
  <2> QED
    BY <1>3, <2>1, Alone, TableKept
<1>4. ASSUME NEW h \in IoThreads, PhotoReset(h) PROVE TableInv'
  <2>1. /\ tablenum' = 0 /\ left'[h] = doc[h].size /\ doc' = doc /\ io'[h] = "count"
        /\ \A g \in IoThreads \ {h} : io'[g] = io[g]
        /\ met'.photo = \E g \in Others(h) : io[g] \in {"count", "store"}
    BY <1>4 DEF PhotoReset, Goes, TypeOK, Meets
  <2>2. doc[h].size \in Nat
    BY <1>4, ConfigConstants DEF PhotoReset, Goes, DocInv
  <2>3. SUFFICES ASSUME ~met'.photo PROVE TableInv'
    BY DEF TableInv
  <2>4. \A g \in IoThreads \ {h} : io'[g] \notin Counting
    BY <2>1, <2>3 DEF Others, Counting
  <2>5. TableMatchesParam'
    BY <2>1 DEF TableMatchesParam
  <2> QED
    BY <2>1, <2>2, <2>4, <2>5 DEF TableInv, Counting
<1>5. ASSUME NEW h \in IoThreads, PhotoCount(h) PROVE TableInv'
  <2>1. /\ io[h] = "count" /\ io' = io /\ doc' = doc /\ met' = met
        /\ left[h] \in Nat /\ left'[h] = left[h] - 1
        /\ tablenum' = tablenum + 1 \/ \E g \in Others(h) : io[g] = "count"
    BY <1>5 DEF PhotoCount, TypeOK
  <2>2. SUFFICES ASSUME ~met.photo PROVE TableInv'
    BY <2>1 DEF TableInv
  <2>3. \A g \in IoThreads \ {h} : io[g] \notin Counting
    BY <2>1, <2>2 DEF TableInv, Counting
  <2>4. tablenum' = tablenum + 1
    BY <2>1, <2>3 DEF Others, Counting
  <2>5. TableMatchesParam'
    BY <2>1 DEF TableMatchesParam
  <2>6. doc[h].size \in Nat /\ tablenum + left[h] = doc[h].size /\ tablenum \in Int
    BY <2>1, <2>2, ConfigConstants DEF TableInv, DocInv, TypeOK
  <2> QED
    BY <2>1, <2>3, <2>4, <2>5, <2>6 DEF TableInv, Counting
<1>6. ASSUME NEW h \in IoThreads, PhotoCounted(h) PROVE TableInv'
  <2>1. /\ io[h] = "count" /\ io'[h] = "store" /\ left[h] = 0
        /\ \A g \in IoThreads \ {h} : io'[g] = io[g]
        /\ UNCHANGED <<doc, left, tablenum, param, met>>
    BY <1>6 DEF PhotoCounted, Goes, TypeOK, photo
  <2>2. SUFFICES ASSUME ~met.photo PROVE TableInv'
    BY <2>1 DEF TableInv
  <2>3. tablenum = doc[h].size
    BY <2>1, <2>2 DEF TableInv, TypeOK
  <2>4. TableMatchesParam'
    BY <2>1 DEF TableMatchesParam
  <2> QED
    BY <2>1, <2>2, <2>3, <2>4 DEF TableInv, Counting
<1>7. ASSUME NEW h \in IoThreads, PhotoStore(h) PROVE TableInv'
  <2>1. /\ io[h] = "store" /\ io'[h] \notin Counting
        /\ \A g \in IoThreads \ {h} : io'[g] = io[g]
        /\ param' = doc[h] /\ UNCHANGED <<tablenum, met>>
    BY <1>7 DEF PhotoStore, Goes, TypeOK, Counting
  <2>2. SUFFICES ASSUME ~met.photo PROVE TableInv'
    BY <2>1 DEF TableInv
  <2>3. /\ tablenum = doc[h].size
        /\ \A g \in IoThreads : io'[g] \notin Counting
    BY <2>1, <2>2 DEF TableInv, Counting
  <2> QED
    BY <2>1, <2>3 DEF TableInv, TableMatchesParam, Counting
<1>8. ASSUME NEW h \in IoThreads, ThreadGoes(h) PROVE TableInv'
  BY <1>3, <1>4, <1>5, <1>6, <1>7, <1>8 DEF ThreadGoes, LoadGoes
<1> QED
  BY <1>1, <1>2, <1>8, Steps, DeadIsClean

---------------------------------------------------------------------------
(* A step that touches neither the fields nor a thread between the two.     *)
LEMMA ServerKept ==
    ASSUME ServerInv, met'.server = met.server, UNCHANGED <<main, server>>,
           \A g \in IoThreads : io[g] = "port" \/ io'[g] = "port" =>
               io'[g] = io[g] /\ doc'[g] = doc[g]
    PROVE  ServerInv'
<1>1. \A g \in IoThreads : io'[g] = "port" <=> io[g] = "port"
  OBVIOUS
<1> QED
  BY <1>1 DEF ServerInv

LEMMA ServerStep ==
    TypeOK /\ DocInv /\ MainInv /\ ServerInv /\ [Next]_vars => ServerInv'
<1> SUFFICES ASSUME TypeOK, DocInv, MainInv, ServerInv, [Next]_vars PROVE ServerInv'
  OBVIOUS
<1>1. CASE UNCHANGED vars \/ Reads
  <2>1. UNCHANGED <<io, doc, server, main, met>>
    BY <1>1, ReadsKeep DEF vars
  <2> QED
    BY <2>1, ServerKept
<1>2. CASE Start \/ StartFails
  <2>1. CASE Start
    <3>1. /\ server' \in Servers /\ io' = io
          /\ \A h \in IoThreads : io[h] = "idle"
      BY <2>1, ConfigConstants DEF Start, MainInv, Bad
    <3> QED
      BY <3>1 DEF ServerInv
  <2>2. CASE StartFails
    BY <2>2 DEF StartFails, ServerInv
  <2> QED
    BY <1>2, <2>1, <2>2
<1>3. ASSUME NEW h \in IoThreads, NEW u \in Uploads, UploadOpen(h, u) PROVE ServerInv'
  <2>1. /\ UNCHANGED <<doc, server, main, met>>
        /\ io[h] # "port" /\ io'[h] # "port"
        /\ \A g \in IoThreads \ {h} : io'[g] = io[g]
    BY <1>3 DEF UploadOpen, Goes, TypeOK
  <2> QED
    BY <2>1, ServerKept
<1>4. ASSUME NEW h \in IoThreads, ThreadGoes(h), ~ServerIp(h), ~ServerPort(h) PROVE ServerInv'
  <2>1. /\ server' = server
        /\ io[h] # "port" /\ io'[h] # "port"
        /\ met'.server = met.server
    <3> USE DEF loadOthers, serverOthers, Goes, TypeOK
    <3>1. CASE Tips(h) \/ UploadClose(h)
      BY <3>1 DEF Tips, UploadClose
    <3>2. CASE PhotoUnreadable(h) \/ PhotoOpen(h) \/ PhotoCount(h) \/ PhotoCounted(h) \/ PhotoStore(h)
      BY <3>2 DEF PhotoUnreadable, PhotoOpen, PhotoCount, PhotoCounted, PhotoStore
    <3>3. CASE PhotoReset(h)
      BY <3>3 DEF PhotoReset, Meets
    <3>4. CASE ServerUnreadable(h) \/ ServerOpen(h) \/ MysqlLoad(h)
      BY <3>4 DEF ServerUnreadable, ServerOpen, MysqlLoad
    <3> QED
      BY <1>4, <3>1, <3>2, <3>3, <3>4 DEF ThreadGoes, LoadGoes
  <2> QED
    BY <1>4, <2>1, Alone, ServerKept
<1>5. ASSUME NEW h \in IoThreads, ServerIp(h) PROVE ServerInv'
  <2>1. /\ io'[h] = "port" /\ doc' = doc /\ server'.ip = doc[h].ip
        /\ \A g \in IoThreads \ {h} : io'[g] = io[g]
        /\ met'.server = \E g \in Others(h) : io[g] = "port"
    BY <1>5 DEF ServerIp, Goes, TypeOK, Meets
  <2>2. SUFFICES ASSUME ~met'.server PROVE ServerInv'
    BY DEF ServerInv
  <2>3. \A g \in IoThreads \ {h} : io'[g] # "port"
    BY <2>1, <2>2 DEF Others
  <2> QED
    BY <2>1, <2>3 DEF ServerInv
<1>6. ASSUME NEW h \in IoThreads, ServerPort(h) PROVE ServerInv'
  <2>1. /\ io[h] = "port" /\ io'[h] # "port" /\ met' = met /\ main' = main
        /\ server' = [server EXCEPT !.port = doc[h].port]
        /\ \A g \in IoThreads \ {h} : io'[g] = io[g]
        /\ doc[h] \in Servers
    BY <1>6 DEF ServerPort, Goes, TypeOK, serverOthers, DocInv
  <2>2. SUFFICES ASSUME main = "up", ~met.server PROVE ServerInv'
    BY <2>1 DEF ServerInv
  <2>3. /\ server.ip = doc[h].ip
        /\ \A g \in IoThreads : io'[g] # "port"
    BY <2>1, <2>2 DEF ServerInv
  <2>4. server' = doc[h]
    BY <2>1, <2>3, ConfigConstants DEF TypeOK
  <2> QED
    BY <2>1, <2>3, <2>4 DEF ServerInv
<1> QED
  BY <1>1, <1>2, <1>3, <1>4, <1>5, <1>6, Steps, DeadIsClean
---------------------------------------------------------------------------
LEMMA ReadStep ==
    TypeOK /\ MainInv /\ TableInv /\ ServerInv /\ ReadInv /\ [Next]_vars => ReadInv'
<1> SUFFICES ASSUME TypeOK, MainInv, TableInv, ServerInv, ReadInv, [Next]_vars PROVE ReadInv'
  OBVIOUS
<1>1. CASE UNCHANGED vars
  BY <1>1 DEF vars, reader, photo, ReadInv, Loading, EntriesRead
<1>2. CASE Start \/ StartFails
  <2>1. poll' = "idle"
    BY <1>2 DEF Start, StartFails, MainInv, reader
  <2> QED
    BY <2>1 DEF ReadInv
<1>3. CASE ReadCount
  <2>1. /\ poll' = "entries" /\ overlap' = (Loading \/ met.photo \/ met.server)
        /\ body'.num = tablenum /\ UNCHANGED <<io, tablenum, met>>
    BY <1>3 DEF ReadCount, readOthers, photo
  <2> QED
    BY <2>1 DEF ReadInv, Loading
<1>4. CASE ReadEntries
  <2>1. /\ poll = "entries" /\ poll' = "ip" /\ overlap' = overlap
        /\ body'.num = body.num /\ body'.entries = param
        /\ UNCHANGED <<io, met>>
    BY <1>4 DEF ReadEntries, readOthers, TypeOK
  <2>2. ~overlap => TableMatchesParam /\ body.num = tablenum
    BY <2>1 DEF ReadInv, TableInv
  <2>3. ~overlap => \A h \in IoThreads : io[h] \notin {"count", "store"}
    BY <2>1 DEF ReadInv, Loading, PhotoLoad
  <2>4. ~overlap => EntriesRead'
    BY <2>1, <2>2, <2>3, ConfigConstants DEF EntriesRead, TableMatchesParam
  <2> QED
    BY <2>1, <2>4 DEF ReadInv, Loading
<1>5. CASE ReadIp
  <2>1. /\ poll = "ip" /\ poll' = "port" /\ overlap' = overlap /\ host'.ip = server.ip
        /\ UNCHANGED <<io, met, body, server>>
    BY <1>5 DEF ReadIp, readOthers, TypeOK
  <2> QED
    BY <2>1 DEF ReadInv, Loading, EntriesRead
<1>6. CASE ReadPort
  <2>1. /\ poll = "port" /\ poll' = "done" /\ overlap' = overlap
        /\ host' = [host EXCEPT !.port = server.port] /\ body' = body
    BY <1>6 DEF ReadPort
  <2>2. ~overlap => host.ip = server.ip /\ server \in Servers
    <3>1. main = "up"
      BY <2>1 DEF MainInv
    <3>2. ~overlap => ~met.server /\ \A h \in IoThreads : io[h] # "port"
      BY <2>1 DEF ReadInv, Loading, ServerLoad
    <3> QED
      BY <2>1, <3>1, <3>2 DEF ReadInv, ServerInv
  <2>3. host.ip = server.ip => host' = server
    BY <2>1 DEF TypeOK
  <2> QED
    BY <2>1, <2>2, <2>3 DEF ReadInv, EntriesRead
<1>7. ASSUME NEW h \in IoThreads, NEW u \in Uploads, UploadOpen(h, u) PROVE ReadInv'
  <2>1. /\ UNCHANGED <<poll, body, host, overlap, tablenum, server, met>>
        /\ io'[h] = "write"
        /\ \A g \in IoThreads \ {h} : io'[g] = io[g]
    BY <1>7 DEF UploadOpen, Goes, TypeOK, reader, photo
  <2>2. Loading' => Loading
    BY <2>1 DEF Loading, PhotoLoad, ServerLoad
  <2> QED
    BY <2>1, <2>2 DEF ReadInv, EntriesRead
<1>8. ASSUME NEW h \in IoThreads, ThreadGoes(h) PROVE ReadInv'
  <2>1. UNCHANGED <<poll, body, host>>
    BY <1>8 DEF ThreadGoes, LoadGoes, Tips, UploadClose, PhotoUnreadable, PhotoOpen, PhotoReset,
         PhotoCount, PhotoCounted, PhotoStore, ServerUnreadable, ServerOpen, ServerIp, ServerPort,
         MysqlLoad, loadOthers, serverOthers, reader
  <2>2. \/ Overlaps
        \/ overlap' = overlap /\ Loading
        \/ overlap' = overlap /\ io'[h] = "idle" /\ UNCHANGED <<tablenum, server, met>>
    <3> USE DEF loadOthers, serverOthers, photo, Goes, TypeOK
    <3>1. CASE Tips(h) \/ UploadClose(h) \/ PhotoReset(h) \/ PhotoCount(h) \/ PhotoStore(h)
      BY <3>1 DEF Tips, UploadClose, PhotoReset, PhotoCount, PhotoStore
    <3>2. CASE ServerIp(h) \/ ServerPort(h)
      BY <3>2 DEF ServerIp, ServerPort
    <3>3. CASE PhotoUnreadable(h) \/ PhotoOpen(h) \/ PhotoCounted(h)
      BY <3>3 DEF PhotoUnreadable, PhotoOpen, PhotoCounted, Loading, PhotoLoad
    <3>4. CASE ServerUnreadable(h) \/ ServerOpen(h)
      BY <3>4 DEF ServerUnreadable, ServerOpen, Loading, ServerLoad
    <3>5. CASE MysqlLoad(h)
      BY <3>5 DEF MysqlLoad
    <3> QED
      BY <1>8, <3>1, <3>2, <3>3, <3>4, <3>5 DEF ThreadGoes, LoadGoes
  <2>3. CASE Overlaps \/ (overlap' = overlap /\ Loading)
    BY <2>1, <2>3 DEF Overlaps, ReadInv, EntriesRead
  <2>4. CASE overlap' = overlap /\ io'[h] = "idle" /\ UNCHANGED <<tablenum, server, met>>
    <3>1. \A g \in IoThreads \ {h} : io'[g] = io[g]
      BY <1>8, Alone
    <3>2. Loading' => Loading
      BY <2>4, <3>1 DEF Loading, PhotoLoad, ServerLoad
    <3> QED
      BY <2>1, <2>4, <3>2 DEF ReadInv, EntriesRead
  <2> QED
    BY <2>2, <2>3, <2>4
<1> QED
  BY <1>1, <1>2, <1>3, <1>4, <1>5, <1>6, <1>7, <1>8, Steps, DeadIsClean DEF Reads

---------------------------------------------------------------------------
LEMMA InitIsClean == Init => IInv
<1> SUFFICES ASSUME Init PROVE IInv
  OBVIOUS
<1> USE DEF Init
<1>1. TypeOK
  <2>1. server \in [ip : Texts, port : Texts] /\ host \in [ip : Texts, port : Texts]
    BY DEF Empty, Texts
  <2>2. job \in [IoThreads -> Jobs] /\ io \in [IoThreads -> Places]
    BY DEF Jobs, Places
  <2>3. body \in [num : Int, entries : Photos \union {NoRow}] /\ tablenum \in Int
    BY ConfigConstants
  <2>4. uploads \in 0..MaxUploads /\ crashes \in 0..MaxCrashes
    BY ConfigConstants
  <2>5. /\ photoFile \in Photos /\ serverFile \in Servers
        /\ doc \in [IoThreads -> Photos \union Servers \union {Unreadable}]
        /\ left \in [IoThreads -> Nat]
    BY ConfigConstants
  <2>6. met \in [photo : BOOLEAN, server : BOOLEAN] /\ overlap \in BOOLEAN
    OBVIOUS
  <2> QED
    BY <2>1, <2>2, <2>3, <2>4, <2>5, <2>6 DEF TypeOK
<1>2. WriteInv /\ DocInv /\ MainInv /\ TableInv /\ ServerInv /\ ReadInv
  BY DEF WriteInv, DocInv, MainInv, TableInv, ServerInv, ReadInv, Counting, TableMatchesParam
<1>3. SpoiledInv
  BY ConfigConstants DEF SpoiledInv, Bad
<1> QED
  BY <1>1, <1>2, <1>3 DEF IInv

(* The invariant holds in every state.                                      *)
THEOREM Invariant == Spec => []IInv
<1>1. Init => IInv
  BY InitIsClean
<1>2. IInv /\ [Next]_vars => IInv'
  BY TypeStep, WriteStep, DocStep, MainStep, SpoiledStep, TableStep, ServerStep, ReadStep DEF IInv
<1> QED
  BY <1>1, <1>2, PTL DEF Spec

(* Every value is of its type: in particular the count never leaves the     *)
(* integers and what is read of a server is made of texts of server files.  *)
THEOREM TypeCorrect == Spec => []TypeOK
<1>1. IInv => TypeOK
  BY DEF IInv
<1> QED
  BY <1>1, Invariant, PTL

(* A start that fails was spoiled by an upload of a file (config.cpp's      *)
(* loads dereference the missing element, main.cpp:49 throws at a server_ip *)
(* that is no address); nothing else outlives a death.                      *)
THEOREM StartFailsOnlyWhenSpoiledHolds == Spec => []StartFailsOnlyWhenSpoiled
<1>1. IInv => StartFailsOnlyWhenSpoiled
  BY DEF IInv, SpoiledInv, StartFailsOnlyWhenSpoiled
<1> QED
  BY <1>1, Invariant, PTL

(* tablenum counts the entries of param (loadphoto_config), unless the last *)
(* load began in the middle of another: with any number of threads, and    *)
(* after any number of races, one load alone puts it right.                 *)
THEOREM TableMatchesUnlessMetHolds == Spec => []TableMatchesUnlessMet
<1>1. IInv => TableMatchesUnlessMet
  BY DEF IInv, TableInv, TableMatchesUnlessMet
<1> QED
  BY <1>1, Invariant, PTL

(* What a task has read of the object (photoTask.cpp's jsonToRobot and      *)
(* eaToRobot) is one whole configuration, unless a load was running.        *)
THEOREM TaskReadsWholeConfigHolds == Spec => []TaskReadsWholeConfig
<1>1. IInv => TaskReadsWholeConfig
  BY DEF IInv, ReadInv, EntriesRead, TaskReadsWholeConfig
<1> QED
  BY <1>1, Invariant, PTL
=============================================================================
