---------------------------- MODULE ConfigStore ----------------------------
(***************************************************************************)
(* Config (src/Include/robot_config/Header/config.h): one object with no   *)
(* lock, filled from photo_config.xml, server_config.xml and               *)
(* mysql_config.xml.  main loads the last two when it starts; an io thread  *)
(* loads the photo file for a task of ACTION 1 and all three after an      *)
(* upload to /robot/configs, which first rewrites one of them; the poll    *)
(* thread reads the object when it runs a task.                            *)
(*                                                                         *)
(* A photo file has a size, the number of its camtype elements; a server   *)
(* file has ea_ip and ea_port (its other fields are like them), and is in  *)
(* Numeric if its server_ip is an address.  Bad files: Unreadable is what  *)
(* LoadFile rejects (an empty or half-written file); Lacking is XML        *)
(* without the elements the code reads.  What the mysql                    *)
(* file says is used once, by main for the connection of the log, before   *)
(* anybody writes it again: of that file only Whole or not is modelled.    *)
(***************************************************************************)
EXTENDS Integers

CONSTANTS IoThreads,
          Photos,         \* whole photo files: records with a size
          Servers,        \* whole server files: records with ip and port
          Numeric,        \* those whose server_ip make_address accepts
          Junk,           \* what tablenum holds before it is first assigned
          Unreadable, Lacking, Whole,
          NoRow,          \* param before it has a "row"
          FirstServer,    \* the server file the program is shipped with
          FirstPhoto,     \* and its photo file
          MaxUploads, MaxCrashes   \* bounds

(* The texts the elements of a server file may have.                        *)
Texts == {""} \union {f.ip : f \in Servers} \union {f.port : f \in Servers}

ASSUME ConfigConstants ==
    /\ \A f \in Photos : f.size \in Nat
    /\ FirstPhoto \in Photos
    /\ Servers \subseteq [ip : Texts, port : Texts]
    /\ FirstServer \in Numeric /\ Numeric \subseteq Servers
    /\ Junk \in Int
    /\ NoRow \notin Photos
    /\ Unreadable \notin Servers \union Photos /\ Lacking \notin Servers
    /\ Whole \notin {Unreadable, Lacking} /\ Unreadable # Lacking
    /\ MaxUploads \in Nat /\ MaxCrashes \in Nat

VARIABLES
    photoFile, serverFile, mysqlFile,   \* the files on disk
    main,       \* "down", "up", or "dead": a start that failed
    io, job,    \* per io thread: place, and the upload it serves or Idle
    doc,        \* per io thread: the file LoadFile read
    left,       \* per io thread: camtype elements still to count
    tablenum, param,        \* photo_config: its count and its entries
    server,                 \* ser_config: ip and port
    poll, body, host,       \* the poll thread: place, the body and host read
    met,        \* history: of each kind, did the last two loads overlap
    overlap,    \* history: did a load run while the task read
    spoiled,    \* history: the files last left such that main cannot start
    uploads, crashes

disk  == <<photoFile, serverFile, mysqlFile, spoiled>>
photo == <<tablenum, param>>
reader == <<poll, body, host>>
counts == <<uploads, crashes>>
vars == <<disk, main, io, job, doc, left, photo, server, reader, met, overlap, counts>>

Idle == [kind |-> "none"]
Uploads ==      [kind : {"photo"}, file : Photos \union {Unreadable}]
         \union [kind : {"server"}, file : Servers \union {Unreadable, Lacking}]
         \union [kind : {"mysql"}, file : {Whole, Unreadable, Lacking}]
Mixed(u, m) == [kind |-> u.kind, file |-> u.file, mixed |-> m]
Jobs  == {Mixed(u, m) : u \in Uploads, m \in BOOLEAN} \union {Idle, [kind |-> "loads"]}

PhotoLoad == {"photo", "reset", "count", "store"}
ServerLoad == {"server", "ip", "port"}
Places == {"idle", "write", "mysql"} \union PhotoLoad \union ServerLoad

(* What main cannot start with.  A mysql file that cannot be read only      *)
(* leaves the strings empty, and the log without a connection.             *)
Bad(kind, c) == \/ kind = "server" /\ c \notin Numeric
                \/ kind = "mysql" /\ c = Lacking
Loading == \E h \in IoThreads : io[h] \in PhotoLoad \union ServerLoad

TypeOK ==
    /\ photoFile \in Photos \union {Unreadable}
    /\ serverFile \in Servers \union {Unreadable, Lacking}
    /\ mysqlFile \in {Whole, Unreadable, Lacking}
    /\ spoiled \subseteq {"server", "mysql"}
    /\ main \in {"down", "up", "dead"}
    /\ io \in [IoThreads -> Places]
    /\ job \in [IoThreads -> Jobs]
    /\ doc \in [IoThreads -> Photos \union Servers \union {Unreadable}]
    /\ left \in [IoThreads -> Nat]
    /\ tablenum \in Int
    /\ param \in Photos \union {NoRow}
    /\ server \in [ip : Texts, port : Texts] /\ host \in [ip : Texts, port : Texts]
    /\ poll \in {"idle", "entries", "ip", "port", "done"}
    /\ body \in [num : Int, entries : Photos \union {NoRow}]
    /\ met \in [photo : BOOLEAN, server : BOOLEAN] /\ overlap \in BOOLEAN
    /\ uploads \in 0..MaxUploads /\ crashes \in 0..MaxCrashes

(* new Config(): the strings are empty, the numbers are not set.            *)
Empty == [ip |-> "", port |-> ""]
Fresh ==
    /\ io' = [h \in IoThreads |-> "idle"]
    /\ job' = [h \in IoThreads |-> Idle]
    /\ doc' = [h \in IoThreads |-> Unreadable]
    /\ left' = [h \in IoThreads |-> 0]
    /\ tablenum' = Junk
    /\ param' = NoRow
    /\ poll' = "idle"
    /\ body' = [num |-> Junk, entries |-> NoRow]
    /\ host' = Empty
    /\ met' = [photo |-> FALSE, server |-> FALSE]
    /\ overlap' = FALSE

(* The process is gone; a file that was being written stays as it is.       *)
Dies ==
    /\ main' = "down"
    /\ server' = Empty
    /\ spoiled' = IF \E h \in IoThreads : io[h] = "write" /\ job[h].kind = "server"
                  THEN spoiled \union {"server"} ELSE spoiled
    /\ Fresh
    /\ UNCHANGED <<photoFile, serverFile, mysqlFile>>

Init ==
    /\ photoFile = FirstPhoto
    /\ serverFile = FirstServer
    /\ mysqlFile = Whole
    /\ main = "down"
    /\ io = [h \in IoThreads |-> "idle"]
    /\ job = [h \in IoThreads |-> Idle]
    /\ doc = [h \in IoThreads |-> Unreadable]
    /\ left = [h \in IoThreads |-> 0]
    /\ tablenum = Junk
    /\ param = NoRow
    /\ server = Empty
    /\ poll = "idle"
    /\ body = [num |-> Junk, entries |-> NoRow]
    /\ host = Empty
    /\ met = [photo |-> FALSE, server |-> FALSE]
    /\ overlap = FALSE
    /\ spoiled = {}
    /\ uploads = 0
    /\ crashes = 0

---------------------------------------------------------------------------
(* main                                                                    *)
Start ==
    /\ main = "down"
    /\ ~Bad("server", serverFile) /\ ~Bad("mysql", mysqlFile)
    /\ main' = "up"
    /\ server' = serverFile
    /\ UNCHANGED <<disk, io, job, doc, left, photo, reader, met, overlap, counts>>

(* An element that is not there is a null pointer, in the server file or   *)
(* the mysql file (after it); a server_ip that is empty, since the file    *)
(* could not be read, or no address makes make_address throw.  Either way  *)
(* main is gone.  The other calls main makes are assumed to succeed.       *)
StartFails ==
    /\ main = "down"
    /\ Bad("server", serverFile) \/ Bad("mysql", mysqlFile)
    /\ main' = "dead"
    /\ UNCHANGED <<disk, io, job, doc, left, photo, server, reader, met, overlap, counts>>

---------------------------------------------------------------------------
(* Requests on io thread h                                                  *)
Goes(h, from, to) == io[h] = from /\ io' = [io EXCEPT ![h] = to]

Others(h) == IoThreads \ {h}

(* A load begins to write while another is still writing, or alone.         *)
Meets(h, kind, places) == met' = [met EXCEPT ![kind] = \E g \in Others(h) : io[g] \in places]

(* A load that begins or goes on while the task reads is an overlap.        *)
Overlaps == overlap' = (overlap \/ poll \notin {"idle", "done"})

(* POST /robot/tips with ACTION 1 loads the photo file.                     *)
Tips(h) ==
    /\ main = "up"
    /\ Goes(h, "idle", "photo")
    /\ Overlaps
    /\ UNCHANGED <<disk, main, job, doc, left, photo, server, reader, met, counts>>

(* Altered: an uploaded photo file is opened under the name of the other.   *)
UploadOpen_WrongName(h, u) ==
    /\ main = "up" /\ uploads < MaxUploads
    /\ uploads' = uploads + 1
    /\ Goes(h, "idle", "write")
    /\ job' = [job EXCEPT ![h] = Mixed(u, FALSE)]
    /\ serverFile' = Unreadable
    /\ UNCHANGED <<photoFile, mysqlFile, spoiled, main, doc, left, photo, server, reader, met, overlap, crashes>>

(* POST /robot/configs: the file is opened, which empties it.  Two that     *)
(* have it open at once may leave bytes of both.                           *)
UploadOpen(h, u) ==
    LET beside == {g \in Others(h) : io[g] = "write" /\ job[g].kind = u.kind}
    IN
    /\ main = "up" /\ uploads < MaxUploads
    /\ uploads' = uploads + 1
    /\ Goes(h, "idle", "write")
    /\ job' = [g \in IoThreads |-> CASE g = h -> Mixed(u, beside # {})
                                     [] g \in beside -> Mixed(job[g], TRUE)
                                     [] OTHER -> job[g]]
    /\ photoFile' = IF u.kind = "photo" THEN Unreadable ELSE photoFile
    /\ serverFile' = IF u.kind = "server" THEN Unreadable ELSE serverFile
    /\ mysqlFile' = IF u.kind = "mysql" THEN Unreadable ELSE mysqlFile
    /\ UNCHANGED <<spoiled, main, doc, left, photo, server, reader, met, overlap, crashes>>

(* The body is written, the file closed; the loads follow.                  *)
UploadClose(h) ==
    /\ Goes(h, "write", "photo")
    /\ Overlaps
    /\ \E c \in {job[h].file} \union (IF job[h].mixed THEN {Unreadable} ELSE {}) :
          /\ photoFile' = IF job[h].kind = "photo" THEN c ELSE photoFile
          /\ serverFile' = IF job[h].kind = "server" THEN c ELSE serverFile
          /\ mysqlFile' = IF job[h].kind = "mysql" THEN c ELSE mysqlFile
          /\ spoiled' = IF Bad(job[h].kind, c) THEN spoiled \union {job[h].kind}
                                              ELSE spoiled \ {job[h].kind}
    /\ job' = [job EXCEPT ![h] = [kind |-> "loads"]]
    /\ UNCHANGED <<main, doc, left, photo, server, reader, met, counts>>

---------------------------------------------------------------------------
(* loadphoto_config                                                         *)
loadOthers == <<disk, main, server, reader, counts>>

(* LoadFile fails: the configuration stays as it was.                       *)
PhotoUnreadable(h) ==
    /\ photoFile = Unreadable
    /\ Goes(h, "photo", IF job[h] = Idle THEN "idle" ELSE "server")
    /\ UNCHANGED <<job, doc, left, photo, met, overlap, loadOthers>>

PhotoOpen(h) ==
    /\ photoFile # Unreadable
    /\ Goes(h, "photo", "reset")
    /\ doc' = [doc EXCEPT ![h] = photoFile]
    /\ UNCHANGED <<job, left, photo, met, overlap, loadOthers>>

(* Altered: tablenum is not set to 0.                                       *)
PhotoReset_Kept(h) ==
    /\ Goes(h, "reset", "count")
    /\ left' = [left EXCEPT ![h] = doc[h].size]
    /\ Meets(h, "photo", {"count", "store"})
    /\ Overlaps
    /\ UNCHANGED <<job, doc, photo, loadOthers>>

PhotoReset(h) ==
    /\ Goes(h, "reset", "count")
    /\ tablenum' = 0
    /\ left' = [left EXCEPT ![h] = doc[h].size]
    /\ Meets(h, "photo", {"count", "store"})
    /\ Overlaps
    /\ UNCHANGED <<job, doc, param, loadOthers>>

(* tablenum++ is not atomic: one of two at a time may be lost.              *)
PhotoCount(h) ==
    /\ io[h] = "count" /\ left[h] > 0
    /\ left' = [left EXCEPT ![h] = @ - 1]
    /\ \/ tablenum' = tablenum + 1
       \/ (\E g \in Others(h) : io[g] = "count") /\ UNCHANGED tablenum
    /\ Overlaps
    /\ UNCHANGED <<io, job, doc, param, met, loadOthers>>

PhotoCounted(h) ==
    /\ left[h] = 0
    /\ Goes(h, "count", "store")
    /\ UNCHANGED <<job, doc, left, photo, met, overlap, loadOthers>>

(* param["row"] = vvm_tmp; an upload goes on to the server file.            *)
PhotoStore(h) ==
    /\ Goes(h, "store", IF job[h] = Idle THEN "idle" ELSE "server")
    /\ param' = doc[h]
    /\ doc' = [doc EXCEPT ![h] = Unreadable]
    /\ Overlaps
    /\ UNCHANGED <<job, left, tablenum, met, loadOthers>>

---------------------------------------------------------------------------
(* loadserver_config, one field after the other                             *)
serverOthers == <<disk, main, left, photo, reader, counts>>

ServerUnreadable(h) ==
    /\ serverFile = Unreadable
    /\ Goes(h, "server", "mysql")
    /\ UNCHANGED <<job, doc, server, met, overlap, serverOthers>>

ServerOpen(h) ==
    /\ serverFile \in Servers
    /\ Goes(h, "server", "ip")
    /\ doc' = [doc EXCEPT ![h] = serverFile]
    /\ UNCHANGED <<job, server, met, overlap, serverOthers>>

(* Altered: ea_port is not loaded.                                          *)
ServerIp_Only(h) ==
    /\ Goes(h, "ip", "mysql")
    /\ server' = [server EXCEPT !.ip = doc[h].ip]
    /\ doc' = [doc EXCEPT ![h] = Unreadable]
    /\ Meets(h, "server", {"port"})
    /\ Overlaps
    /\ UNCHANGED <<job, serverOthers>>

ServerIp(h) ==
    /\ Goes(h, "ip", "port")
    /\ server' = [server EXCEPT !.ip = doc[h].ip]
    /\ Meets(h, "server", {"port"})
    /\ Overlaps
    /\ UNCHANGED <<job, doc, serverOthers>>

ServerPort(h) ==
    /\ Goes(h, "port", "mysql")
    /\ server' = [server EXCEPT !.port = doc[h].port]
    /\ doc' = [doc EXCEPT ![h] = Unreadable]
    /\ Overlaps
    /\ UNCHANGED <<job, met, serverOthers>>

(* loadmysql_config, whole or failed, is the last of the loads.             *)
MysqlLoad(h) ==
    /\ mysqlFile # Lacking
    /\ Goes(h, "mysql", "idle")
    /\ job' = [job EXCEPT ![h] = Idle]
    /\ UNCHANGED <<doc, server, met, overlap, serverOthers>>

(* A missing element is a null pointer: the process dies, catch or not.     *)
ElementLacking(h) ==
    /\ \/ io[h] = "server" /\ serverFile = Lacking
       \/ io[h] = "mysql" /\ mysqlFile = Lacking
    /\ Dies
    /\ UNCHANGED counts

---------------------------------------------------------------------------
(* The poll thread runs a task: json_encode of photo_config, then the host. *)
readOthers == <<disk, main, io, job, doc, left, photo, server, met, counts>>

ReadCount ==
    /\ main = "up" /\ poll \in {"idle", "done"}
    /\ body' = [num |-> tablenum, entries |-> NoRow]
    /\ overlap' = (Loading \/ met.photo \/ met.server)
    /\ poll' = "entries"
    /\ UNCHANGED <<host, readOthers>>

ReadEntries ==
    /\ poll = "entries"
    /\ body' = [body EXCEPT !.entries = param]
    /\ poll' = "ip"
    /\ UNCHANGED <<host, overlap, readOthers>>

ReadIp ==
    /\ poll = "ip"
    /\ host' = [host EXCEPT !.ip = server.ip]
    /\ poll' = "port"
    /\ UNCHANGED <<body, overlap, readOthers>>

ReadPort ==
    /\ poll = "port"
    /\ host' = [host EXCEPT !.port = server.port]
    /\ poll' = "done"
    /\ UNCHANGED <<body, overlap, readOthers>>

(* The process dies (a data race in a string or a map may be the reason).   *)
Crash ==
    /\ main = "up" /\ crashes < MaxCrashes
    /\ crashes' = crashes + 1
    /\ Dies
    /\ UNCHANGED uploads

Load(h) == \/ PhotoUnreadable(h) \/ PhotoOpen(h) \/ PhotoReset(h)
           \/ PhotoCount(h) \/ PhotoCounted(h) \/ PhotoStore(h)
           \/ ServerUnreadable(h) \/ ServerOpen(h) \/ ServerIp(h) \/ ServerPort(h)
           \/ MysqlLoad(h) \/ ElementLacking(h)

Next == \/ Start \/ StartFails \/ Crash
        \/ ReadCount \/ ReadEntries \/ ReadIp \/ ReadPort
        \/ \E h \in IoThreads :
              \/ Tips(h) \/ UploadClose(h) \/ Load(h)
              \/ \E u \in Uploads : UploadOpen(h, u)

Spec == Init /\ [][Next]_vars

---------------------------------------------------------------------------
(* tablenum is the number of entries in param whenever nobody is counting:  *)
(* loads that fail, follow one another or die half way leave the two in     *)
(* step.  EA compares its successes with this number (photoTask.cpp:60).   *)
TableMatchesParam ==
    (param # NoRow /\ \A h \in IoThreads : io[h] \notin {"count", "store"})
        => tablenum = param.size

(* So it is with any number of io threads, as long as the last load of the  *)
(* photo file did not begin in the middle of another: one load alone heals *)
(* whatever a race has left.                                               *)
TableMatchesUnlessMet == met.photo \/ TableMatchesParam

(* What a task has read is a whole configuration, count and entries of one  *)
(* photo file (if one was ever loaded), ip and port of one server file,    *)
(* unless a load ran meanwhile or the last two before it overlapped.       *)
TaskReadsWholeConfig ==
    (poll = "done" /\ ~overlap) => /\ body.entries # NoRow => body.num = body.entries.size
                                   /\ host \in Servers

(* The program comes up again after it died, unless an upload left the      *)
(* server file bad (as uploaded, also one that loads but whose server_ip   *)
(* is no address; mixed; or cut off by the crash) or a mysql file with     *)
(* elements missing.  No other failure outlives the process: not a bad     *)
(* photo file, not a mysql file cut off, nor a bad file replaced since.    *)
StartFailsOnlyWhenSpoiled == main = "dead" => spoiled # {}
=============================================================================
