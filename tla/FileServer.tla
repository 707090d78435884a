------------------------------ MODULE FileServer ------------------------------
(***************************************************************************)
(* The file server: file_manager (the files table, the file sessions of    *)
(* the users, the threads that write files to disk) and file_session (the  *)
(* uploads and downloads of one connection).                               *)
(*                                                                         *)
(* One user is modelled: every structure but the table and the disk is     *)
(* kept per user, and files of other users are Stored from the start.      *)
(* Requests come over the user's main session, which handles one at a      *)
(* time; packets come over the file sessions, each with a strand of its    *)
(* own; the server's threads run all of these at once.  Here a packet or a *)
(* request may come at any time: FileTransfer adds the client that sends   *)
(* them.  Every file has NumChunks chunks; an upload's id is a fresh uuid. *)
(***************************************************************************)
EXTENDS Integers

CONSTANTS
  Files,     \* file ids
  Stored,    \* the files saved before
  Conns,     \* connections to the file server
  Chains,    \* downloads begun: a chain of chunk writes each
  NumChunks,
  MaxShutdowns, \* bound on the shutdowns of a connection under way at once
  NoFile, NoConn,
  Worlds     \* what may go on, each a set of events

\* The events the server knows: the user's session is cleaned; a download is begun
\* again while a write of the one before is under way; an INSERT fails; a file
\* cannot be opened or is written in part.
ServerEvents == {"logout", "restart", "sql", "disk"}

ASSUME FileServerAssumption ==
  /\ Stored \subseteq Files
  /\ NumChunks \in Nat \ {0}
  /\ MaxShutdowns \in Nat \ {0}
  /\ NoFile \notin Files
  /\ NoConn \notin Conns

VARIABLES
  stream,              \* the state of each connection
  reading,             \* the connections whose recv is armed
  shutdowns,           \* how many async_shutdowns of each are under way
  user,                \* the file sessions whose _user is set
  users_file_sessions, \* _users_file_sessions of the user
  offered,             \* the ids given out to uploads
  upload_files,        \* _upload_files of each session
  received,            \* the chunks of each memory_file
  downloads_progress,  \* _downloads_progress; Absent: no entry
  chain,               \* the chains of handle_download_chunk_sent
  handler,             \* the file init_download_file has found, unlocked
  files_table,         \* the rows of the files table
  content,             \* the half chunks of each file on disk; Absent: no file
  saver,               \* the files a detached thread is writing
  crashed,             \* the server used a null or a destroyed session
  world                \* what may go on, from the start

session_vars == <<stream, reading, shutdowns, user, users_file_sessions>>
upload_vars == <<offered, upload_files, received, files_table>>
download_vars == <<downloads_progress, chain>>
disk_vars == <<content, saver>>
vars == <<session_vars, upload_vars, download_vars, disk_vars, handler,
          crashed, world>>

Chunks == 0 .. NumChunks - 1
Absent == -1

\* The disk is written a half of a chunk at a time: a file may end within one.
Full == 2 * NumChunks

Uploads == Files \ Stored

\* A chain has a write under way of its chunk number at ("writing"), has found
\* no next chunk ("last"), or has ended.
NoChain == [status |-> "unused", conn |-> NoConn, file |-> NoFile,
            chunks |-> {}, at |-> 0]
ChainRecords == [status : {"unused", "writing", "last", "ended"},
                 conn : Conns \cup {NoConn}, file : Files \cup {NoFile},
                 chunks : SUBSET Chunks, at : Chunks]

TypeOK ==
  /\ stream \in [Conns -> {"none", "open", "closed"}]
  /\ reading \in SUBSET Conns
  /\ shutdowns \in [Conns -> 0 .. MaxShutdowns]
  /\ user \in SUBSET Conns
  /\ users_file_sessions \in Conns \cup {NoConn}
  /\ offered \in SUBSET Uploads
  /\ upload_files \in [Conns -> SUBSET Uploads]
  /\ received \in [Files -> SUBSET Chunks]
  /\ downloads_progress \in [Conns -> [Files -> Nat \cup {Absent}]]
  /\ chain \in [Chains -> ChainRecords]
  /\ handler \in Files \cup {NoFile}
  /\ files_table \in SUBSET Files
  /\ content \in [Files -> 0 .. Full \cup {Absent}]
  /\ saver \in SUBSET Files
  /\ crashed \in BOOLEAN
  /\ world \in Worlds

Init ==
  /\ stream = [c \in Conns |-> "none"]
  /\ reading = {}
  /\ shutdowns = [c \in Conns |-> 0]
  /\ user = {}
  /\ users_file_sessions = NoConn
  /\ offered = {}
  /\ upload_files = [c \in Conns |-> {}]
  /\ received = [f \in Files |-> IF f \in Stored THEN Chunks ELSE {}]
  /\ downloads_progress = [c \in Conns |-> [f \in Files |-> Absent]]
  /\ chain = [k \in Chains |-> NoChain]
  /\ handler = NoFile
  /\ files_table = Stored
  /\ content = [f \in Files |-> IF f \in Stored THEN Full ELSE Absent]
  /\ saver = {}
  /\ crashed = FALSE
  /\ world \in Worlds

(***************************************************************************)
(* Connections                                                             *)
(***************************************************************************)

Accept(c) ==
  /\ stream[c] = "none"
  /\ c = CHOOSE d \in Conns : stream[d] = "none"
  /\ stream' = [stream EXCEPT ![c] = "open"]
  /\ reading' = reading \cup {c}
  /\ UNCHANGED <<shutdowns, user, users_file_sessions, upload_vars,
                 download_vars, disk_vars, handler, crashed, world>>

\* The recv of a session that reads runs to a packet of its client; it is armed
\* again after a packet without an answer, the shutdown too.
Reads(c) == c \in reading

\* After an answer it is armed once the answer is written, which fails when the
\* SSL stream is being shut down.
Answers(c) ==
  reading' = IF shutdowns[c] = 0 THEN reading ELSE reading \ {c}

\* A session_auth_packet of a session id that is known; the last to come is
\* the user's file session.
SessionAuth(c) ==
  /\ Reads(c)
  /\ c \notin user
  /\ user' = user \cup {c}
  /\ users_file_sessions' = c
  /\ Answers(c)
  /\ UNCHANGED <<stream, shutdowns, upload_vars, download_vars, disk_vars,
                 handler, crashed, world>>

\* The shutdown packet, which asks for no authentication.
Shutdown(c) ==
  /\ Reads(c)
  /\ shutdowns' =
       [shutdowns EXCEPT ![c] = IF @ < MaxShutdowns THEN @ + 1 ELSE @]
  /\ UNCHANGED <<stream, reading, user, users_file_sessions, upload_vars,
                 download_vars, disk_vars, handler, crashed, world>>

\* The callback of async_shutdown erases the user's session, whichever it is
\* by now; when the socket is gone shutdown throws ahead of that, and when no
\* user has come yet _user is null.
ShutdownDone(c) ==
  /\ shutdowns[c] > 0
  /\ shutdowns' = [shutdowns EXCEPT ![c] = @ - 1]
  /\ stream' = [stream EXCEPT ![c] = "closed"]
  /\ reading' = reading \ {c}
  /\ \/ UNCHANGED <<users_file_sessions, crashed>>
     \/ /\ c \in user
        /\ users_file_sessions' = NoConn
        /\ UNCHANGED crashed
     \/ /\ c \notin user
        /\ crashed' = TRUE
        /\ UNCHANGED users_file_sessions
  /\ UNCHANGED <<user, upload_vars, download_vars, disk_vars, handler, world>>

\* The connection is lost: recv ends, and the session stays in the map.
ConnLost(c) ==
  /\ stream[c] = "open"
  /\ stream' = [stream EXCEPT ![c] = "closed"]
  /\ reading' = reading \ {c}
  /\ UNCHANGED <<shutdowns, user, users_file_sessions, upload_vars,
                 download_vars, disk_vars, handler, crashed, world>>

\* The user logs out, or a session of his ends: clean_user_session, on the
\* thread of that session.
CleanUserSession ==
  /\ "logout" \in world
  /\ users_file_sessions # NoConn
  /\ users_file_sessions' = NoConn
  /\ UNCHANGED <<stream, reading, shutdowns, user, upload_vars, download_vars,
                 disk_vars, handler, crashed, world>>

(***************************************************************************)
(* Uploads                                                                 *)
(***************************************************************************)

InitUploadFile(f) ==
  /\ handler = NoFile
  /\ f \in Uploads \ offered
  /\ users_file_sessions # NoConn
  /\ offered' = offered \cup {f}
  /\ upload_files' =
       [upload_files EXCEPT ![users_file_sessions] = @ \cup {f}]
  /\ UNCHANGED <<session_vars, received, files_table, download_vars,
                 disk_vars, handler, crashed, world>>

\* The file is whole when its last chunk comes.
Whole(f, i) == received[f] \cup {i} = Chunks

\* Mutant of ChunkSaved: a file that is not in the map is entered again.
ChunkSavedAnyway(c, f, i) ==
  /\ Reads(c)
  /\ f \in offered
  /\ ~ Whole(f, i)
  /\ upload_files' = [upload_files EXCEPT ![c] = @ \cup {f}]
  /\ received' = [received EXCEPT ![f] = @ \cup {i}]
  /\ UNCHANGED <<session_vars, offered, files_table, download_vars, disk_vars,
                 handler, crashed, world>>

\* A chunk that is not the last, and the one that is: save_file enters the
\* row, has a thread write the file, and the file leaves the uploads.
ChunkSaved(c, f, i) ==
  /\ Reads(c)
  /\ f \in upload_files[c]
  /\ ~ Whole(f, i)
  /\ received' = [received EXCEPT ![f] = @ \cup {i}]
  /\ UNCHANGED <<session_vars, offered, upload_files, files_table,
                 download_vars, disk_vars, handler, crashed, world>>

\* Mutant of SaveFile: the file stays an upload.
SaveFileKeepsUpload(c, f, i) ==
  /\ Reads(c)
  /\ f \in upload_files[c]
  /\ Whole(f, i)
  /\ received' = [received EXCEPT ![f] = @ \cup {i}]
  /\ files_table' = files_table \cup {f}
  /\ saver' = saver \cup {f}
  /\ UNCHANGED <<session_vars, offered, upload_files, download_vars, content,
                 handler, crashed, world>>

SaveFile(c, f, i) ==
  /\ Reads(c)
  /\ f \in upload_files[c]
  /\ Whole(f, i)
  /\ received' = [received EXCEPT ![f] = @ \cup {i}]
  /\ files_table' = files_table \cup {f}
  /\ saver' = saver \cup {f}
  /\ upload_files' = [upload_files EXCEPT ![c] = @ \ {f}]
  /\ UNCHANGED <<session_vars, offered, download_vars, content, handler,
                 crashed, world>>

\* The exception of a failed INSERT leaves handle_packet and the recv
\* callback, which does not arm recv again.
SaveFileFails(c, f, i) ==
  /\ "sql" \in world
  /\ Reads(c)
  /\ f \in upload_files[c]
  /\ Whole(f, i)
  /\ received' = [received EXCEPT ![f] = @ \cup {i}]
  /\ reading' = reading \ {c}
  /\ UNCHANGED <<stream, shutdowns, user, users_file_sessions, offered,
                 upload_files, files_table, download_vars, disk_vars, handler,
                 crashed, world>>

\* A chunk of a file that is not an upload of the session is answered with
\* an error.
ChunkRefused(c, f) ==
  /\ Reads(c)
  /\ f \notin upload_files[c]
  /\ Answers(c)
  /\ UNCHANGED <<stream, shutdowns, user, users_file_sessions, upload_vars,
                 download_vars, disk_vars, handler, crashed, world>>

ChunkPacket(c, f, i) ==
  \/ ChunkSaved(c, f, i)
  \/ SaveFile(c, f, i)
  \/ SaveFileFails(c, f, i)
  \/ ChunkRefused(c, f)

\* The thread of save_file opens the file, and writes it half a chunk at a time.
SaverOpens(f) ==
  /\ f \in saver
  /\ content[f] = Absent
  /\ content' = [content EXCEPT ![f] = 0]
  /\ UNCHANGED <<session_vars, upload_vars, download_vars, saver, handler,
                 crashed, world>>

\* Mutant of SaverWrites: the thread leaves the last part out.
SaverWritesShort(f) ==
  /\ f \in saver
  /\ content[f] \in 0 .. Full - 1
  /\ content' = [content EXCEPT ![f] = @ + 1]
  /\ saver' = IF content'[f] = Full - 1 THEN saver \ {f} ELSE saver
  /\ UNCHANGED <<session_vars, upload_vars, download_vars, handler, crashed,
                 world>>

SaverWrites(f) ==
  /\ f \in saver
  /\ content[f] \in 0 .. Full - 1
  /\ content' = [content EXCEPT ![f] = @ + 1]
  /\ saver' = IF content'[f] = Full THEN saver \ {f} ELSE saver
  /\ UNCHANGED <<session_vars, upload_vars, download_vars, handler, crashed,
                 world>>

\* The thread ends when the file cannot be opened; a write that fails is not
\* looked at, and leaves what was written.
SaverFails(f) ==
  /\ "disk" \in world
  /\ f \in saver
  /\ saver' = saver \ {f}
  /\ UNCHANGED <<session_vars, upload_vars, download_vars, content, handler,
                 crashed, world>>

(***************************************************************************)
(* Downloads                                                               *)
(***************************************************************************)

\* init_download_file up to the row: both checks pass.
InitDownloadFile(f) ==
  /\ handler = NoFile
  /\ users_file_sessions # NoConn
  /\ f \in files_table
  /\ handler' = f
  /\ UNCHANGED <<session_vars, upload_vars, download_vars, disk_vars,
                 crashed, world>>

Live(k) == chain[k].status \in {"writing", "last"}
ChainOf(k, c, f) == Live(k) /\ chain[k].conn = c /\ chain[k].file = f

\* With the mutex taken again the session is not looked for a second time.
DownloadCrashes ==
  /\ handler # NoFile
  /\ users_file_sessions = NoConn
  /\ crashed' = TRUE
  /\ handler' = NoFile
  /\ UNCHANGED <<session_vars, upload_vars, download_vars, disk_vars, world>>

\* The chunks get_file_chunks makes of a file of n halves: the last may be one
\* that is on disk in part.
ChunksOf(n) == {i \in Chunks : 2 * i < n}

\* add_download_file enters the file, and reads what is on disk by now.
AddDownloadFile(k) ==
  LET c == users_file_sessions
      f == handler
  IN /\ f # NoFile
     /\ c # NoConn
     /\ downloads_progress[c][f] = Absent
     /\ content[f] > 0
     /\ chain[k] = NoChain
     /\ k = CHOOSE j \in Chains : chain[j] = NoChain
     /\ "restart" \in world \/ \A j \in Chains : ~ ChainOf(j, c, f)
     /\ downloads_progress' = [downloads_progress EXCEPT ![c][f] = 0]
     /\ chain' = [chain EXCEPT ![k] =
          [status |-> "writing", conn |-> c, file |-> f,
           chunks |-> ChunksOf(content[f]), at |-> 0]]
     /\ handler' = NoFile
     /\ UNCHANGED <<session_vars, upload_vars, disk_vars, crashed, world>>

\* get_file_chunks throws, and the entry stays.
DownloadUnreadable ==
  LET c == users_file_sessions
      f == handler
  IN /\ f # NoFile
     /\ c # NoConn
     /\ downloads_progress[c][f] = Absent
     /\ content[f] \in {Absent, 0}
     /\ downloads_progress' = [downloads_progress EXCEPT ![c][f] = 0]
     /\ handler' = NoFile
     /\ UNCHANGED <<session_vars, upload_vars, chain, disk_vars, crashed,
                    world>>

AlreadyDownloading ==
  /\ handler # NoFile
  /\ users_file_sessions # NoConn
  /\ downloads_progress[users_file_sessions][handler] # Absent
  /\ handler' = NoFile
  /\ UNCHANGED <<session_vars, upload_vars, download_vars, disk_vars,
                 crashed, world>>

\* remove_file, of whichever of the two the file is in.
StopFileTransmission(f) ==
  LET c == users_file_sessions
  IN /\ handler = NoFile
     /\ c # NoConn
     /\ downloads_progress' = [downloads_progress EXCEPT ![c][f] = Absent]
     /\ upload_files' = [upload_files EXCEPT ![c] = @ \ {f}]
     /\ received' =
          IF f \in upload_files[c] THEN [received EXCEPT ![f] = {}]
                                   ELSE received
     /\ UNCHANGED <<session_vars, offered, files_table, chain, disk_vars,
                    handler, crashed, world>>

\* The pending recv, the pending async_shutdown and the map hold a session; the
\* callbacks of the chunk writes do not.
Alive(c) ==
  c \in reading \/ shutdowns[c] > 0 \/ users_file_sessions = c

Progress(k) == downloads_progress[chain[k].conn][chain[k].file]

EndChain(k) == chain' = [chain EXCEPT ![k] = [NoChain EXCEPT !.status = "ended"]]

\* The callback of a write: the file is no longer downloaded, or there is a
\* next chunk, or the entry is still to be erased.
DownloadStopped(k) ==
  /\ chain[k].status = "writing"
  /\ Alive(chain[k].conn)
  /\ Progress(k) = Absent
  /\ EndChain(k)
  /\ UNCHANGED <<session_vars, upload_vars, downloads_progress, disk_vars,
                 handler, crashed, world>>

\* Mutants of DownloadChunkSent: a next chunk is sent whether there is one or
\* not; the chunk that was sent is not erased.
DownloadSendsPastEnd(k) ==
  LET i == Progress(k)
  IN /\ chain[k].status = "writing"
     /\ Alive(chain[k].conn)
     /\ i # Absent
     /\ downloads_progress' =
          [downloads_progress EXCEPT ![chain[k].conn][chain[k].file] = i + 1]
     /\ chain' = [chain EXCEPT ![k].chunks = @ \ {i}, ![k].at = i + 1]
     /\ UNCHANGED <<session_vars, upload_vars, disk_vars, handler, crashed,
                    world>>

DownloadKeepsChunk(k) ==
  LET i == Progress(k)
  IN /\ chain[k].status = "writing"
     /\ Alive(chain[k].conn)
     /\ i # Absent
     /\ downloads_progress' =
          [downloads_progress EXCEPT ![chain[k].conn][chain[k].file] = i + 1]
     /\ chain' = IF i + 1 \in chain[k].chunks
                   THEN [chain EXCEPT ![k].at = i + 1]
                   ELSE [chain EXCEPT ![k].status = "last"]
     /\ UNCHANGED <<session_vars, upload_vars, disk_vars, handler, crashed,
                    world>>

DownloadChunkSent(k) ==
  LET i == Progress(k)
      rest == chain[k].chunks \ {i}
  IN /\ chain[k].status = "writing"
     /\ Alive(chain[k].conn)
     /\ i # Absent
     /\ downloads_progress' =
          [downloads_progress EXCEPT ![chain[k].conn][chain[k].file] = i + 1]
     /\ chain' = [chain EXCEPT ![k] =
          IF i + 1 \in rest
            THEN [@ EXCEPT !.chunks = rest, !.at = i + 1]
            ELSE [@ EXCEPT !.chunks = rest, !.status = "last"]]
     /\ UNCHANGED <<session_vars, upload_vars, disk_vars, handler, crashed,
                    world>>

\* Mutant of DownloadEnds: the progress entry is not erased.
DownloadEndsKeepsEntry(k) ==
  /\ chain[k].status = "last"
  /\ EndChain(k)
  /\ UNCHANGED <<session_vars, upload_vars, downloads_progress, disk_vars,
                 handler, crashed, world>>

DownloadEnds(k) ==
  /\ chain[k].status = "last"
  /\ downloads_progress' =
       [downloads_progress EXCEPT ![chain[k].conn][chain[k].file] = Absent]
  /\ EndChain(k)
  /\ UNCHANGED <<session_vars, upload_vars, disk_vars, handler, crashed,
                 world>>

\* The callback of a write that was done before its session was destroyed.
DownloadUsesFreed(k) ==
  /\ chain[k].status = "writing"
  /\ ~ Alive(chain[k].conn)
  /\ crashed' = TRUE
  /\ EndChain(k)
  /\ UNCHANGED <<session_vars, upload_vars, downloads_progress, disk_vars,
                 handler, world>>

HandleDownloadChunkSent(k) ==
  \/ DownloadStopped(k)
  \/ DownloadChunkSent(k)
  \/ DownloadEnds(k)
  \/ DownloadUsesFreed(k)

\* A write that fails, on a socket that is closed or freed or a stream that is
\* being shut down, ends the chain; the entry stays.
Writable(c) == stream[c] = "open" /\ shutdowns[c] = 0 /\ Alive(c)

DownloadWriteFails(k) ==
  /\ chain[k].status = "writing"
  /\ ~ Writable(chain[k].conn)
  /\ EndChain(k)
  /\ UNCHANGED <<session_vars, upload_vars, downloads_progress, disk_vars,
                 handler, crashed, world>>

(***************************************************************************)
(* The specification                                                       *)
(***************************************************************************)

HandlerStep ==
  \/ DownloadCrashes
  \/ DownloadUnreadable
  \/ AlreadyDownloading
  \/ \E k \in Chains : AddDownloadFile(k)

SessionStep(c) ==
  \/ Accept(c)
  \/ SessionAuth(c)
  \/ Shutdown(c)
  \/ ShutdownDone(c)
  \/ ConnLost(c)

ChainStep(k) == HandleDownloadChunkSent(k) \/ DownloadWriteFails(k)

SaverStep(f) == SaverOpens(f) \/ SaverWrites(f) \/ SaverFails(f)

Next ==
  /\ ~ crashed
  /\ \/ \E c \in Conns : SessionStep(c)
     \/ CleanUserSession
     \/ \E c \in Conns, f \in Files, i \in Chunks : ChunkPacket(c, f, i)
     \/ \E f \in Files : \/ InitUploadFile(f)
                         \/ InitDownloadFile(f)
                         \/ StopFileTransmission(f)
                         \/ SaverStep(f)
     \/ \E k \in Chains : ChainStep(k)
     \/ HandlerStep

\* The server runs the callbacks and the threads it has begun.
Fairness ==
  /\ \A k \in Chains : WF_vars(~ crashed /\ ChainStep(k))
  /\ \A f \in Files : WF_vars(~ crashed /\ SaverStep(f))
  /\ WF_vars(~ crashed /\ HandlerStep)

Spec == Init /\ [][Next]_vars /\ Fairness

(***************************************************************************)
(* Properties                                                              *)
(***************************************************************************)

\* The table, the memory files and the disk agree: a file with a row has come
\* whole and is no longer uploaded, only files with rows are on disk, and a row
\* whose content is not whole has a thread that writes it, unless the disk
\* failed (file_manager::save_file, the chunk branch of handle_packet).
TableMatchesDisk ==
  \A f \in Files :
    /\ f \in files_table => /\ received[f] = Chunks
                            /\ \A c \in Conns : f \notin upload_files[c]
    /\ (content[f] # Absent \/ f \in saver) => f \in files_table
    /\ (f \in files_table /\ "disk" \notin world)
         => (content[f] = Full \/ f \in saver)

\* Unless a download is begun again while the last write of the one before is
\* under way, a file is sent over a connection by one chain at a time, the
\* counter of the file is the chunk that chain is sending, and a chain that
\* finds no next chunk has sent them all (handle_download_chunk_sent, whose
\* counter belongs to the file and not to the chain).
OneChainSendsAll ==
  "restart" \notin world =>
    \A k \in Chains : Live(k) =>
      /\ \A j \in Chains : ChainOf(j, chain[k].conn, chain[k].file) => j = k
      /\ (chain[k].status = "writing" /\ Progress(k) # Absent)
           => Progress(k) = chain[k].at
      /\ chain[k].status = "last" => chain[k].chunks = {}

\* An upload that was stopped, whose entry is gone with no row made, stays gone:
\* no chunk that comes late brings it back or saves it (remove_file against
\* handle_packet, on two threads).
Gone(f) ==
  /\ f \in offered
  /\ f \notin files_table
  /\ \A c \in Conns : f \notin upload_files[c]
StoppedStaysStopped == [][\A f \in Files : Gone(f) => Gone(f)']_vars

\* A file with a row gets its content, unless the disk fails: until then a
\* client that was told of the file cannot download it whole (save_file, which
\* enters the row ahead of the thread that writes).
RowGetsContent ==
  \A f \in Files :
    (f \in files_table /\ "disk" \notin world)
      ~> (content[f] = Full \/ crashed)

\* The entry of a download that a chain sends goes in the end, so the file can
\* be downloaded again; it stays only when the connection has failed or is
\* being shut down, the session is gone with it, or the
\* file was begun again meanwhile (the erase of handle_download_chunk_sent).
EntryGoes ==
  \A c \in Conns, f \in Files :
    ("restart" \notin world /\ \E k \in Chains : ChainOf(k, c, f))
      ~> (downloads_progress[c][f] = Absent \/ ~ Writable(c) \/ crashed)
=============================================================================
