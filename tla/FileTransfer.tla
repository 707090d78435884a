----------------------------- MODULE FileTransfer -----------------------------
(***************************************************************************)
(* The files module of a client, its connections and FileServer.  On the   *)
(* client run the workers that serve the user's calls (start_upload,       *)
(* start_download, stop_file_transmission), one I/O thread per connection, *)
(* the thread that logs out, and the thread that clean_connection detaches *)
(* to free the socket.                                                     *)
(*                                                                         *)
(* The communicator sends one request at a time and waits for its answer:  *)
(* a request, its handler and its answer are one step here, and two for a  *)
(* download, whose handler lets go of the mutex.  An asio write appends to *)
(* the connection and completes later.                                     *)
(***************************************************************************)
EXTENDS Integers, Sequences, SequencesExt

CONSTANTS
  Files, Stored, Conns, Chains, NumChunks, MaxShutdowns, NoFile, NoConn, Worlds,
  Workers

VARIABLES
  stream, reading, shutdowns, user, users_file_sessions, offered, upload_files,
  received, downloads_progress, chain, handler, files_table, content, saver, crashed,
  world,
  to_server,        \* each connection's packets to the server
  to_client,        \* and to the client
  closed,           \* the connections the client has closed
  call,             \* what each worker is doing
  socket,           \* _socket: the connection it was made for
  stop_threads,     \* _stop_threads
  io,               \* the I/O context and its thread
  uploads_progress, \* _uploads_progress; Absent: no entry
  writing,          \* the chunk of each upload whose write is under way
  download_files,   \* _download_files, and _download_paths with it
  got,              \* the chunks of each memory_file
  downloaded,       \* the downloads that were handed to save_file
  cleaner,          \* the detached thread of clean_connection
  logout,           \* the thread of logged_out
  broken            \* what undefined behaviour the client has run into

Server == INSTANCE FileServer

\* The events the client knows: what the user does, whether calls of his
\* overlap, and what the network does.
ClientEvents == {"upload", "download", "fetch", "stop", "together", "refuse",
                 "lost"}

ASSUME FileTransferAssumption ==
  /\ Stored \subseteq Files
  /\ NumChunks \in Nat \ {0}
  /\ MaxShutdowns \in Nat \ {0}
  /\ NoFile \notin Files
  /\ NoConn \notin Conns
  /\ Worlds \subseteq SUBSET (Server!ServerEvents \cup ClientEvents)

server_vars == <<stream, reading, shutdowns, user, users_file_sessions,
                 offered, upload_files, received, downloads_progress, chain, handler,
                 files_table, content, saver, crashed, world>>
wire_vars == <<to_server, to_client, closed>>
conn_vars == <<socket, stop_threads, io, cleaner, logout>>
transfer_vars == <<uploads_progress, writing, download_files, got, downloaded>>
client_vars == <<call, conn_vars, transfer_vars, broken>>
vars == <<server_vars, wire_vars, client_vars>>

Chunks == Server!Chunks
Uploads == Server!Uploads
Absent == -1

Packets == [file : Files, index : Chunks]
           \cup {[file |-> NoFile, index |-> Absent]}
ChunkOf(f, i) == [file |-> f, index |-> i]
\* The shutdown packet one way, the end of the stream the other.
End == [file |-> NoFile, index |-> Absent]
\* The error that answers a chunk.
Refusal == [file |-> NoFile, index |-> 0]

Stages == {"idle", "info", "enter", "socket", "connect", "auth", "armed",
           "request", "wait", "send", "erase"}
Ops == {"none", "upload", "download", "stop"}
Call(op, f, stage) == [op |-> op, file |-> f, stage |-> stage]
NoCall == Call("none", NoFile, "idle")

TypeOK ==
  /\ Server!TypeOK
  /\ to_server \in [Conns -> Seq(Packets)]
  /\ to_client \in [Conns -> Seq(Packets \cup {Refusal})]
  /\ closed \in SUBSET Conns
  /\ call \in [Workers -> [op : Ops, file : Files \cup {NoFile},
                           stage : Stages]]
  /\ socket \in Conns \cup {NoConn}
  /\ stop_threads \in BOOLEAN
  /\ io \in {"none", "made", "running", "writes", "ended", "stopped"}
  /\ uploads_progress \in [Files -> Nat \cup {Absent}]
  /\ writing \in [Files -> Chunks \cup {Absent}]
  /\ download_files \in SUBSET Files
  /\ got \in [Files -> SUBSET Chunks]
  /\ downloaded \in SUBSET Files
  /\ cleaner \in {"none", "join", "clear"}
  /\ logout \in {"none", "asked", "checked", "done"}
  /\ broken \in {"no", "two_connects", "no_socket", "context_freed",
                 "two_cleaners"}

Init ==
  /\ Server!Init
  /\ to_server = [c \in Conns |-> <<>>]
  /\ to_client = [c \in Conns |-> <<>>]
  /\ closed = {}
  /\ call = [w \in Workers |-> NoCall]
  /\ socket = NoConn
  /\ stop_threads = TRUE
  /\ io = "none"
  /\ uploads_progress = [f \in Files |-> Absent]
  /\ writing = [f \in Files |-> Absent]
  /\ download_files = {}
  /\ got = [f \in Files |-> {}]
  /\ downloaded = {}
  /\ cleaner = "none"
  /\ logout = "none"
  /\ broken = "no"

At(w, op, stage) == call[w].op = op /\ call[w].stage = stage
Goes(w, stage) == call' = [call EXCEPT ![w].stage = stage]
Ends(w) == call' = [call EXCEPT ![w] = NoCall]

(***************************************************************************)
(* The wire                                                                *)
(***************************************************************************)

\* Whether a write to c may go through: until the client or the server has closed
\* it, or it was lost.
Open(c) == c # NoConn /\ c \notin closed /\ stream[c] = "open"

\* Whether the client has asked for the shutdown, after which its writes fail.
Asked(c) == shutdowns[c] > 0 \/ End \in Range(to_server[c])
Fails(c) == ~ Open(c) \/ Asked(c)

\* What nobody will read any more is not kept, and the server writes nothing to a
\* stream that is being shut down.
ToServer(c, ps) ==
  to_server' = IF Open(c) THEN [to_server EXCEPT ![c] = @ \o ps] ELSE to_server
ToClient(c, p) ==
  to_client' =
    IF c \notin closed /\ shutdowns[c] = 0
      THEN [to_client EXCEPT ![c] = Append(@, p)] ELSE to_client
ServerDrops(c) == to_server' = [to_server EXCEPT ![c] = <<>>]

\* The write that a step of the server begins on chain k.
ServerWrites(k) ==
  LET new == chain'[k]
  IN IF new.status = "writing" /\ stream[new.conn] = "open"
       THEN ToClient(new.conn, ChunkOf(new.file, new.at))
       ELSE UNCHANGED to_client

\* The user makes a call, while no other is under way or while some are; any
\* worker that is free serves it.
Starts(w, op) ==
  /\ op \in world
  /\ call[w] = NoCall
  /\ w = CHOOSE v \in Workers : call[v] = NoCall
  /\ "together" \in world \/ \A v \in Workers : call[v] = NoCall

(***************************************************************************)
(* Starting an upload                                                      *)
(***************************************************************************)

StartUpload(w, f) ==
  /\ Starts(w, "upload")
  /\ f \in Uploads \ offered
  /\ \A v \in Workers : call[v].file # f
  /\ call' = [call EXCEPT ![w] = Call("upload", f, "socket")]
  /\ UNCHANGED <<server_vars, wire_vars, conn_vars, transfer_vars, broken>>

\* The answer carries the file; uploads_progress gets its entry after it.
UploadInitiated(w) ==
  /\ At(w, "upload", "request")
  /\ Server!InitUploadFile(call[w].file)
  /\ Goes(w, "enter")
  /\ UNCHANGED <<wire_vars, conn_vars, transfer_vars, broken>>

\* The file is empty, which is seen with the connection made: it stays.
EmptyFile(w) ==
  /\ At(w, "upload", "request")
  /\ Ends(w)
  /\ UNCHANGED <<server_vars, wire_vars, conn_vars, transfer_vars, broken>>

UploadRefused(w) ==
  /\ At(w, "upload", "request")
  /\ handler = NoFile
  /\ users_file_sessions = NoConn
  /\ Ends(w)
  /\ UNCHANGED <<server_vars, wire_vars, conn_vars, transfer_vars, broken>>

EnterUpload(w) ==
  /\ At(w, "upload", "enter")
  /\ uploads_progress' = [uploads_progress EXCEPT ![call[w].file] = 0]
  /\ Goes(w, "send")
  /\ UNCHANGED <<server_vars, wire_vars, conn_vars, writing, download_files,
                 got, downloaded, broken>>

\* upload writes chunk 0 to *_socket, whatever that is by now.
Upload(w) ==
  LET f == call[w].file
  IN /\ At(w, "upload", "send")
     /\ Ends(w)
     /\ \/ /\ socket = NoConn
           /\ broken' = "no_socket"
           /\ UNCHANGED <<writing, to_server>>
        \/ /\ socket # NoConn
           /\ writing' = [writing EXCEPT ![f] = 0]
           /\ ToServer(socket, <<ChunkOf(f, 0)>>)
           /\ UNCHANGED broken
     /\ UNCHANGED <<server_vars, to_client, closed, conn_vars,
                    uploads_progress, download_files, got, downloaded>>

(***************************************************************************)
(* Starting and stopping a download                                        *)
(***************************************************************************)

StartDownload(w, f) ==
  /\ \/ Starts(w, "download") /\ f \in Stored
     \/ Starts(w, "fetch") /\ f \in offered
  /\ f \notin download_files
  /\ call' = [call EXCEPT ![w] = Call("download", f, "info")]
  /\ UNCHANGED <<server_vars, wire_vars, conn_vars, transfer_vars, broken>>

GetFileInfo(w) ==
  /\ At(w, "download", "info")
  /\ handler = NoFile
  /\ IF call[w].file \in files_table THEN Goes(w, "enter") ELSE Ends(w)
  /\ UNCHANGED <<server_vars, wire_vars, conn_vars, transfer_vars, broken>>

EnterDownload(w) ==
  /\ At(w, "download", "enter")
  /\ download_files' = download_files \cup {call[w].file}
  /\ got' = [got EXCEPT ![call[w].file] = {}]
  /\ Goes(w, "socket")
  /\ UNCHANGED <<server_vars, wire_vars, conn_vars, uploads_progress, writing,
                 downloaded, broken>>

DownloadFound(w) ==
  /\ At(w, "download", "request")
  /\ Server!InitDownloadFile(call[w].file)
  /\ Goes(w, "wait")
  /\ UNCHANGED <<wire_vars, conn_vars, transfer_vars, broken>>

\* The exception of a refused request leaves the entry in _download_files.
DownloadRefused(w) ==
  /\ At(w, "download", "request")
  /\ handler = NoFile
  /\ users_file_sessions = NoConn
  /\ Ends(w)
  /\ UNCHANGED <<server_vars, wire_vars, conn_vars, transfer_vars, broken>>

DownloadAnswered(w) ==
  /\ At(w, "download", "wait")
  /\ Ends(w)
  /\ \/ /\ \/ Server!DownloadCrashes
           \/ Server!DownloadUnreadable
           \/ Server!AlreadyDownloading
        /\ UNCHANGED to_client
     \/ \E k \in Chains : Server!AddDownloadFile(k) /\ ServerWrites(k)
  /\ UNCHANGED <<to_server, closed, conn_vars, transfer_vars, broken>>

StartStop(w, f) ==
  /\ Starts(w, "stop")
  /\ f \in download_files \/ uploads_progress[f] # Absent
  /\ call' = [call EXCEPT ![w] = Call("stop", f, "request")]
  /\ UNCHANGED <<server_vars, wire_vars, conn_vars, transfer_vars, broken>>

StopDone(w) ==
  /\ At(w, "stop", "request")
  /\ Server!StopFileTransmission(call[w].file)
  /\ Goes(w, "erase")
  /\ UNCHANGED <<wire_vars, conn_vars, transfer_vars, broken>>

StopRefused(w) ==
  /\ At(w, "stop", "request")
  /\ handler = NoFile
  /\ users_file_sessions = NoConn
  /\ Ends(w)
  /\ UNCHANGED <<server_vars, wire_vars, conn_vars, transfer_vars, broken>>

EraseStopped(w) ==
  LET f == call[w].file
  IN /\ At(w, "stop", "erase")
     /\ uploads_progress' = [uploads_progress EXCEPT ![f] = Absent]
     /\ download_files' = download_files \ {f}
     /\ got' = [got EXCEPT ![f] = {}]
     /\ Ends(w)
     /\ UNCHANGED <<server_vars, wire_vars, conn_vars, writing, downloaded,
                    broken>>

(***************************************************************************)
(* Connecting                                                              *)
(***************************************************************************)

NeedsSocket(w) == call[w].stage = "socket"

CheckSocket(w) ==
  /\ NeedsSocket(w)
  /\ Goes(w, IF socket = NoConn THEN "connect" ELSE "request")
  /\ UNCHANGED <<server_vars, wire_vars, conn_vars, transfer_vars, broken>>

\* connect_to_file_server up to the session auth packet.  A second worker that
\* found no socket either replaces the socket and the context of the first.
Connect(w, c) ==
  /\ call[w].stage = "connect"
  /\ Server!Accept(c)
  /\ broken' = IF socket # NoConn THEN "two_connects" ELSE broken
  /\ socket' = c
  /\ io' = "made"
  /\ Goes(w, "auth")
  /\ UNCHANGED <<wire_vars, stop_threads, cleaner, logout, transfer_vars>>

ServerAuth(c) ==
  /\ c = socket
  /\ \E w \in Workers : call[w].stage = "auth"
  /\ Server!SessionAuth(c)
  /\ UNCHANGED <<wire_vars, client_vars>>

\* The answer: recv is armed, and the I/O thread runs.
Connected(w) ==
  /\ call[w].stage = "auth"
  /\ socket \in user
  /\ io' = IF io = "made" THEN "running" ELSE io
  /\ Goes(w, "armed")
  /\ UNCHANGED <<server_vars, wire_vars, socket, stop_threads, cleaner, logout,
                 transfer_vars, broken>>

\* Only then may the threads run, whatever the I/O thread has met meanwhile.
ThreadsRun(w) ==
  /\ call[w].stage = "armed"
  /\ stop_threads' = FALSE
  /\ Goes(w, "request")
  /\ UNCHANGED <<server_vars, wire_vars, socket, io, cleaner, logout,
                 transfer_vars, broken>>

\* Mutant of ConnectFails: a connection that ends unanswered is not noticed.
ConnectFailsIfRefused(w) ==
  /\ call[w].stage = "auth"
  /\ socket # NoConn
  /\ "refuse" \in world
  /\ Ends(w)
  /\ UNCHANGED <<server_vars, wire_vars, conn_vars, transfer_vars, broken>>

\* The exception leaves the socket, which nothing frees any more.
ConnectFails(w) ==
  /\ call[w].stage = "auth"
  /\ socket # NoConn
  /\ "refuse" \in world \/ ~ Open(socket)
  /\ Ends(w)
  /\ UNCHANGED <<server_vars, wire_vars, conn_vars, transfer_vars, broken>>

\* A log out has cleaned the connection while it was being made.
ConnectFreed(w) ==
  /\ call[w].stage = "auth"
  /\ socket = NoConn
  /\ Ends(w)
  /\ broken' = "no_socket"
  /\ UNCHANGED <<server_vars, wire_vars, conn_vars, transfer_vars>>

(***************************************************************************)
(* Cleaning the connection                                                 *)
(***************************************************************************)

ClosesSocket ==
  /\ closed' = closed \cup ({socket} \ {NoConn})
  /\ to_client' = [c \in Conns |-> IF c = socket THEN <<>> ELSE to_client[c]]

\* Mutant of CleanConnection: nothing frees the context and the maps.
CleanNothing ==
  /\ stop_threads' = TRUE
  /\ io' = "stopped"
  /\ ClosesSocket
  /\ UNCHANGED <<cleaner, broken>>

\* clean_connection past its check of _stop_threads: it stops the context,
\* closes the socket, joins the events thread, which ends by itself, and
\* detaches the thread below.  A second one joins that thread twice.
CleanConnection ==
  /\ stop_threads' = TRUE
  /\ io' = "stopped"
  /\ ClosesSocket
  /\ cleaner' = "join"
  /\ broken' = IF cleaner # "none" THEN "two_cleaners" ELSE broken

\* It joins the I/O thread, which has run out of work, frees the socket, which
\* may have been made since, and then the context and the maps.
CleanerFreesSocket ==
  /\ cleaner = "join"
  /\ cleaner' = "clear"
  /\ socket' = NoConn
  /\ ClosesSocket
  /\ UNCHANGED <<server_vars, to_server, call, stop_threads, io, logout,
                 transfer_vars, broken>>

CleanerClears ==
  /\ cleaner = "clear"
  /\ cleaner' = "none"
  /\ broken' = IF socket # NoConn THEN "context_freed" ELSE broken
  /\ io' = "none"
  /\ uploads_progress' = [f \in Files |-> Absent]
  /\ writing' = [f \in Files |-> Absent]
  /\ download_files' = {}
  /\ got' = [f \in Files |-> {}]
  /\ UNCHANGED <<server_vars, wire_vars, call, socket, stop_threads, logout,
                 downloaded>>

\* The request to log out; the server cleans the user's session.
LogOut ==
  /\ "logout" \in world
  /\ logout = "none"
  /\ handler = NoFile
  /\ logout' = "asked"
  /\ \/ Server!CleanUserSession
     \/ users_file_sessions = NoConn /\ UNCHANGED server_vars
  /\ UNCHANGED <<wire_vars, call, socket, stop_threads, io, cleaner,
                 transfer_vars, broken>>

\* logged_out, on the thread that logs out: clean_connection looks at
\* _stop_threads, and sets it later.
LoggedOutChecks ==
  /\ logout = "asked"
  /\ logout' = IF stop_threads THEN "done" ELSE "checked"
  /\ UNCHANGED <<server_vars, wire_vars, call, socket, stop_threads, io,
                 cleaner, transfer_vars, broken>>

LoggedOutCleans ==
  /\ logout = "checked"
  /\ logout' = "done"
  /\ CleanConnection
  /\ UNCHANGED <<server_vars, to_server, call, socket, transfer_vars>>

(***************************************************************************)
(* The I/O thread                                                          *)
(***************************************************************************)

\* The thread runs while recv is armed, and until the last write is done.
IORuns == io \in {"running", "writes"}
Drained ==
  IF io = "writes" /\ \A f \in Files : writing'[f] = Absent THEN "ended" ELSE io

\* A client that is idle has the server shut the connection down.
Idle == download_files' = {} /\ \A f \in Files : uploads_progress'[f] = Absent
CheckIfIdle(c, sent) ==
  ToServer(c, sent \o (IF Idle /\ ~ stop_threads THEN <<End>> ELSE <<>>))

\* Mutant of UploadChunkSent: it forgets to count the chunk it has sent.
UploadUncounted(f) ==
  LET i == uploads_progress[f]
      more == i # Absent /\ i + 1 \in Chunks
  IN /\ IORuns
     /\ writing[f] # Absent
     /\ uploads_progress' =
          [uploads_progress EXCEPT ![f] = IF more THEN i ELSE Absent]
     /\ writing' = [writing EXCEPT ![f] = IF more THEN i + 1 ELSE Absent]
     /\ UNCHANGED <<download_files, got, downloaded>>
     /\ CheckIfIdle(socket, IF more THEN <<ChunkOf(f, i + 1)>> ELSE <<>>)
     /\ broken' = IF socket = NoConn THEN "no_socket" ELSE broken
     /\ io' = Drained
     /\ UNCHANGED <<server_vars, to_client, closed, call, socket, stop_threads,
                    cleaner, logout>>

\* The callback of an upload's write: the next chunk, or the last was sent, or
\* the upload was stopped; check_if_idle comes after each.  A log out may have
\* freed the socket under the write.
UploadChunkSent(f) ==
  LET i == uploads_progress[f]
      more == i # Absent /\ i + 1 \in Chunks
  IN /\ IORuns
     /\ writing[f] # Absent
     /\ uploads_progress' =
          [uploads_progress EXCEPT ![f] = IF more THEN i + 1 ELSE Absent]
     /\ writing' = [writing EXCEPT ![f] = IF more THEN i + 1 ELSE Absent]
     /\ UNCHANGED <<download_files, got, downloaded>>
     /\ CheckIfIdle(socket, IF more THEN <<ChunkOf(f, i + 1)>> ELSE <<>>)
     /\ broken' = IF socket = NoConn THEN "no_socket" ELSE broken
     /\ io' = Drained
     /\ UNCHANGED <<server_vars, to_client, closed, call, socket, stop_threads,
                    cleaner, logout>>

WriteFails(f) ==
  /\ IORuns
  /\ writing[f] # Absent
  /\ socket # NoConn
  /\ Fails(socket)

\* The write fails: the connection is gone, or is being shut down.
UploadWriteFails(f) ==
  /\ WriteFails(f)
  /\ ~ stop_threads
  /\ CleanConnection
  /\ UNCHANGED <<server_vars, to_server, call, socket, logout,
                 transfer_vars>>

\* While the call that connects has still to let the threads run,
\* clean_connection returns at once: nothing cleans the connection.
UploadFailIgnored(f) ==
  /\ WriteFails(f)
  /\ stop_threads
  /\ writing' = [writing EXCEPT ![f] = Absent]
  /\ io' = Drained
  /\ UNCHANGED <<server_vars, wire_vars, call, socket, stop_threads, cleaner,
                 logout, uploads_progress, download_files, got, downloaded,
                 broken>>

Next_packet == Head(to_client[socket])
HasPacket == io = "running" /\ socket # NoConn /\ to_client[socket] # <<>>

\* Mutant of RecvChunk: a file is complete without its last chunk.
RecvOneShort ==
  LET f == Next_packet.file
      i == Next_packet.index
      has == got[f] \cup {i}
      whole == has \cup {NumChunks - 1} = Chunks
  IN /\ HasPacket
     /\ Next_packet # End
     /\ to_client' = [to_client EXCEPT ![socket] = Tail(@)]
     /\ IF f \in download_files
          THEN IF whole
                 THEN /\ download_files' = download_files \ {f}
                      /\ downloaded' = downloaded \cup {f}
                      /\ got' = [got EXCEPT ![f] = {}]
                 ELSE /\ got' = [got EXCEPT ![f] = has]
                      /\ UNCHANGED <<download_files, downloaded>>
          ELSE UNCHANGED <<download_files, got, downloaded>>
     /\ UNCHANGED <<uploads_progress, writing>>
     /\ CheckIfIdle(socket, <<>>)
     /\ UNCHANGED <<server_vars, closed, call, conn_vars, broken>>

\* handle_packet: a chunk of a file that is not downloaded is dropped, and so is
\* an error.
RecvChunk ==
  LET f == Next_packet.file
      i == Next_packet.index
      has == got[f] \cup {i}
  IN /\ HasPacket
     /\ Next_packet # End
     /\ to_client' = [to_client EXCEPT ![socket] = Tail(@)]
     /\ IF f \in download_files
          THEN IF has = Chunks
                 THEN /\ download_files' = download_files \ {f}
                      /\ downloaded' = downloaded \cup {f}
                      /\ got' = [got EXCEPT ![f] = {}]
                 ELSE /\ got' = [got EXCEPT ![f] = has]
                      /\ UNCHANGED <<download_files, downloaded>>
          ELSE UNCHANGED <<download_files, got, downloaded>>
     /\ UNCHANGED <<uploads_progress, writing>>
     /\ CheckIfIdle(socket, <<>>)
     /\ UNCHANGED <<server_vars, closed, call, conn_vars, broken>>

RecvEnd ==
  /\ HasPacket
  /\ Next_packet = End
  /\ ~ stop_threads
  /\ CleanConnection
  /\ UNCHANGED <<server_vars, to_server, call, socket, logout,
                 transfer_vars>>

\* As for a write; recv is not armed again.
RecvEndIgnored ==
  /\ HasPacket
  /\ Next_packet = End
  /\ stop_threads
  /\ to_client' = [to_client EXCEPT ![socket] = Tail(@)]
  /\ io' = IF \A f \in Files : writing[f] = Absent THEN "ended" ELSE "writes"
  /\ UNCHANGED <<server_vars, to_server, closed, call, socket, stop_threads,
                 cleaner, logout, transfer_vars, broken>>

(***************************************************************************)
(* The server's side of the wire                                           *)
(***************************************************************************)

ServerReads(c) ==
  LET p == Head(to_server[c])
  IN /\ to_server[c] # <<>>
     /\ to_server' = [to_server EXCEPT ![c] = Tail(@)]
     /\ \/ /\ p = End
           /\ Server!Shutdown(c)
           /\ ToClient(c, End)
        \/ /\ p # End
           /\ Server!ChunkPacket(c, p.file, p.index)
           /\ IF p.file \in upload_files[c] THEN UNCHANGED to_client
                                           ELSE ToClient(c, Refusal)
     /\ UNCHANGED <<closed, client_vars>>

ServerShutdownDone(c) ==
  /\ Server!ShutdownDone(c)
  /\ ServerDrops(c)
  /\ UNCHANGED <<to_client, closed, client_vars>>

\* The client has closed the connection, or the network fails.
ServerConnLost(c) ==
  /\ c \in closed \/ "lost" \in world
  /\ Server!ConnLost(c)
  /\ ServerDrops(c)
  /\ ToClient(c, End)
  /\ UNCHANGED <<closed, client_vars>>

ServerChain(k) ==
  /\ Server!ChainStep(k)
  /\ ServerWrites(k)
  /\ UNCHANGED <<to_server, closed, client_vars>>

ServerSaver(f) == Server!SaverStep(f) /\ UNCHANGED <<wire_vars, client_vars>>

(***************************************************************************)
(* The specification                                                       *)
(***************************************************************************)

WorkerStep(w) ==
  \/ UploadInitiated(w)
  \/ EmptyFile(w)
  \/ UploadRefused(w)
  \/ EnterUpload(w)
  \/ Upload(w)
  \/ GetFileInfo(w)
  \/ EnterDownload(w)
  \/ DownloadFound(w)
  \/ DownloadRefused(w)
  \/ DownloadAnswered(w)
  \/ StopDone(w)
  \/ StopRefused(w)
  \/ EraseStopped(w)
  \/ CheckSocket(w)
  \/ \E c \in Conns : Connect(w, c)
  \/ Connected(w)
  \/ ThreadsRun(w)
  \/ ConnectFails(w)
  \/ ConnectFreed(w)

UserStep(w) ==
  \E f \in Files : StartUpload(w, f) \/ StartDownload(w, f) \/ StartStop(w, f)

IOStep ==
  \/ \E f \in Files : \/ UploadChunkSent(f)
                      \/ UploadWriteFails(f)
                      \/ UploadFailIgnored(f)
  \/ RecvChunk
  \/ RecvEnd
  \/ RecvEndIgnored

CleanerStep == CleanerFreesSocket \/ CleanerClears

ServerStep(c) ==
  ServerAuth(c) \/ ServerReads(c) \/ ServerShutdownDone(c)

Running == ~ crashed /\ broken = "no"

Next ==
  /\ Running
  /\ \/ \E w \in Workers : UserStep(w) \/ WorkerStep(w)
     \/ LogOut
     \/ LoggedOutChecks
     \/ LoggedOutCleans
     \/ IOStep
     \/ CleanerStep
     \/ \E c \in Conns : ServerStep(c) \/ ServerConnLost(c)
     \/ \E k \in Chains : ServerChain(k)
     \/ \E f \in Files : ServerSaver(f)

Fairness ==
  /\ \A w \in Workers : WF_vars(Running /\ WorkerStep(w))
  /\ WF_vars(Running /\ IOStep)
  /\ WF_vars(Running /\ CleanerStep)
  /\ \A c \in Conns : WF_vars(Running /\ ServerStep(c))
  /\ \A k \in Chains : WF_vars(Running /\ ServerChain(k))
  /\ \A f \in Files : WF_vars(Running /\ ServerSaver(f))

Spec == Init /\ [][Next]_vars /\ Fairness

(***************************************************************************)
(* Properties                                                              *)
(***************************************************************************)

\* A file the client has handed to save_file was written on the server's disk into
\* its last chunk: the client counts the chunks of the row's size, and the server
\* sends those on disk, of which it takes a last one that was written in part for
\* a chunk.  So no chunk is missing, and what is saved ahead of the last one is
\* what was uploaded (handle_packet, get_file_chunks).
DownloadedToLastChunk == \A f \in downloaded : content[f] > 2 * (NumChunks - 1)

\* The chunks of an upload reach the server in order, none before the client
\* has written it: the file is never saved while the client has chunks to send
\* (handle_upload_chunk_sent against the chunk branch of handle_packet).
UploadInStep ==
  \A f \in Uploads :
    \E n \in 0 .. NumChunks :
      /\ received[f] = 0 .. n - 1
      /\ uploads_progress[f] # Absent => n <= uploads_progress[f] + 1

\* The model has run out of connections or of chains.
OutOfBounds ==
  \/ \A c \in Conns : stream[c] # "none"
  \/ \A k \in Chains : chain[k].status # "unused"

Stopped == ~ Running \/ OutOfBounds

\* A call of the user returns, whatever the connection goes through meanwhile
\* (connect_to_file_server and the requests of start_upload, start_download and
\* stop_file_transmission).
CallsReturn ==
  \A w \in Workers :
    call[w] # NoCall ~> (Stopped \/ call[w] = NoCall)

\* An upload with a chunk under way while the I/O thread runs does not stay so for
\* ever: its last chunk is sent, it is stopped, a write fails, or the connection is
\* cleaned.  Without the thread it stays, on a socket whose connecting has failed,
\* or one that was lost before the call that connected it let the threads run
\* (handle_upload_chunk_sent, clean_connection).
UploadsEnd ==
  \A f \in Uploads :
    (writing[f] # Absent /\ IORuns)
      ~> (~ Running \/ writing[f] = Absent)

\* When neither the user nor the network ends a connection, it is cleaned
\* because it is idle, and drops no transfer: that is what the comment of
\* check_if_idle says (files.cpp:537).
IdleCleansNothing ==
  [][(CleanerClears /\ world \cap {"lost", "refuse", "logout"} = {}) =>
       download_files = {} /\ \A f \in Files : uploads_progress[f] = Absent]_vars
=============================================================================
