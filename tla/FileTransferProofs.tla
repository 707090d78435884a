-------------------------- MODULE FileTransferProofs --------------------------
(***************************************************************************)
(* Proofs about FileTransfer, for any files, workers and connections: its  *)
(* server is FileServer, so that what is proved of FileServer holds with   *)
(* the client; what was downloaded was on the disk into its last chunk;    *)
(* and the client counts the chunks of an upload in step with what is on   *)
(* the way and at the server.                                              *)
(***************************************************************************)
EXTENDS FileTransfer, TLAPS

\* What is on the way to the server are chunks of files and shutdowns, and every
\* call is about a file.
WireOK ==
  /\ to_server \in [Conns -> Seq(Packets)]
  /\ \A w \in Workers : call[w] # NoCall => call[w].file \in Files
  /\ call \in [Workers -> [op : Ops, file : Files \cup {NoFile}, stage : Stages]]

LEMMA NoCallOK == NoCall \in [op : Ops, file : Files \cup {NoFile}, stage : Stages]
BY DEF NoCall, Call, Ops, Stages

LEMMA InitWireOK == Init => WireOK
<1> SUFFICES ASSUME Init PROVE WireOK
  OBVIOUS
<1>1. to_server \in [Conns -> Seq(Packets)]
  <2>1. <<>> \in Seq(Packets)
    OBVIOUS
  <2> QED
    BY <2>1 DEF Init
<1>2. \A w \in Workers : call[w] = NoCall
  BY DEF Init
<1>3. call \in [Workers -> [op : Ops, file : Files \cup {NoFile}, stage : Stages]]
  BY NoCallOK DEF Init
<1> QED
  BY <1>1, <1>2, <1>3 DEF WireOK

\* Appending packets, or dropping them, keeps the wire typed.
LEMMA ToServerOK ==
  ASSUME to_server \in [Conns -> Seq(Packets)], NEW c, NEW ps \in Seq(Packets), ToServer(c, ps)
  PROVE  to_server' \in [Conns -> Seq(Packets)]
<1>1. CASE c \in Conns
  <2>1. to_server[c] \in Seq(Packets)
    BY <1>1
  <2>2. to_server[c] \o ps \in Seq(Packets)
    BY <2>1
  <2> QED
    BY <2>2 DEF ToServer
<1>2. CASE c \notin Conns
  BY <1>2 DEF ToServer
<1> QED
  BY <1>1, <1>2

LEMMA EndIsPacket == End \in Packets
BY DEF End, Packets

\* A call that moves on to another stage stays about its file.
LEMMA CallMoves ==
  ASSUME WireOK, NEW w \in Workers, call[w] # NoCall, NEW stage \in Stages, Goes(w, stage)
  PROVE  /\ call' \in [Workers -> [op : Ops, file : Files \cup {NoFile}, stage : Stages]]
         /\ \A v \in Workers : call'[v] # NoCall => call'[v].file \in Files
BY DEF WireOK, Goes

LEMMA CallEnds ==
  ASSUME WireOK, NEW w \in Workers, Ends(w)
  PROVE  /\ call' \in [Workers -> [op : Ops, file : Files \cup {NoFile}, stage : Stages]]
         /\ \A v \in Workers : call'[v] # NoCall => call'[v].file \in Files
BY NoCallOK DEF WireOK, Ends

LEMMA WorkerStepWireOK ==
  ASSUME WireOK, NEW w \in Workers, WorkerStep(w)
  PROVE  WireOK'
<1>1. call[w] # NoCall /\ call[w].file \in Files
  <2>1. call[w].stage # "idle"
    BY DEF WorkerStep, UploadInitiated, UploadRefused, EmptyFile, EnterUpload, Upload,
           GetFileInfo, EnterDownload, DownloadFound, DownloadRefused, DownloadAnswered,
           StopDone, StopRefused, EraseStopped, CheckSocket, NeedsSocket, Connect,
           Connected, ThreadsRun, ConnectFails, ConnectFreed, At
  <2>2. NoCall.stage = "idle"
    BY DEF NoCall, Call
  <2> QED
    BY <2>1, <2>2 DEF WireOK
<1>2. (\E stage \in Stages : Goes(w, stage)) \/ Ends(w)
  BY DEF WorkerStep, UploadInitiated, UploadRefused, EmptyFile, EnterUpload, Upload,
         GetFileInfo, EnterDownload, DownloadFound, DownloadRefused, DownloadAnswered,
         StopDone, StopRefused, EraseStopped, CheckSocket, Connect, Connected, ThreadsRun,
         ConnectFails, ConnectFreed, Stages
<1>3. to_server' \in [Conns -> Seq(Packets)]
  <2>1. CASE Upload(w)
    <3>1. ChunkOf(call[w].file, 0) \in Packets
      BY <1>1, FileTransferAssumption DEF ChunkOf, Packets, Chunks, Server!Chunks
    <3>2. <<ChunkOf(call[w].file, 0)>> \in Seq(Packets)
      BY <3>1
    <3>3. UNCHANGED to_server \/ ToServer(socket, <<ChunkOf(call[w].file, 0)>>)
      BY <2>1 DEF Upload
    <3> QED
      BY <3>2, <3>3, ToServerOK DEF WireOK
  <2>2. CASE ~ Upload(w)
    <3>1. UNCHANGED to_server
      BY <2>2 DEF WorkerStep, UploadInitiated, UploadRefused, EmptyFile, EnterUpload,
                  GetFileInfo, EnterDownload, DownloadFound, DownloadRefused,
                  DownloadAnswered, StopDone, StopRefused, EraseStopped, CheckSocket,
                  Connect, Connected, ThreadsRun, ConnectFails, ConnectFreed, wire_vars
    <3> QED
      BY <3>1 DEF WireOK
  <2> QED
    BY <2>1, <2>2
<1> QED
  BY <1>1, <1>2, <1>3, CallMoves, CallEnds DEF WireOK

LEMMA UserStepWireOK ==
  ASSUME WireOK, NEW w \in Workers, UserStep(w)
  PROVE  WireOK'
<1>1. PICK f \in Files : \E op \in Ops, stage \in Stages :
        call' = [call EXCEPT ![w] = Call(op, f, stage)]
  BY DEF UserStep, StartUpload, StartDownload, StartStop, Ops, Stages
<1>2. UNCHANGED to_server
  BY DEF UserStep, StartUpload, StartDownload, StartStop, wire_vars
<1> QED
  BY <1>1, <1>2 DEF WireOK, Call

LEMMA IOStepWireOK ==
  ASSUME WireOK, IOStep
  PROVE  WireOK'
<1>1. UNCHANGED call
  BY DEF IOStep, UploadChunkSent, UploadWriteFails, UploadFailIgnored, RecvChunk, RecvEnd,
         RecvEndIgnored
<1>2. to_server' \in [Conns -> Seq(Packets)]
  <2>1. ASSUME NEW c, NEW sent \in Seq(Packets), CheckIfIdle(c, sent)
        PROVE  to_server' \in [Conns -> Seq(Packets)]
    <3> DEFINE ps == sent \o (IF Idle /\ ~ stop_threads THEN <<End>> ELSE <<>>)
    <3>1. <<End>> \in Seq(Packets) /\ <<>> \in Seq(Packets)
      BY EndIsPacket
    <3>2. ps \in Seq(Packets)
      BY <3>1
    <3>3. ToServer(c, ps)
      BY <2>1 DEF CheckIfIdle
    <3> QED
      BY <3>2, <3>3, ToServerOK DEF WireOK
  <2>2. ASSUME NEW f \in Files, UploadChunkSent(f)
        PROVE  to_server' \in [Conns -> Seq(Packets)]
    <3> DEFINE i == uploads_progress[f]
               more == i # Absent /\ i + 1 \in Chunks
               sent == IF more THEN <<ChunkOf(f, i + 1)>> ELSE <<>>
    <3>1. more => ChunkOf(f, i + 1) \in Packets
      BY DEF ChunkOf, Packets
    <3>2. sent \in Seq(Packets)
      BY <3>1
    <3>3. CheckIfIdle(socket, sent)
      BY <2>2 DEF UploadChunkSent
    <3> QED
      BY <2>1, <3>2, <3>3
  <2>3. CASE RecvChunk
    <3>1. <<>> \in Seq(Packets) /\ CheckIfIdle(socket, <<>>)
      BY <2>3 DEF RecvChunk
    <3> QED
      BY <2>1, <3>1
  <2>4. CASE \/ RecvEnd \/ RecvEndIgnored
             \/ \E f \in Files : UploadWriteFails(f) \/ UploadFailIgnored(f)
    BY <2>4 DEF wire_vars, WireOK, RecvEnd, RecvEndIgnored, UploadWriteFails, UploadFailIgnored
  <2> QED
    BY <2>2, <2>3, <2>4 DEF IOStep
<1> QED
  BY <1>1, <1>2 DEF WireOK

LEMMA StepWireOK == WireOK /\ [Next]_vars => WireOK'
<1> SUFFICES ASSUME WireOK, [Next]_vars PROVE WireOK'
  OBVIOUS
<1>1. ASSUME NEW w \in Workers, UserStep(w) \/ WorkerStep(w) PROVE WireOK'
  BY <1>1, UserStepWireOK, WorkerStepWireOK
<1>2. CASE LogOut \/ LoggedOutChecks \/ LoggedOutCleans \/ CleanerStep
  BY <1>2 DEF WireOK, LoggedOutChecks, LogOut, LoggedOutCleans, CleanerStep,
              CleanerFreesSocket, CleanerClears, wire_vars
<1>3. CASE IOStep
  BY <1>3, IOStepWireOK
<1>4. ASSUME NEW c \in Conns, ServerStep(c) \/ ServerConnLost(c) PROVE WireOK'
  <2>1. UNCHANGED call
    BY <1>4 DEF ServerStep, ServerAuth, ServerReads, ServerShutdownDone, ServerConnLost,
                client_vars
  <2>2. \/ UNCHANGED to_server
        \/ to_server[c] # <<>> /\ to_server' = [to_server EXCEPT ![c] = Tail(@)]
        \/ to_server' = [to_server EXCEPT ![c] = <<>>]
    BY <1>4 DEF ServerStep, ServerAuth, ServerReads, ServerShutdownDone, ServerConnLost,
                ServerDrops, wire_vars
  <2>3. to_server' \in [Conns -> Seq(Packets)]
    <3>1. <<>> \in Seq(Packets) /\ to_server[c] \in Seq(Packets)
      BY DEF WireOK
    <3>2. to_server[c] # <<>> => Tail(to_server[c]) \in Seq(Packets)
      BY <3>1
    <3> QED
      BY <2>2, <3>1, <3>2 DEF WireOK
  <2> QED
    BY <2>1, <2>3 DEF WireOK
<1>5. ASSUME NEW k \in Chains, ServerChain(k) PROVE WireOK'
  BY <1>5 DEF WireOK, ServerChain, client_vars
<1>6. ASSUME NEW f \in Files, ServerSaver(f) PROVE WireOK'
  BY <1>6 DEF WireOK, ServerSaver, wire_vars, client_vars
<1>7. CASE UNCHANGED vars
  BY <1>7 DEF WireOK, vars, wire_vars, client_vars
<1> QED
  BY <1>1, <1>2, <1>3, <1>4, <1>5, <1>6, <1>7 DEF Next

-----------------------------------------------------------------------------
\* The server's part: FileServer without the fairness of its threads.
ServerSpec == Server!Init /\ [][Server!Next]_server_vars

\* A worker's step is a step of the server's handlers, or none of the server's.
LEMMA WorkerStepServer ==
  ASSUME WireOK, ~ crashed, NEW w \in Workers, WorkerStep(w)
  PROVE  Server!Next \/ UNCHANGED server_vars
<1>1. call[w] # NoCall => call[w].file \in Files
  BY DEF WireOK
<1>2. CASE UploadInitiated(w) \/ DownloadFound(w) \/ StopDone(w)
  <2>1. call[w].file \in Files
    BY <1>1, <1>2 DEF UploadInitiated, DownloadFound, StopDone, At, NoCall, Call
  <2> QED
    BY <1>2, <2>1 DEF UploadInitiated, DownloadFound, StopDone, Server!Next
<1>3. CASE DownloadAnswered(w)
  BY <1>3 DEF DownloadAnswered, Server!Next, Server!HandlerStep
<1>4. ASSUME NEW c \in Conns, Connect(w, c) PROVE Server!Next
  BY <1>4 DEF Connect, Server!Next, Server!SessionStep
<1> QED
  BY <1>2, <1>3, <1>4
  DEF WorkerStep, UploadRefused, EmptyFile, EnterUpload, Upload, GetFileInfo,
      EnterDownload, DownloadRefused, StopRefused, EraseStopped, CheckSocket, Connected,
      ThreadsRun, ConnectFails, ConnectFreed

LEMMA ServerReadsServer ==
  ASSUME WireOK, ~ crashed, NEW c \in Conns, ServerReads(c)
  PROVE  Server!Next
<1> DEFINE p == Head(to_server[c])
<1>1. p \in Packets
  BY DEF WireOK, ServerReads
<1>2. CASE p = End
  BY <1>2 DEF ServerReads, Server!Next, Server!SessionStep
<1>3. CASE p # End
  <2>1. p.file \in Files /\ p.index \in Server!Chunks
    BY <1>1, <1>3 DEF Packets, End, Chunks
  <2>2. Server!ChunkPacket(c, p.file, p.index)
    BY <1>3 DEF ServerReads
  <2> QED
    BY <2>1, <2>2 DEF Server!Next
<1> QED
  BY <1>2, <1>3

LEMMA StepImplementsFileServer ==
  WireOK /\ [Next]_vars => [Server!Next]_server_vars
<1> SUFFICES ASSUME WireOK, Next PROVE Server!Next \/ UNCHANGED server_vars
  BY DEF vars
<1>0. ~ crashed
  BY DEF Next, Running
<1>1. ASSUME NEW w \in Workers, UserStep(w) PROVE UNCHANGED server_vars
  BY <1>1 DEF UserStep, StartUpload, StartDownload, StartStop
<1>2. ASSUME NEW w \in Workers, WorkerStep(w) PROVE Server!Next \/ UNCHANGED server_vars
  BY <1>0, <1>2, WorkerStepServer
<1>3. CASE LoggedOutChecks \/ LoggedOutCleans \/ IOStep \/ CleanerStep
  BY <1>3 DEF LoggedOutChecks, LoggedOutCleans, IOStep, CleanerStep,
              UploadChunkSent, UploadWriteFails, UploadFailIgnored, RecvChunk, RecvEnd,
              RecvEndIgnored, CleanerFreesSocket, CleanerClears
<1>4. ASSUME NEW c \in Conns, ServerReads(c) PROVE Server!Next
  BY <1>0, <1>4, ServerReadsServer
<1>5. ASSUME NEW c \in Conns, ServerAuth(c) \/ ServerShutdownDone(c) \/ ServerConnLost(c)
      PROVE  Server!Next
  BY <1>0, <1>5 DEF ServerAuth, ServerShutdownDone, ServerConnLost, Server!Next,
                    Server!SessionStep
<1>6. ASSUME NEW k \in Chains, ServerChain(k) PROVE Server!Next
  BY <1>0, <1>6 DEF ServerChain, Server!Next
<1>7. ASSUME NEW f \in Files, ServerSaver(f) PROVE Server!Next
  BY <1>0, <1>7 DEF ServerSaver, Server!Next
<1>8. CASE LogOut
  BY <1>0, <1>8 DEF LogOut, Server!Next
<1> QED
  BY <1>1, <1>2, <1>3, <1>4, <1>5, <1>6, <1>7, <1>8 DEF Next, ServerStep

\* Every step of the composition is a step of FileServer or leaves its state as
\* it is: requests in the order of the workers, and the packets of one client,
\* are among all those FileServer allows.
LEMMA ImplementsFileServer == Spec => ServerSpec
<1>1. Init => Server!Init
  BY DEF Init
<1>2. Spec => []WireOK
  BY InitWireOK, StepWireOK, PTL DEF Spec
<1> QED
  BY <1>1, <1>2, StepImplementsFileServer, PTL DEF Spec, ServerSpec

-----------------------------------------------------------------------------
\* What is proved of FileServer, for the server of the composition.
Proved == INSTANCE FileServerProofs

LEMMA InitServer == Init => Proved!IInv
<1>1. Server!Init => Proved!Init
  BY DEF Server!Init, Proved!Init, Server!Chunks, Proved!Chunks, Server!Full,
         Proved!Full, Server!Absent, Proved!Absent, Server!NoChain, Proved!NoChain
<1>2. Proved!Init => Proved!IInv
  BY FileTransferAssumption, Proved!InitIInv
<1> QED
  BY <1>1, <1>2 DEF Init

LEMMA SessionStepProved ==
  ASSUME NEW c \in Conns, Server!SessionStep(c)
  PROVE  Proved!SessionStep(c)
BY DEF Server!SessionStep, Server!Accept, Server!SessionAuth, Server!Answers,
       Server!Shutdown, Server!ShutdownDone, Server!ConnLost, Server!Reads,
       Server!upload_vars, Server!download_vars, Server!disk_vars, Proved!SessionStep,
       Proved!Accept, Proved!SessionAuth, Proved!Answers, Proved!Shutdown,
       Proved!ShutdownDone, Proved!ConnLost, Proved!Reads, Proved!upload_vars,
       Proved!download_vars, Proved!disk_vars

LEMMA ChunkPacketProved ==
  ASSUME NEW c \in Conns, NEW f \in Files, NEW i \in Chunks, Server!ChunkPacket(c, f, i)
  PROVE  Proved!ChunkPacket(c, f, i)
BY DEF Server!ChunkPacket, Server!ChunkSaved, Server!SaveFile, Server!SaveFileFails,
       Server!ChunkRefused, Server!Answers, Server!Whole, Server!Reads, Server!Chunks,
       Server!vars, Server!session_vars, Server!upload_vars, Server!download_vars,
       Server!disk_vars, Proved!ChunkPacket, Proved!ChunkSaved, Proved!SaveFile,
       Proved!SaveFileFails, Proved!ChunkRefused, Proved!Answers, Proved!Whole,
       Proved!Reads, Proved!Chunks, Proved!vars, Proved!session_vars, Proved!upload_vars,
       Proved!download_vars, Proved!disk_vars

LEMMA FileStepProved ==
  ASSUME NEW f \in Files,
         \/ Server!InitUploadFile(f) \/ Server!InitDownloadFile(f)
         \/ Server!StopFileTransmission(f) \/ Server!SaverStep(f)
  PROVE  \/ Proved!InitUploadFile(f) \/ Proved!InitDownloadFile(f)
         \/ Proved!StopFileTransmission(f) \/ Proved!SaverStep(f)
BY DEF Server!InitUploadFile, Server!InitDownloadFile, Server!StopFileTransmission,
       Server!SaverStep, Server!SaverOpens, Server!SaverWrites, Server!SaverFails,
       Server!Uploads, Server!Chunks, Server!Full, Server!Absent,
       Server!session_vars, Server!upload_vars, Server!download_vars, Server!disk_vars,
       Proved!InitUploadFile, Proved!InitDownloadFile, Proved!StopFileTransmission,
       Proved!SaverStep, Proved!SaverOpens, Proved!SaverWrites, Proved!SaverFails,
       Proved!Uploads, Proved!Chunks, Proved!Full, Proved!Absent,
       Proved!session_vars, Proved!upload_vars, Proved!download_vars, Proved!disk_vars

LEMMA ChainStepProved ==
  ASSUME NEW k \in Chains, Server!ChainStep(k)
  PROVE  Proved!ChainStep(k)
BY DEF Server!ChainStep, Server!HandleDownloadChunkSent, Server!DownloadStopped,
       Server!DownloadChunkSent, Server!DownloadEnds, Server!DownloadUsesFreed,
       Server!DownloadWriteFails, Server!Writable, Server!Progress, Server!Alive, Server!EndChain,
       Server!NoChain, Server!Absent,
       Server!session_vars, Server!upload_vars, Server!download_vars, Server!disk_vars,
       Proved!ChainStep, Proved!HandleDownloadChunkSent, Proved!DownloadStopped,
       Proved!DownloadChunkSent, Proved!DownloadEnds, Proved!DownloadUsesFreed,
       Proved!DownloadWriteFails, Proved!Writable, Proved!Progress, Proved!Alive, Proved!EndChain,
       Proved!NoChain, Proved!Absent,
       Proved!session_vars, Proved!upload_vars, Proved!download_vars, Proved!disk_vars

LEMMA HandlerStepProved ==
  ASSUME Server!HandlerStep
  PROVE  Proved!HandlerStep
BY DEF Server!HandlerStep, Server!DownloadCrashes, Server!DownloadUnreadable,
       Server!AlreadyDownloading, Server!AddDownloadFile, Server!ChunksOf, Server!Chunks,
       Server!ChainOf, Server!Live, Server!NoChain, Server!Absent,
       Server!session_vars, Server!upload_vars, Server!download_vars, Server!disk_vars,
       Proved!HandlerStep, Proved!DownloadCrashes, Proved!DownloadUnreadable,
       Proved!AlreadyDownloading, Proved!AddDownloadFile, Proved!ChunksOf, Proved!Chunks,
       Proved!ChainOf, Proved!Live, Proved!NoChain, Proved!Absent,
       Proved!session_vars, Proved!upload_vars, Proved!download_vars, Proved!disk_vars

LEMMA CleanUserSessionProved ==
  ASSUME Server!CleanUserSession
  PROVE  Proved!CleanUserSession
BY DEF Server!CleanUserSession, Server!upload_vars, Server!download_vars,
       Server!disk_vars, Proved!CleanUserSession, Proved!upload_vars,
       Proved!download_vars, Proved!disk_vars

LEMMA ServerInvariant == Spec => []Proved!IInv
<1>1. Server!Next => Proved!Next
  <2> SUFFICES ASSUME Server!Next PROVE Proved!Next
    OBVIOUS
  <2>1. ~ crashed
    BY DEF Server!Next
  <2>2. ASSUME NEW c \in Conns, NEW f \in Files, NEW i \in Server!Chunks,
               Server!ChunkPacket(c, f, i)
        PROVE  Proved!Next
    <3>1. i \in Chunks /\ i \in Proved!Chunks
      BY DEF Chunks, Server!Chunks, Proved!Chunks
    <3> QED
      BY <2>1, <2>2, <3>1, ChunkPacketProved DEF Proved!Next
  <2>3. ASSUME NEW f \in Files,
               \/ Server!InitUploadFile(f) \/ Server!InitDownloadFile(f)
               \/ Server!StopFileTransmission(f) \/ Server!SaverStep(f)
        PROVE  Proved!Next
    BY <2>1, <2>3, FileStepProved DEF Proved!Next
  <2> QED
    BY <2>1, <2>2, <2>3, SessionStepProved, ChainStepProved, HandlerStepProved,
       CleanUserSessionProved
       DEF Server!Next, Proved!Next
<1>2. UNCHANGED server_vars => UNCHANGED Proved!vars
  BY DEF server_vars, Proved!vars, Proved!session_vars, Proved!upload_vars,
         Proved!download_vars, Proved!disk_vars
<1>3. Proved!IInv /\ [Proved!Next]_Proved!vars => Proved!IInv'
  BY FileTransferAssumption, Proved!StepIInv
<1>4. Proved!IInv /\ [Server!Next]_server_vars => Proved!IInv'
  BY <1>1, <1>2, <1>3
<1> QED
  BY <1>4, InitServer, ImplementsFileServer, PTL DEF Spec, ServerSpec

-----------------------------------------------------------------------------
\* What the proofs of FileServer say of its state, in the terms of this module.
ServerOK ==
  /\ Server!TypeOK
  /\ \A k \in Chains : Server!Live(k) =>
       /\ chain[k].conn \in Conns /\ chain[k].file \in Files
       /\ content[chain[k].file] > 0
  /\ \A c, d \in Conns : \A f \in upload_files[c] \cap upload_files[d] : c = d
  /\ \A c \in Conns : upload_files[c] \subseteq offered
  /\ \A f \in files_table : \A c \in Conns : f \notin upload_files[c]

LEMMA ServerAlwaysOK == Spec => []ServerOK
<1>1. Proved!IInv => ServerOK
  BY DEF ServerOK, Proved!IInv, Proved!TypeOK, Server!TypeOK, Proved!ChainRecords,
         Server!ChainRecords, Proved!Chunks, Server!Chunks, Proved!Full, Server!Full,
         Proved!Uploads, Server!Uploads,
         Proved!Absent, Server!Absent, Proved!ChainsHold, Proved!Live, Server!Live,
         Proved!OneUploader, Proved!TableMatchesDisk
<1> QED
  BY <1>1, ServerInvariant, PTL

\* The client's part of the type.
ClientOK ==
  /\ to_client \in [Conns -> Seq(Packets \cup {Refusal})]
  /\ closed \in SUBSET Conns
  /\ socket \in Conns \cup {NoConn}
  /\ stop_threads \in BOOLEAN
  /\ io \in {"none", "made", "running", "writes", "ended", "stopped"}
  /\ uploads_progress \in [Files -> Nat \cup {Absent}]
  /\ writing \in [Files -> Chunks \cup {Absent}]
  /\ download_files \in SUBSET Files
  /\ got \in [Files -> SUBSET Chunks]
  /\ downloaded \in SUBSET Files
  /\ cleaner \in {"none", "join", "clear"}
  /\ logout \in {"none", "asked", "checked", "done"}
  /\ broken \in {"no", "two_connects", "no_socket", "context_freed",
                 "two_cleaners"}

LEMMA InitClientOK == Init => ClientOK
<1> SUFFICES ASSUME Init PROVE ClientOK
  OBVIOUS
<1>1. <<>> \in Seq(Packets \cup {Refusal})
  OBVIOUS
<1> QED
  BY <1>1, FileTransferAssumption DEF Init, ClientOK

LEMMA ToClientOK ==
  ASSUME ClientOK, NEW c, NEW p \in Packets \cup {Refusal}, ToClient(c, p)
  PROVE  to_client' \in [Conns -> Seq(Packets \cup {Refusal})]
<1>1. CASE c \in Conns
  <2>1. to_client[c] \in Seq(Packets \cup {Refusal})
    BY <1>1 DEF ClientOK
  <2>2. Append(to_client[c], p) \in Seq(Packets \cup {Refusal})
    BY <2>1
  <2> QED
    BY <2>2 DEF ClientOK, ToClient
<1>2. CASE c \notin Conns
  BY <1>2 DEF ClientOK, ToClient
<1> QED
  BY <1>1, <1>2

\* The packet of a chunk that a chain writes.
LEMMA ServerWritesOK ==
  ASSUME ClientOK, ServerOK', NEW k \in Chains, ServerWrites(k)
  PROVE  to_client' \in [Conns -> Seq(Packets \cup {Refusal})]
<1>1. CASE UNCHANGED to_client
  BY <1>1 DEF ClientOK
<1>2. CASE chain'[k].status = "writing" /\ ToClient(chain'[k].conn, ChunkOf(chain'[k].file, chain'[k].at))
  <2>1. chain'[k].file \in Files /\ chain'[k].at \in Chunks
    BY <1>2 DEF ServerOK, Server!TypeOK, Server!ChainRecords, Server!Live, Chunks
  <2>2. ChunkOf(chain'[k].file, chain'[k].at) \in Packets
    BY <2>1 DEF ChunkOf, Packets
  <2> QED
    BY <1>2, <2>2, ToClientOK
<1> QED
  BY <1>1, <1>2 DEF ServerWrites

LEMMA WorkerStepClientOK ==
  ASSUME ClientOK, ServerOK', WireOK, NEW w \in Workers, WorkerStep(w)
  PROVE  ClientOK'
<1>0. /\ call[w].file \in Files \/ call[w] = NoCall
      /\ NoCall.stage = "idle" /\ NoCall.op = "none"
      /\ 0 \in Chunks
  BY FileTransferAssumption DEF WireOK, NoCall, Call, Chunks, Server!Chunks
<1>1. CASE EnterUpload(w)
  <2>1. uploads_progress' \in [Files -> Nat \cup {Absent}]
    BY <1>1 DEF ClientOK, EnterUpload
  <2> QED
    BY <1>1, <2>1 DEF ClientOK, EnterUpload, wire_vars, conn_vars
<1>2. CASE Upload(w)
  <2>1. writing' \in [Files -> Chunks \cup {Absent}]
    BY <1>0, <1>2 DEF ClientOK, Upload
  <2> QED
    BY <1>2, <2>1 DEF ClientOK, Upload, conn_vars
<1>3. CASE EnterDownload(w)
  <2>1. call[w].file \in Files
    BY <1>0, <1>3 DEF EnterDownload, At
  <2>2. download_files' \in SUBSET Files /\ got' \in [Files -> SUBSET Chunks]
    BY <1>3, <2>1 DEF ClientOK, EnterDownload
  <2> QED
    BY <1>3, <2>2 DEF ClientOK, EnterDownload, wire_vars, conn_vars
<1>4. CASE EraseStopped(w)
  <2>1. call[w].file \in Files
    BY <1>0, <1>4 DEF EraseStopped, At
  <2>2. download_files' \in SUBSET Files /\ got' \in [Files -> SUBSET Chunks]
    BY <1>4, <2>1 DEF ClientOK, EraseStopped
  <2>3. uploads_progress' \in [Files -> Nat \cup {Absent}]
    BY <1>4, <2>1 DEF ClientOK, EraseStopped
  <2> QED
    BY <1>4, <2>2, <2>3 DEF ClientOK, EraseStopped, wire_vars, conn_vars
<1>5. ASSUME NEW c \in Conns, Connect(w, c)
      PROVE  ClientOK'
  BY <1>5 DEF ClientOK, Connect, wire_vars, transfer_vars
<1>6. CASE DownloadAnswered(w)
  <2>1. to_client' \in [Conns -> Seq(Packets \cup {Refusal})]
    BY <1>6, ServerWritesOK DEF DownloadAnswered, ClientOK
  <2> QED
    BY <1>6, <2>1 DEF ClientOK, DownloadAnswered, conn_vars, transfer_vars
<1>7. CASE Connected(w) \/ ThreadsRun(w)
  BY <1>7 DEF ClientOK, Connected, ThreadsRun, wire_vars, transfer_vars
<1>8. CASE ConnectFreed(w) \/ ConnectFails(w)
  BY <1>8 DEF ClientOK, ConnectFreed, ConnectFails, wire_vars, conn_vars, transfer_vars
<1>9. CASE UNCHANGED <<wire_vars, conn_vars, transfer_vars, broken>>
  BY <1>9 DEF ClientOK, wire_vars, conn_vars, transfer_vars
<1> QED
  BY <1>1, <1>2, <1>3, <1>4, <1>5, <1>6, <1>7, <1>8, <1>9
     DEF WorkerStep, UploadInitiated, UploadRefused, EmptyFile, GetFileInfo,
         DownloadFound, DownloadRefused, StopDone, StopRefused, CheckSocket

LEMMA ClosesSocketOK ==
  ASSUME ClientOK, ClosesSocket
  PROVE  to_client' \in [Conns -> Seq(Packets \cup {Refusal})] /\ closed' \in SUBSET Conns
<1>1. <<>> \in Seq(Packets \cup {Refusal})
  OBVIOUS
<1>2. to_client' \in [Conns -> Seq(Packets \cup {Refusal})]
  BY <1>1 DEF ClientOK, ClosesSocket
<1> QED
  BY <1>2 DEF ClientOK, ClosesSocket

LEMMA CleanConnectionOK ==
  ASSUME ClientOK, CleanConnection
  PROVE  /\ to_client' \in [Conns -> Seq(Packets \cup {Refusal})]
         /\ closed' \in SUBSET Conns
         /\ stop_threads' = TRUE /\ io' = "stopped" /\ cleaner' = "join"
         /\ broken' \in {broken, "two_cleaners"}
BY ClosesSocketOK DEF CleanConnection

LEMMA IOStepClientOK ==
  ASSUME ClientOK, IOStep
  PROVE  ClientOK'
<1>1. ASSUME NEW f \in Files, UploadChunkSent(f) PROVE ClientOK'
  <2>1. /\ uploads_progress' \in [Files -> Nat \cup {Absent}]
        /\ writing' \in [Files -> Chunks \cup {Absent}]
    <3>1. uploads_progress[f] # Absent => uploads_progress[f] + 1 \in Nat
      BY DEF ClientOK
    <3> QED
      BY <1>1, <3>1 DEF ClientOK, UploadChunkSent
  <2>2. io' \in {io, "ended"}
    BY <1>1 DEF UploadChunkSent, Drained
  <2> QED
    BY <1>1, <2>1, <2>2 DEF ClientOK, UploadChunkSent
<1>2. CASE RecvChunk
  <2>1. /\ socket \in Conns /\ to_client[socket] # <<>>
        /\ to_client' = [to_client EXCEPT ![socket] = Tail(@)]
        /\ Next_packet # End /\ Next_packet = Head(to_client[socket])
    BY <1>2 DEF RecvChunk, HasPacket, ClientOK, Next_packet
  <2>2. to_client[socket] \in Seq(Packets \cup {Refusal})
    BY <2>1 DEF ClientOK
  <2>3. /\ Tail(to_client[socket]) \in Seq(Packets \cup {Refusal})
        /\ Next_packet \in Packets \cup {Refusal}
    BY <2>1, <2>2
  <2>4. to_client' \in [Conns -> Seq(Packets \cup {Refusal})]
    BY <2>1, <2>3 DEF ClientOK
  <2>5. Next_packet.file \in download_files =>
          Next_packet.file \in Files /\ Next_packet.index \in Chunks
    BY <2>1, <2>3, FileTransferAssumption DEF Packets, End, Refusal, ClientOK
  <2>6. /\ download_files' \in SUBSET Files
        /\ got' \in [Files -> SUBSET Chunks]
        /\ downloaded' \in SUBSET Files
    BY <1>2, <2>5 DEF RecvChunk, ClientOK
  <2> QED
    BY <1>2, <2>4, <2>6 DEF ClientOK, RecvChunk, conn_vars
<1>3. CASE RecvEnd \/ \E f \in Files : UploadWriteFails(f)
  <2>1. CleanConnection /\ UNCHANGED <<socket, logout, transfer_vars>>
    BY <1>3 DEF RecvEnd, UploadWriteFails
  <2> QED
    BY <2>1, CleanConnectionOK DEF ClientOK, transfer_vars
<1>4. ASSUME NEW f \in Files, UploadFailIgnored(f) PROVE ClientOK'
  <2>1. writing' \in [Files -> Chunks \cup {Absent}]
    BY <1>4 DEF ClientOK, UploadFailIgnored
  <2>2. io' \in {io, "ended"}
    BY <1>4 DEF UploadFailIgnored, Drained
  <2> QED
    BY <1>4, <2>1, <2>2 DEF ClientOK, UploadFailIgnored, wire_vars
<1>5. CASE RecvEndIgnored
  <2>1. /\ socket \in Conns /\ to_client[socket] # <<>>
        /\ to_client' = [to_client EXCEPT ![socket] = Tail(@)]
    BY <1>5 DEF RecvEndIgnored, HasPacket, ClientOK
  <2>2. Tail(to_client[socket]) \in Seq(Packets \cup {Refusal})
    BY <2>1 DEF ClientOK
  <2>3. to_client' \in [Conns -> Seq(Packets \cup {Refusal})]
    BY <2>1, <2>2 DEF ClientOK
  <2> QED
    BY <1>5, <2>3 DEF ClientOK, RecvEndIgnored, transfer_vars
<1> QED
  BY <1>1, <1>2, <1>3, <1>4, <1>5 DEF IOStep

LEMMA StepClientOK == ClientOK /\ ServerOK' /\ WireOK /\ [Next]_vars => ClientOK'
<1> SUFFICES ASSUME ClientOK, ServerOK', WireOK, [Next]_vars PROVE ClientOK'
  OBVIOUS
<1>1. ASSUME NEW w \in Workers, UserStep(w) PROVE ClientOK'
  BY <1>1 DEF UserStep, StartUpload, StartDownload, StartStop, ClientOK, wire_vars,
              conn_vars, transfer_vars
<1>2. ASSUME NEW w \in Workers, WorkerStep(w) PROVE ClientOK'
  BY <1>2, WorkerStepClientOK
<1>3. CASE LogOut \/ LoggedOutChecks
  BY <1>3 DEF LoggedOutChecks, LogOut, ClientOK, wire_vars, transfer_vars
<1>4. CASE LoggedOutCleans
  BY <1>4, CleanConnectionOK DEF LoggedOutCleans, ClientOK, transfer_vars
<1>5. CASE IOStep
  BY <1>5, IOStepClientOK
<1>6. CASE CleanerStep
  <2>1. CASE CleanerFreesSocket
    BY <2>1, ClosesSocketOK DEF CleanerFreesSocket, ClientOK, transfer_vars
  <2>2. CASE CleanerClears
    BY <2>2 DEF CleanerClears, ClientOK, wire_vars
  <2> QED
    BY <1>6, <2>1, <2>2 DEF CleanerStep
<1>7. ASSUME NEW c \in Conns, ServerStep(c) \/ ServerConnLost(c) PROVE ClientOK'
  <2>1. to_client' \in [Conns -> Seq(Packets \cup {Refusal})]
    <3>1. UNCHANGED to_client \/ ToClient(c, End) \/ ToClient(c, Refusal)
      BY <1>7 DEF ServerStep, ServerAuth, ServerReads, ServerShutdownDone, ServerConnLost,
                  wire_vars
    <3> QED
      BY <3>1, EndIsPacket, ToClientOK DEF ClientOK
  <2> QED
    BY <1>7, <2>1 DEF ServerStep, ServerAuth, ServerReads, ServerShutdownDone,
       ServerConnLost, ClientOK, wire_vars, client_vars, conn_vars, transfer_vars
<1>8. ASSUME NEW k \in Chains, ServerChain(k) PROVE ClientOK'
  BY <1>8, ServerWritesOK DEF ServerChain, ClientOK, client_vars, conn_vars, transfer_vars
<1>9. CASE UNCHANGED vars \/ \E f \in Files : ServerSaver(f)
  BY <1>9 DEF vars, ServerSaver, ClientOK, wire_vars, client_vars, conn_vars, transfer_vars
<1> QED
  BY <1>1, <1>2, <1>3, <1>4, <1>5, <1>6, <1>7, <1>8, <1>9 DEF Next

LEMMA AlwaysTyped == Spec => [](WireOK /\ ServerOK /\ ClientOK)
<1>1. Spec => []WireOK
  BY InitWireOK, StepWireOK, PTL DEF Spec
<1> QED
  BY <1>1, ServerAlwaysOK, InitClientOK, StepClientOK, PTL DEF Spec

\* The calls, the packets on the way, the progress of the transfers and the
\* server's state keep to their types, whatever worker, thread or packet is next.
THEOREM TypeCorrect == Spec => []TypeOK
<1>1. WireOK /\ ServerOK /\ ClientOK => TypeOK
  BY DEF WireOK, ServerOK, ClientOK, TypeOK
<1> QED
  BY <1>1, AlwaysTyped, PTL

-----------------------------------------------------------------------------
(***************************************************************************)
(* A downloaded file was on the server's disk into its last chunk.         *)
(* Wherever a chunk is, in a chain of the server, on the way, or in the    *)
(* client's memory_file, its first half at least was read from the disk,   *)
(* and what is on the disk only grows.                                     *)
(***************************************************************************)
ChainsOnDisk ==
  \A k \in Chains : Server!Live(k) =>
    /\ 2 * chain[k].at < content[chain[k].file]
    /\ \A i \in chain[k].chunks : 2 * i < content[chain[k].file]

PacketsOnDisk ==
  \A c \in Conns : \A j \in DOMAIN to_client[c] :
    to_client[c][j].file \in Files =>
      2 * to_client[c][j].index < content[to_client[c][j].file]

GotOnDisk == \A f \in Files : \A i \in got[f] : 2 * i < content[f]

DownloadInv ==
  ChainsOnDisk /\ PacketsOnDisk /\ GotOnDisk /\ DownloadedToLastChunk

ContentGrows == \A f \in Files : content[f] <= content'[f]

LEMMA SizesOf == ServerOK => content \in [Files -> Int]
<1> SUFFICES ASSUME ServerOK PROVE content \in [Files -> Int]
  OBVIOUS
<1>1. content \in [Files -> 0 .. Server!Full \cup {Server!Absent}]
  BY DEF ServerOK, Server!TypeOK
<1>2. Server!Absent \in Int /\ 0 .. Server!Full \subseteq Int
  BY DEF Server!Absent
<1> QED
  BY <1>1, <1>2

LEMMA NextSizesOf == ServerOK' => content' \in [Files -> Int]
<1> SUFFICES ASSUME ServerOK' PROVE content' \in [Files -> Int]
  OBVIOUS
<1>1. content' \in [Files -> 0 .. Server!Full \cup {Server!Absent}]
  BY DEF ServerOK, Server!TypeOK
<1>2. Server!Absent \in Int /\ 0 .. Server!Full \subseteq Int
  BY DEF Server!Absent
<1> QED
  BY <1>1, <1>2

LEMMA SizesAreIntegers ==
  ASSUME ServerOK
  PROVE  /\ \A f \in Files : content[f] \in Int
         /\ \A k \in Chains : chain[k].at \in Int /\ chain[k].chunks \in SUBSET Chunks
         /\ Chunks \in SUBSET Int
<1>1. Chunks = 0 .. NumChunks - 1 /\ NumChunks \in Nat
  BY FileTransferAssumption DEF Chunks, Server!Chunks
<1>2. /\ content \in [Files -> Int]
      /\ chain \in [Chains -> Server!ChainRecords]
  BY SizesOf DEF ServerOK, Server!TypeOK
<1>3. \A k \in Chains : chain[k].at \in Chunks /\ chain[k].chunks \in SUBSET Chunks
  BY <1>2 DEF Server!ChainRecords, Chunks
<1> QED
  BY <1>1, <1>2, <1>3

LEMMA DiskStep ==
  ASSUME ServerOK, ServerOK', [Server!Next]_server_vars
  PROVE  ContentGrows
<1>1. CASE UNCHANGED content
  BY <1>1, SizesAreIntegers DEF ContentGrows
<1>2. ASSUME NEW f \in Files, Server!SaverOpens(f) \/ Server!SaverWrites(f)
      PROVE  ContentGrows
  <2>1. /\ content[f] \in Int
        /\ \/ content[f] = -1 /\ content' = [content EXCEPT ![f] = 0]
           \/ content' = [content EXCEPT ![f] = content[f] + 1]
    BY <1>2, SizesAreIntegers DEF Server!SaverOpens, Server!SaverWrites, Server!Absent
  <2>2. content \in [Files -> Int]
    BY SizesOf
  <2>3. content[f] <= content'[f]
    BY <2>1, <2>2
  <2>4. \A g \in Files : g # f => content'[g] = content[g]
    BY <2>1, <2>2
  <2> QED
    BY <2>3, <2>4, SizesAreIntegers DEF ContentGrows
<1>3. CASE \E c \in Conns : Server!SessionStep(c)
  <2>1. UNCHANGED content
    BY <1>3 DEF Server!SessionStep, Server!Accept, Server!SessionAuth, Server!Answers,
                Server!Shutdown, Server!ShutdownDone, Server!ConnLost, Server!disk_vars
  <2> QED
    BY <1>1, <2>1
<1>4. CASE Server!HandlerStep
  <2>1. UNCHANGED content
    BY <1>4 DEF Server!HandlerStep, Server!DownloadCrashes, Server!DownloadUnreadable,
                Server!AlreadyDownloading, Server!AddDownloadFile, Server!disk_vars
  <2> QED
    BY <1>1, <2>1
<1>5. CASE \E c \in Conns, f \in Files, i \in Server!Chunks : Server!ChunkPacket(c, f, i)
  <2>1. UNCHANGED content
    BY <1>5 DEF Server!ChunkPacket, Server!ChunkSaved, Server!SaveFile,
                Server!SaveFileFails, Server!ChunkRefused, Server!Answers,
                Server!disk_vars, Server!vars
  <2> QED
    BY <1>1, <2>1
<1>6. CASE \E k \in Chains : Server!ChainStep(k)
  <2>1. UNCHANGED content
    BY <1>6 DEF Server!ChainStep, Server!HandleDownloadChunkSent, Server!DownloadStopped,
                Server!DownloadChunkSent, Server!DownloadEnds, Server!DownloadUsesFreed,
                Server!DownloadWriteFails, Server!disk_vars
  <2> QED
    BY <1>1, <2>1
<1>7. CASE \E f \in Files : \/ Server!InitUploadFile(f)
                            \/ Server!InitDownloadFile(f)
                            \/ Server!StopFileTransmission(f)
                            \/ Server!SaverFails(f)
  <2>1. UNCHANGED content
    BY <1>7 DEF Server!InitUploadFile, Server!InitDownloadFile,
                Server!StopFileTransmission, Server!SaverFails, Server!disk_vars
  <2> QED
    BY <1>1, <2>1
<1>8. CASE UNCHANGED server_vars \/ Server!CleanUserSession
  BY <1>1, <1>8 DEF server_vars, Server!CleanUserSession, Server!disk_vars
<1> QED
  BY <1>2, <1>3, <1>4, <1>5, <1>6, <1>7, <1>8 DEF Server!Next, Server!SaverStep

\* The steps of the server that touch a chain: it begins with what is on disk,
\* goes on to a chunk it still has, or ends.
LEMMA ChainsOnDiskStep ==
  ASSUME ServerOK, ServerOK', ChainsOnDisk, [Server!Next]_server_vars
  PROVE  ChainsOnDisk'
<1>0. ContentGrows
  BY DiskStep
<1>1. ASSUME NEW k \in Chains, Server!Live(k)'
      PROVE  /\ 2 * chain'[k].at < content'[chain'[k].file]
             /\ \A i \in chain'[k].chunks : 2 * i < content'[chain'[k].file]
  <2> DEFINE Was == /\ Server!Live(k)
                    /\ chain'[k].file = chain[k].file
                    /\ \/ chain'[k].at = chain[k].at
                       \/ chain'[k].at \in chain[k].chunks
                    /\ chain'[k].chunks \subseteq chain[k].chunks
             Begun == /\ chain'[k].at = 0
                      /\ content[chain'[k].file] > 0
                      /\ chain'[k].chunks = Server!ChunksOf(content[chain'[k].file])
  <2>1. Was \/ Begun
    <3>0. chain \in [Chains -> Server!ChainRecords]
      BY DEF ServerOK, Server!TypeOK
    <3>1. CASE UNCHANGED chain
      BY <1>1, <3>1 DEF Server!Live
    <3>2. ASSUME NEW j \in Chains, Server!AddDownloadFile(j)
          PROVE  Was \/ Begun
      <4> DEFINE new == [status |-> "writing", conn |-> users_file_sessions,
                         file |-> handler, chunks |-> Server!ChunksOf(content[handler]),
                         at |-> 0]
      <4>1. chain' = [chain EXCEPT ![j] = new] /\ content[handler] > 0
        BY <3>2 DEF Server!AddDownloadFile
      <4>2. CASE k = j
        <5>1. chain'[k] = new
          BY <3>0, <4>1, <4>2
        <5> QED
          BY <4>1, <5>1
      <4>3. CASE k # j
        <5>1. chain'[k] = chain[k]
          BY <3>0, <4>1, <4>3
        <5> QED
          BY <1>1, <5>1 DEF Server!Live
      <4> QED
        BY <4>2, <4>3
    <3>3. ASSUME NEW j \in Chains, Server!EndChain(j)
          PROVE  Was
      <4>1. k # j
        BY <1>1, <3>0, <3>3 DEF Server!Live, Server!EndChain, Server!NoChain
      <4>2. chain'[k] = chain[k]
        BY <3>0, <3>3, <4>1 DEF Server!EndChain
      <4> QED
        BY <1>1, <4>2 DEF Server!Live
    <3>4. ASSUME NEW j \in Chains, Server!DownloadChunkSent(j)
          PROVE  Was
      <4>1. CASE k = j
        <5> DEFINE n == Server!Progress(j)
                   rest == chain[j].chunks \ {n}
        <5>1. chain' = [chain EXCEPT ![j] =
                IF n + 1 \in rest THEN [@ EXCEPT !.chunks = rest, !.at = n + 1]
                                  ELSE [@ EXCEPT !.chunks = rest, !.status = "last"]]
          BY <3>4 DEF Server!DownloadChunkSent
        <5>2. chain[j].status = "writing"
          BY <3>4 DEF Server!DownloadChunkSent
        <5>3. chain[j] \in Server!ChainRecords
          BY <3>0
        <5> HIDE DEF n
        <5>4. chain'[k] = IF n + 1 \in rest
                            THEN [chain[j] EXCEPT !.chunks = rest, !.at = n + 1]
                            ELSE [chain[j] EXCEPT !.chunks = rest, !.status = "last"]
          BY <3>0, <4>1, <5>1
        <5>5. /\ chain'[k].file = chain[j].file /\ chain'[k].chunks = rest
              /\ chain'[k].at = chain[j].at \/ chain'[k].at \in rest
          BY <5>3, <5>4 DEF Server!ChainRecords
        <5> QED
          BY <4>1, <5>2, <5>5 DEF Server!Live
      <4>2. CASE k # j
        <5>1. chain'[k] = chain[k]
          BY <3>0, <3>4, <4>2 DEF Server!DownloadChunkSent
        <5> QED
          BY <1>1, <5>1 DEF Server!Live
      <4> QED
        BY <4>1, <4>2
    <3>5. ASSUME NEW j \in Chains, Server!ChainStep(j)
          PROVE  Was
      BY <3>3, <3>4, <3>5
         DEF Server!ChainStep, Server!HandleDownloadChunkSent, Server!DownloadStopped,
             Server!DownloadEnds, Server!DownloadUsesFreed, Server!DownloadWriteFails
    <3>6. ASSUME NEW f \in Files,
                 \/ Server!InitUploadFile(f) \/ Server!InitDownloadFile(f)
                 \/ Server!StopFileTransmission(f) \/ Server!SaverStep(f)
          PROVE  UNCHANGED chain
      BY <3>6 DEF Server!InitUploadFile, Server!InitDownloadFile,
                  Server!StopFileTransmission, Server!SaverStep, Server!SaverOpens,
                  Server!SaverWrites, Server!SaverFails, Server!download_vars
    <3>7. ASSUME NEW c \in Conns, NEW f \in Files, NEW i \in Server!Chunks,
                 Server!ChunkPacket(c, f, i)
          PROVE  UNCHANGED chain
      BY <3>7 DEF Server!ChunkPacket, Server!ChunkSaved, Server!SaveFile,
                  Server!SaveFileFails, Server!ChunkRefused, Server!Answers, Server!vars,
                  Server!download_vars
    <3>8. ASSUME NEW c \in Conns, Server!SessionStep(c)
          PROVE  UNCHANGED chain
      BY <3>8 DEF Server!SessionStep, Server!Accept, Server!SessionAuth, Server!Answers,
                  Server!Shutdown, Server!ShutdownDone, Server!ConnLost,
                  Server!download_vars
    <3>9. CASE Server!DownloadCrashes \/ Server!DownloadUnreadable \/ Server!AlreadyDownloading
      BY <3>1, <3>9 DEF Server!DownloadCrashes, Server!DownloadUnreadable,
                        Server!AlreadyDownloading, Server!download_vars
    <3>10. CASE UNCHANGED server_vars \/ Server!CleanUserSession
      BY <3>1, <3>10 DEF server_vars, Server!CleanUserSession, Server!download_vars
    <3> QED
      BY <3>1, <3>2, <3>5, <3>6, <3>7, <3>8, <3>9, <3>10
         DEF Server!Next, Server!HandlerStep
  <2>2. /\ chain'[k].file \in Files
        /\ chain'[k].at \in Int
        /\ chain'[k].chunks \subseteq Int
    BY <1>1, SizesAreIntegers DEF ServerOK, Server!TypeOK, Server!ChainRecords,
       Server!Live, Chunks
  <2>3. /\ content[chain'[k].file] \in Int /\ content'[chain'[k].file] \in Int
        /\ content[chain'[k].file] <= content'[chain'[k].file]
    <3>1. content' \in [Files -> Int]
      BY NextSizesOf
    <3> QED
      BY <1>0, <2>2, <3>1, SizesAreIntegers DEF ContentGrows
  <2>4. CASE Was
    <3>1. /\ 2 * chain[k].at < content[chain[k].file]
          /\ \A i \in chain[k].chunks : 2 * i < content[chain[k].file]
      BY <2>4 DEF ChainsOnDisk
    <3>2. /\ 2 * chain'[k].at < content[chain'[k].file]
          /\ \A i \in chain'[k].chunks : 2 * i < content[chain'[k].file]
      BY <2>4, <3>1
    <3> HIDE DEF Was
    <3> QED
      BY <2>2, <2>3, <3>2
  <2>5. CASE Begun
    BY <2>2, <2>3, <2>5 DEF Server!ChunksOf
  <2> QED
    BY <2>1, <2>4, <2>5
<1> QED
  BY <1>1 DEF ChainsOnDisk

\* A packet to the client was there before, is no chunk, or is on disk.
PacketsCome ==
  \A c \in Conns : \A j \in DOMAIN to_client'[c] :
    \/ \E i \in DOMAIN to_client[c] : to_client'[c][j] = to_client[c][i]
    \/ to_client'[c][j].file \notin Files
    \/ 2 * to_client'[c][j].index < content'[to_client'[c][j].file]

LEMMA PacketsKept ==
  ASSUME ServerOK, ServerOK', ClientOK, ContentGrows, PacketsOnDisk, PacketsCome
  PROVE  PacketsOnDisk'
<1>0. content' \in [Files -> Int]
  BY NextSizesOf
<1>1. ASSUME NEW f \in Files PROVE content[f] \in Int /\ content'[f] \in Int
  BY <1>0, SizesAreIntegers
<1>2. ASSUME NEW c \in Conns, NEW j \in DOMAIN to_client'[c],
             to_client'[c][j].file \in Files,
             NEW i \in DOMAIN to_client[c], to_client'[c][j] = to_client[c][i]
      PROVE  2 * to_client'[c][j].index < content'[to_client'[c][j].file]
  <2> DEFINE p == to_client[c][i]
  <2>1. p.file \in Files /\ 2 * p.index < content[p.file]
    BY <1>2 DEF PacketsOnDisk
  <2>2. p \in Packets \cup {Refusal}
    BY <1>2 DEF ClientOK
  <2>3. p.index \in Int
    BY <2>1, <2>2, SizesAreIntegers DEF Packets, Absent, Refusal
  <2>4. 2 * p.index < content'[p.file]
    <3> HIDE DEF p
    <3> QED
      BY <1>1, <2>1, <2>3 DEF ContentGrows
  <2> QED
    BY <1>2, <2>4
<1> QED
  BY <1>2 DEF PacketsOnDisk, PacketsCome

LEMMA ToClientComes ==
  ASSUME ClientOK, NEW c, NEW p \in Packets \cup {Refusal}, ToClient(c, p),
         p.file \in Files => 2 * p.index < content'[p.file]
  PROVE  PacketsCome
<1>1. ASSUME NEW d \in Conns, NEW j \in DOMAIN to_client'[d]
      PROVE  \/ \E i \in DOMAIN to_client[d] : to_client'[d][j] = to_client[d][i]
             \/ to_client'[d][j] = p
  <2>1. to_client[d] \in Seq(Packets \cup {Refusal})
    BY DEF ClientOK
  <2>2. to_client'[d] = to_client[d] \/ to_client'[d] = Append(to_client[d], p)
    BY DEF ToClient, ClientOK
  <2>3. CASE to_client'[d] = to_client[d]
    BY <1>1, <2>3
  <2>4. CASE to_client'[d] = Append(to_client[d], p)
    <3> DEFINE s == to_client[d]
    <3>1. s \in Seq(Packets \cup {Refusal}) /\ j \in 1 .. Len(s) + 1
      BY <1>1, <2>1, <2>4
    <3>2. j \in 1 .. Len(s) => Append(s, p)[j] = s[j]
      BY <3>1
    <3>3. j = Len(s) + 1 => Append(s, p)[j] = p
      BY <3>1
    <3>4. j \in DOMAIN s \/ j = Len(s) + 1
      BY <3>1
    <3>5. DOMAIN s = 1 .. Len(s)
      BY <3>1
    <3> QED
      BY <2>4, <3>2, <3>3, <3>4, <3>5
  <2> QED
    BY <2>2, <2>3, <2>4
<1> QED
  BY <1>1 DEF PacketsCome

LEMMA ServerWritesCome ==
  ASSUME ClientOK, ServerOK', ChainsOnDisk', NEW k \in Chains, ServerWrites(k)
  PROVE  PacketsCome
<1>1. CASE UNCHANGED to_client
  BY <1>1 DEF PacketsCome
<1>2. CASE chain'[k].status = "writing" /\ ToClient(chain'[k].conn, ChunkOf(chain'[k].file, chain'[k].at))
  <2>1. chain'[k].file \in Files /\ chain'[k].at \in Chunks
    BY <1>2 DEF ServerOK, Server!TypeOK, Server!ChainRecords, Server!Live, Chunks
  <2>2. 2 * chain'[k].at < content'[chain'[k].file]
    BY <1>2 DEF ChainsOnDisk, Server!Live
  <2> DEFINE p == ChunkOf(chain'[k].file, chain'[k].at)
  <2>3. p \in Packets /\ p.file = chain'[k].file /\ p.index = chain'[k].at
    BY <2>1 DEF ChunkOf, Packets
  <2> QED
    BY <1>2, <2>2, <2>3, ToClientComes
<1> QED
  BY <1>1, <1>2 DEF ServerWrites

LEMMA ClosesSocketCome ==
  ASSUME ClosesSocket PROVE PacketsCome
<1>1. ASSUME NEW c \in Conns PROVE to_client'[c] = <<>> \/ to_client'[c] = to_client[c]
  BY DEF ClosesSocket
<1>2. DOMAIN <<>> = {}
  OBVIOUS
<1> QED
  BY <1>1, <1>2 DEF PacketsCome

LEMMA RecvCome ==
  ASSUME ClientOK, RecvChunk \/ RecvEndIgnored PROVE PacketsCome
<1>1. /\ socket \in Conns /\ to_client[socket] # <<>>
      /\ to_client' = [to_client EXCEPT ![socket] = Tail(@)]
  BY DEF RecvChunk, RecvEndIgnored, HasPacket, ClientOK
<1>2. ASSUME NEW c \in Conns, NEW j \in DOMAIN to_client'[c]
      PROVE  \E i \in DOMAIN to_client[c] : to_client'[c][j] = to_client[c][i]
  <2>1. CASE c # socket
    BY <1>1, <1>2, <2>1 DEF ClientOK
  <2>2. CASE c = socket
    <3> DEFINE s == to_client[c]
    <3>1. s \in Seq(Packets \cup {Refusal}) /\ s # <<>>
      BY <1>1, <2>2 DEF ClientOK
    <3>2. to_client'[c] = Tail(s)
      BY <1>1, <2>2 DEF ClientOK
    <3> HIDE DEF s
    <3>3. j \in 1 .. Len(s) - 1
      BY <1>2, <3>1, <3>2
    <3>4. Tail(s)[j] = s[j + 1] /\ j + 1 \in DOMAIN s
      BY <3>1, <3>3
    <3> QED
      BY <3>2, <3>4 DEF s
  <2> QED
    BY <2>1, <2>2
<1> QED
  BY <1>2 DEF PacketsCome

LEMMA AllPacketsCome ==
  ASSUME ClientOK, ServerOK', ChainsOnDisk', [Next]_vars
  PROVE  PacketsCome
<1>0. UNCHANGED to_client => PacketsCome
  BY DEF PacketsCome
<1>1. ASSUME NEW w \in Workers, UserStep(w) PROVE PacketsCome
  BY <1>0, <1>1 DEF UserStep, StartUpload, StartDownload, StartStop, wire_vars
<1>2. ASSUME NEW w \in Workers, WorkerStep(w) PROVE PacketsCome
  <2>1. CASE DownloadAnswered(w)
    BY <1>0, <2>1, ServerWritesCome DEF DownloadAnswered
  <2>2. CASE ~ DownloadAnswered(w)
    <3>1. UNCHANGED to_client
      BY <1>2, <2>2 DEF WorkerStep, UploadInitiated, UploadRefused, EmptyFile,
                        EnterUpload, Upload, GetFileInfo, EnterDownload, DownloadFound,
                        DownloadRefused, StopDone, StopRefused, EraseStopped, CheckSocket,
                        Connect, Connected, ThreadsRun, ConnectFails, ConnectFreed,
                        wire_vars
    <3> QED
      BY <1>0, <3>1
  <2> QED
    BY <2>1, <2>2
<1>3. CASE LogOut \/ LoggedOutChecks \/ LoggedOutCleans
  BY <1>0, <1>3, ClosesSocketCome DEF LoggedOutChecks, LogOut, LoggedOutCleans,
                                      CleanConnection, wire_vars
<1>4. CASE IOStep
  <2>1. CASE RecvChunk \/ RecvEndIgnored
    BY <2>1, RecvCome
  <2>2. ASSUME NEW f \in Files, UploadChunkSent(f) \/ UploadFailIgnored(f) PROVE PacketsCome
    BY <1>0, <2>2 DEF UploadChunkSent, UploadFailIgnored, wire_vars
  <2>3. CASE RecvEnd \/ \E f \in Files : UploadWriteFails(f)
    BY <2>3, ClosesSocketCome DEF RecvEnd, UploadWriteFails, CleanConnection
  <2> QED
    BY <1>4, <2>1, <2>2, <2>3 DEF IOStep
<1>5. CASE CleanerStep
  BY <1>0, <1>5, ClosesSocketCome DEF CleanerStep, CleanerFreesSocket, CleanerClears, wire_vars
<1>6. ASSUME NEW c \in Conns, ServerStep(c) \/ ServerConnLost(c) PROVE PacketsCome
  <2>1. UNCHANGED to_client \/ ToClient(c, End) \/ ToClient(c, Refusal)
    BY <1>6 DEF ServerStep, ServerAuth, ServerReads, ServerShutdownDone, ServerConnLost,
                wire_vars
  <2>2. End.file \notin Files /\ Refusal.file \notin Files
    BY FileTransferAssumption DEF End, Refusal
  <2> QED
    BY <1>0, <2>1, <2>2, EndIsPacket, ToClientComes
<1>7. ASSUME NEW k \in Chains, ServerChain(k) PROVE PacketsCome
  BY <1>7, ServerWritesCome DEF ServerChain
<1>8. CASE UNCHANGED vars \/ \E f \in Files : ServerSaver(f)
  BY <1>0, <1>8 DEF vars, wire_vars, ServerSaver
<1> QED
  BY <1>1, <1>2, <1>3, <1>4, <1>5, <1>6, <1>7, <1>8 DEF Next

\* A chunk the client keeps was kept before, or is of the packet it reads.
GotComes ==
  \A f \in Files : \A i \in got'[f] : i \in got[f] \/ 2 * i < content'[f]

LEMMA ChunkReadOnDisk ==
  ASSUME ServerOK, ServerOK', ClientOK, ContentGrows, PacketsOnDisk, RecvChunk
  PROVE  Next_packet.file \in download_files =>
           /\ Next_packet.file \in Files /\ Next_packet.index \in Chunks
           /\ 2 * Next_packet.index < content[Next_packet.file]
<1>1. /\ socket \in Conns /\ to_client[socket] # <<>>
      /\ Next_packet = to_client[socket][1] /\ Next_packet # End
  BY DEF RecvChunk, HasPacket, ClientOK, Next_packet
<1>2. to_client[socket] \in Seq(Packets \cup {Refusal})
  BY <1>1 DEF ClientOK
<1>3. 1 \in DOMAIN to_client[socket] /\ Next_packet \in Packets \cup {Refusal}
  BY <1>1, <1>2
<1>4. Next_packet.file \in download_files =>
        Next_packet.file \in Files /\ Next_packet.index \in Chunks
  BY <1>1, <1>3, FileTransferAssumption DEF Packets, End, Refusal, ClientOK
<1> QED
  BY <1>1, <1>3, <1>4 DEF PacketsOnDisk

LEMMA RecvChunkDownloads ==
  ASSUME ServerOK, ServerOK', ClientOK, ContentGrows, DownloadInv, RecvChunk
  PROVE  /\ GotComes
         /\ \A f \in downloaded' : f \in downloaded \/ content[f] > 2 * (NumChunks - 1)
<1> DEFINE f == Next_packet.file
           i == Next_packet.index
           has == got[f] \cup {i}
<1>1. f \in download_files => f \in Files /\ i \in Chunks /\ 2 * i < content[f]
  BY ChunkReadOnDisk DEF DownloadInv
<1>2. \/ UNCHANGED <<got, downloaded>>
      \/ /\ f \in download_files
         /\ has = Chunks
         /\ downloaded' = downloaded \cup {f}
         /\ got' = [got EXCEPT ![f] = {}]
      \/ /\ f \in download_files
         /\ downloaded' = downloaded
         /\ got' = [got EXCEPT ![f] = has]
  BY DEF RecvChunk
<1>3. /\ got \in [Files -> SUBSET Chunks]
      /\ f \in download_files => \A j \in has : 2 * j < content[f]
  BY <1>1 DEF ClientOK, DownloadInv, GotOnDisk
<1>4. UNCHANGED content
  BY DEF RecvChunk, server_vars
<1> HIDE DEF f, i
<1>5. GotComes
  BY <1>1, <1>2, <1>3, <1>4 DEF GotComes
<1>6. f \in download_files /\ has = Chunks => content[f] > 2 * (NumChunks - 1)
  <2> SUFFICES ASSUME f \in download_files, has = Chunks
               PROVE  content[f] > 2 * (NumChunks - 1)
    OBVIOUS
  <2>1. NumChunks \in Nat \ {0} /\ NumChunks - 1 \in Chunks
    BY FileTransferAssumption DEF Chunks, Server!Chunks
  <2>2. 2 * (NumChunks - 1) < content[f]
    BY <1>3, <2>1
  <2> QED
    BY <1>1, <2>1, <2>2, SizesAreIntegers
<1> QED
  BY <1>2, <1>5, <1>6

LEMMA StepDownloads ==
  ASSUME ServerOK, ServerOK', ClientOK, ContentGrows, DownloadInv, [Next]_vars
  PROVE  /\ GotComes
         /\ \A f \in downloaded' : f \in downloaded \/ content[f] > 2 * (NumChunks - 1)
<1>1. CASE RecvChunk
  BY <1>1, RecvChunkDownloads
<1>2. ASSUME UNCHANGED downloaded, \A f \in Files : got'[f] \subseteq got[f]
      PROVE  /\ GotComes
             /\ \A f \in downloaded' : f \in downloaded \/ content[f] > 2 * (NumChunks - 1)
  BY <1>2 DEF GotComes
<1>3. CASE UNCHANGED <<got, downloaded>>
  BY <1>2, <1>3
<1>4. ASSUME NEW w \in Workers, EnterDownload(w) \/ EraseStopped(w)
      PROVE  UNCHANGED downloaded /\ \A f \in Files : got'[f] \subseteq got[f]
  <2>1. UNCHANGED downloaded /\ got' = [got EXCEPT ![call[w].file] = {}]
    BY <1>4 DEF EnterDownload, EraseStopped
  <2> QED
    BY <2>1 DEF ClientOK
<1>5. ASSUME NEW w \in Workers, WorkerStep(w), ~ EnterDownload(w), ~ EraseStopped(w)
      PROVE  UNCHANGED <<got, downloaded>>
  BY <1>5 DEF WorkerStep, UploadInitiated, UploadRefused, EmptyFile, EnterUpload, Upload,
              GetFileInfo, DownloadAnswered, DownloadFound, DownloadRefused, StopDone,
              StopRefused, CheckSocket, Connect, Connected, ThreadsRun, ConnectFails,
              ConnectFreed, transfer_vars
<1>6. ASSUME NEW w \in Workers, UserStep(w) PROVE UNCHANGED <<got, downloaded>>
  BY <1>6 DEF UserStep, StartUpload, StartDownload, StartStop, transfer_vars
<1>7. CASE LogOut \/ LoggedOutChecks \/ LoggedOutCleans \/ CleanerFreesSocket
  BY <1>3, <1>7 DEF LoggedOutChecks, LogOut, LoggedOutCleans, CleanerFreesSocket,
                    transfer_vars
<1>8. CASE CleanerClears
  BY <1>2, <1>8 DEF CleanerClears
<1>9. CASE \/ RecvEnd \/ RecvEndIgnored
           \/ \E f \in Files : \/ UploadChunkSent(f) \/ UploadWriteFails(f)
                               \/ UploadFailIgnored(f)
  BY <1>3, <1>9 DEF RecvEnd, RecvEndIgnored, UploadChunkSent, UploadWriteFails,
                    UploadFailIgnored, transfer_vars
<1>10. CASE \/ \E c \in Conns : ServerStep(c) \/ ServerConnLost(c)
            \/ \E k \in Chains : ServerChain(k)
            \/ \E f \in Files : ServerSaver(f)
            \/ UNCHANGED vars
  BY <1>3, <1>10 DEF ServerStep, ServerAuth, ServerReads, ServerShutdownDone,
     ServerConnLost, ServerChain, ServerSaver, vars, client_vars, transfer_vars
<1> QED
  BY <1>1, <1>2, <1>3, <1>4, <1>5, <1>6, <1>7, <1>8, <1>9, <1>10
     DEF Next, IOStep, CleanerStep

LEMMA InitDownloadInv == Init => DownloadInv
<1> SUFFICES ASSUME Init PROVE DownloadInv
  OBVIOUS
<1>1. ChainsOnDisk
  BY DEF Init, Server!Init, ChainsOnDisk, Server!Live, Server!NoChain
<1>2. PacketsOnDisk
  <2>1. DOMAIN <<>> = {}
    OBVIOUS
  <2> QED
    BY <2>1 DEF Init, PacketsOnDisk
<1> QED
  BY <1>1, <1>2 DEF Init, DownloadInv, GotOnDisk, DownloadedToLastChunk

LEMMA StepDownloadInv ==
  ASSUME WireOK, ServerOK, ServerOK', ClientOK, DownloadInv, [Next]_vars
  PROVE  DownloadInv'
<1>1. [Server!Next]_server_vars
  BY StepImplementsFileServer
<1>2. ContentGrows
  BY <1>1, DiskStep
<1>3. ChainsOnDisk'
  BY <1>1, ChainsOnDiskStep DEF DownloadInv
<1>4. PacketsOnDisk'
  BY <1>2, <1>3, AllPacketsCome, PacketsKept DEF DownloadInv
<1>5. /\ NumChunks \in Nat /\ Chunks = 0 .. NumChunks - 1
      /\ got \in [Files -> SUBSET Chunks]
      /\ downloaded \subseteq Files
  BY FileTransferAssumption DEF ClientOK, Chunks, Server!Chunks
<1>6. ASSUME NEW f \in Files
      PROVE  /\ content[f] \in Int /\ content'[f] \in Int
             /\ content[f] <= content'[f]
  BY <1>2, NextSizesOf, SizesAreIntegers DEF ContentGrows
<1>7. GotOnDisk'
  <2> SUFFICES ASSUME NEW f \in Files, NEW i \in got'[f] PROVE 2 * i < content'[f]
    BY DEF GotOnDisk
  <2>1. CASE i \in got[f]
    <3>1. i \in Chunks /\ 2 * i < content[f]
      BY <1>5, <2>1 DEF DownloadInv, GotOnDisk
    <3> QED
      BY <1>5, <1>6, <3>1
  <2>2. CASE 2 * i < content'[f]
    BY <2>2
  <2> QED
    BY <1>2, <2>1, <2>2, StepDownloads DEF GotComes
<1>8. DownloadedToLastChunk'
  <2> SUFFICES ASSUME NEW f \in downloaded' PROVE content'[f] > 2 * (NumChunks - 1)
    BY DEF DownloadedToLastChunk
  <2>1. content[f] > 2 * (NumChunks - 1)
    BY <1>2, StepDownloads DEF DownloadInv, DownloadedToLastChunk
  <2>2. f \in Files
    <3>1. downloaded' \subseteq Files
      BY StepClientOK DEF ClientOK
    <3> QED
      BY <3>1
  <2> QED
    BY <1>5, <1>6, <2>1, <2>2
<1> QED
  BY <1>3, <1>4, <1>7, <1>8 DEF DownloadInv

\* A file the client hands to save_file was on the server's disk into its last
\* chunk, however many downloads and uploads overlap: the client counts the chunks
\* of the row's size, and no chunk reaches it of which nothing was read from the
\* disk.  A last chunk that was written in part counts (get_file_chunks rounds up).
THEOREM DownloadedAlwaysToLastChunk == Spec => []DownloadedToLastChunk
<1>1. WireOK /\ ServerOK /\ ServerOK' /\ ClientOK /\ DownloadInv /\ [Next]_vars => DownloadInv'
  BY StepDownloadInv
<1>2. DownloadInv => DownloadedToLastChunk
  BY DEF DownloadInv
<1> QED
  BY <1>1, <1>2, InitDownloadInv, AlwaysTyped, PTL DEF Spec

-----------------------------------------------------------------------------
(***************************************************************************)
(* The chunks of an upload reach the server in order.  What the server has *)
(* of an upload, what is on the way in its session, and what the client    *)
(* counts as sent are three parts of one run of numbers: received is       *)
(* 0 .. n - 1, the wire holds n .. m - 1 in order, and m is the next to be *)
(* written, for as long as the client counts.                              *)
(***************************************************************************)
Holds(s, f) == {j \in DOMAIN s : s[j].file = f}
Indices(s, f) == {s[j].index : j \in Holds(s, f)}
InOrder(s, f) == \A i, j \in Holds(s, f) : i < j => s[i].index < s[j].index

\* A packet of another file, or none, at the end of the wire.
LEMMA AppendOther ==
  ASSUME NEW s \in Seq(Packets), NEW p \in Packets, NEW f, p.file # f
  PROVE  /\ Indices(Append(s, p), f) = Indices(s, f)
         /\ InOrder(s, f) => InOrder(Append(s, p), f)
<1> DEFINE t == Append(s, p)
<1>1. /\ DOMAIN s = 1 .. Len(s) /\ DOMAIN t = 1 .. Len(s) + 1
      /\ \A j \in 1 .. Len(s) : t[j] = s[j]
      /\ t[Len(s) + 1] = p /\ Len(s) \in Nat
  OBVIOUS
<1> HIDE DEF t
<1>2. Holds(t, f) = Holds(s, f) /\ \A j \in Holds(s, f) : t[j] = s[j]
  BY <1>1 DEF Holds
<1>3. Indices(t, f) = Indices(s, f) /\ (InOrder(s, f) => InOrder(t, f))
  BY <1>2 DEF Indices, InOrder
<1> QED
  BY <1>3 DEF t

\* A chunk of the file at the end of the wire.
LEMMA AppendOwn ==
  ASSUME NEW s \in Seq(Packets), NEW p \in Packets
  PROVE  /\ Indices(Append(s, p), p.file) = Indices(s, p.file) \cup {p.index}
         /\ (InOrder(s, p.file) /\ \A i \in Indices(s, p.file) : i < p.index)
              => InOrder(Append(s, p), p.file)
<1> DEFINE t == Append(s, p)
           f == p.file
<1>1. /\ DOMAIN s = 1 .. Len(s) /\ DOMAIN t = 1 .. Len(s) + 1
      /\ \A j \in 1 .. Len(s) : t[j] = s[j]
      /\ t[Len(s) + 1] = p /\ Len(s) \in Nat
  OBVIOUS
<1> HIDE DEF t
<1>2. /\ Holds(t, f) = Holds(s, f) \cup {Len(s) + 1}
      /\ Holds(s, f) \subseteq 1 .. Len(s)
      /\ \A j \in Holds(s, f) : t[j] = s[j]
  BY <1>1 DEF Holds
<1>3. Indices(t, f) = Indices(s, f) \cup {p.index}
  BY <1>1, <1>2 DEF Indices
<1>4. ASSUME InOrder(s, f), \A i \in Indices(s, f) : i < p.index PROVE InOrder(t, f)
  <2> SUFFICES ASSUME NEW i \in Holds(t, f), NEW j \in Holds(t, f), i < j
               PROVE  t[i].index < t[j].index
    BY DEF InOrder
  <2>1. i \in Holds(s, f)
    BY <1>1, <1>2
  <2>2. CASE j \in Holds(s, f)
    BY <1>2, <1>4, <2>1, <2>2 DEF InOrder
  <2>3. CASE j = Len(s) + 1
    BY <1>1, <1>2, <1>4, <2>1, <2>3 DEF Indices
  <2> QED
    BY <1>2, <2>2, <2>3
<1> QED
  BY <1>3, <1>4 DEF t

\* The positions of a wire without its first packet.
LEMMA TailPositions ==
  ASSUME NEW s \in Seq(Packets), s # <<>>
  PROVE  /\ Len(s) \in Nat /\ DOMAIN s = 1 .. Len(s) /\ 1 \in DOMAIN s
         /\ DOMAIN Tail(s) = 1 .. Len(s) - 1
         /\ \A j \in 1 .. Len(s) - 1 : Tail(s)[j] = s[j + 1]
         /\ Head(s) = s[1] /\ Head(s) \in Packets
OBVIOUS

LEMMA TailOther ==
  ASSUME NEW s \in Seq(Packets), s # <<>>, NEW f, Head(s).file # f
  PROVE  /\ Indices(Tail(s), f) = Indices(s, f)
         /\ InOrder(s, f) => InOrder(Tail(s), f)
<1> DEFINE t == Tail(s)
<1>1. /\ Len(s) \in Nat /\ DOMAIN s = 1 .. Len(s) /\ DOMAIN t = 1 .. Len(s) - 1
      /\ \A j \in 1 .. Len(s) - 1 : t[j] = s[j + 1]
      /\ s[1].file # f
  BY TailPositions
<1> HIDE DEF t
<1>2. ASSUME NEW j \in Holds(t, f)
      PROVE  j \in Int /\ j + 1 \in Holds(s, f) /\ t[j] = s[j + 1]
  BY <1>1, <1>2 DEF Holds
<1>3. ASSUME NEW j \in Holds(s, f)
      PROVE  j \in Int /\ j - 1 \in Holds(t, f) /\ t[j - 1] = s[j]
  <2>1. j \in 1 .. Len(s) /\ j # 1 /\ s[j].file = f
    BY <1>1, <1>3 DEF Holds
  <2>2. j - 1 \in 1 .. Len(s) - 1 /\ (j - 1) + 1 = j
    BY <1>1, <2>1
  <2>3. t[j - 1] = s[j]
    BY <1>1, <2>2
  <2> QED
    BY <1>1, <2>1, <2>2, <2>3 DEF Holds
<1>4. Indices(t, f) = Indices(s, f)
  <2>1. ASSUME NEW j \in Holds(t, f) PROVE t[j].index \in Indices(s, f)
    BY <1>2 DEF Indices
  <2>2. ASSUME NEW j \in Holds(s, f) PROVE s[j].index \in Indices(t, f)
    <3>1. t[j - 1].index = s[j].index /\ j - 1 \in Holds(t, f)
      BY <1>3
    <3> QED
      BY <3>1 DEF Indices
  <2> QED
    BY <2>1, <2>2 DEF Indices
<1>5. ASSUME InOrder(s, f) PROVE InOrder(t, f)
  <2> SUFFICES ASSUME NEW i \in Holds(t, f), NEW j \in Holds(t, f), i < j
               PROVE  t[i].index < t[j].index
    BY DEF InOrder
  <2>1. i + 1 < j + 1
    BY <1>2
  <2>2. s[i + 1].index < s[j + 1].index
    BY <1>2, <1>5, <2>1 DEF InOrder
  <2> QED
    BY <1>2, <2>2
<1> QED
  BY <1>4, <1>5 DEF t

\* The first packet is of the file: it has the least of the file's indices.
LEMMA TailOwn ==
  ASSUME NEW s \in Seq(Packets), s # <<>>, NEW f, Head(s).file = f, InOrder(s, f)
  PROVE  /\ Indices(s, f) = Indices(Tail(s), f) \cup {Head(s).index}
         /\ \A i \in Indices(Tail(s), f) : Head(s).index < i
         /\ InOrder(Tail(s), f)
<1> DEFINE t == Tail(s)
<1>1. /\ Len(s) \in Nat /\ DOMAIN s = 1 .. Len(s) /\ DOMAIN t = 1 .. Len(s) - 1
      /\ \A j \in 1 .. Len(s) - 1 : t[j] = s[j + 1]
      /\ s[1] = Head(s) /\ 1 \in Holds(s, f)
  BY TailPositions DEF Holds
<1> HIDE DEF t
<1>2. ASSUME NEW j \in Holds(t, f)
      PROVE  j \in Nat \ {0} /\ j + 1 \in Holds(s, f) /\ t[j] = s[j + 1]
  BY <1>1, <1>2 DEF Holds
<1>3. ASSUME NEW j \in Holds(s, f), j # 1
      PROVE  j - 1 \in Holds(t, f) /\ t[j - 1] = s[j]
  <2>1. j \in 1 .. Len(s) /\ s[j].file = f
    BY <1>1, <1>3 DEF Holds
  <2>2. j - 1 \in 1 .. Len(s) - 1 /\ (j - 1) + 1 = j
    BY <1>1, <1>3, <2>1
  <2>3. t[j - 1] = s[j]
    BY <1>1, <2>2
  <2> QED
    BY <1>1, <2>1, <2>2, <2>3 DEF Holds
<1>4. ASSUME NEW i \in Indices(t, f) PROVE i \in Indices(s, f) /\ Head(s).index < i
  <2>1. PICK j \in Holds(t, f) : i = t[j].index
    BY <1>4 DEF Indices
  <2>2. j + 1 \in Holds(s, f) /\ i = s[j + 1].index /\ 1 < j + 1
    BY <1>2, <2>1
  <2>3. s[1].index < s[j + 1].index
    BY <1>1, <2>2 DEF InOrder
  <2> QED
    BY <1>1, <2>2, <2>3 DEF Indices
<1>5. ASSUME NEW i \in Indices(s, f) PROVE i \in Indices(t, f) \/ i = Head(s).index
  <2>1. PICK j \in Holds(s, f) : i = s[j].index
    BY <1>5 DEF Indices
  <2>2. CASE j = 1
    BY <1>1, <2>1, <2>2
  <2>3. CASE j # 1
    <3>1. j - 1 \in Holds(t, f) /\ t[j - 1].index = i
      BY <1>3, <2>1, <2>3
    <3> QED
      BY <3>1 DEF Indices
  <2> QED
    BY <2>2, <2>3
<1>6. Head(s).index \in Indices(s, f)
  BY <1>1 DEF Indices
<1>7. InOrder(t, f)
  <2> SUFFICES ASSUME NEW i \in Holds(t, f), NEW j \in Holds(t, f), i < j
               PROVE  t[i].index < t[j].index
    BY DEF InOrder
  <2>1. i + 1 < j + 1
    BY <1>2
  <2>2. s[i + 1].index < s[j + 1].index
    BY <1>2, <2>1 DEF InOrder
  <2> QED
    BY <1>2, <2>2
<1>8. Indices(s, f) = Indices(t, f) \cup {Head(s).index}
  BY <1>4, <1>5, <1>6
<1> QED
  BY <1>4, <1>7, <1>8 DEF t

LEMMA NothingHeld ==
  ASSUME NEW f
  PROVE  Indices(<<>>, f) = {} /\ InOrder(<<>>, f)
<1>1. DOMAIN <<>> = {}
  OBVIOUS
<1>2. Holds(<<>>, f) = {}
  BY <1>1 DEF Holds
<1> QED
  BY <1>2 DEF Indices, InOrder

LEMMA IndicesAreChunks ==
  ASSUME NEW s \in Seq(Packets), NEW f \in Files
  PROVE  Indices(s, f) \subseteq Chunks
<1>1. ASSUME NEW j \in Holds(s, f) PROVE s[j].index \in Chunks
  <2>1. s[j] \in Packets /\ s[j].file \in Files
    BY <1>1 DEF Holds
  <2> QED
    BY <2>1, FileTransferAssumption DEF Packets
<1> QED
  BY <1>1 DEF Indices

-----------------------------------------------------------------------------
Unsent(f) ==
  received[f] = {} /\ \A c \in Conns : Indices(to_server[c], f) = {}

Early == {"socket", "connect", "auth", "armed", "request"}
Late == {"enter", "send"}
Uploading(w, f) == call[w].op = "upload" /\ call[w].file = f

\* A call to upload is the only one about its file, and until it has written
\* chunk 0 there is nothing of the file anywhere.
UploadCalls ==
  \A w \in Workers : \A f \in Files : Uploading(w, f) =>
    /\ \A v \in Workers : Uploading(v, f) => v = w
    /\ f \in Uploads
    /\ call[w].stage \in Early \cup Late
    /\ call[w].stage \in Early => f \notin offered
    /\ call[w].stage \in Late => f \in offered /\ Unsent(f) /\ writing[f] = Absent
    /\ call[w].stage = "send" => uploads_progress[f] \in {0, Absent}

\* In the session c the server has the first n chunks of f, and those up to m are
\* on the way; m is the next to be written, while the client writes.
Runs(c, f, n, m) ==
  /\ n <= m
  /\ received[f] = 0 .. n - 1
  /\ InOrder(to_server[c], f)
  /\ Indices(to_server[c], f) = n .. m - 1
  /\ (socket = c /\ Open(c) /\ writing[f] # Absent /\ uploads_progress[f] # Absent)
       => m = uploads_progress[f] + 1

\* The client has counted the chunk before every one that is on the server or on
\* the way.
Ahead(f) ==
  /\ \A c \in Conns : \A i \in Indices(to_server[c], f) : i <= uploads_progress[f]
  /\ \A n \in 0 .. NumChunks : received[f] = 0 .. n - 1 => n <= uploads_progress[f] + 1

\* A file no id was given to is nowhere, and one that is counted is counted ahead
\* of the server.
FileSent(f) ==
  /\ f \notin offered =>
       Unsent(f) /\ writing[f] = Absent /\ uploads_progress[f] = Absent
  /\ uploads_progress[f] # Absent => Ahead(f)
  /\ \A c \in Conns : f \in upload_files[c] =>
       \E n, m \in 0 .. NumChunks : Runs(c, f, n, m)
  /\ \E n \in 0 .. NumChunks : received[f] = 0 .. n - 1

\* A connection that was never made has no session, and nothing reads it.
OpenedFirst ==
  \A c \in Conns : stream[c] = "none" =>
    upload_files[c] = {} /\ users_file_sessions # c /\ c \notin reading

SentInv == OpenedFirst /\ \A f \in Uploads : FileSent(f)

LEMMA UploadNumbers ==
  ASSUME ServerOK, ClientOK
  PROVE  /\ NumChunks \in Nat \ {0} /\ Chunks = 0 .. NumChunks - 1
         /\ Uploads \subseteq Files
         /\ \A f \in Files : /\ uploads_progress[f] \in Nat \cup {-1}
                             /\ writing[f] \in Chunks \cup {-1}
                             /\ received[f] \in SUBSET Chunks
         /\ Absent = -1
BY FileTransferAssumption DEF ServerOK, ClientOK, Server!TypeOK, Chunks, Server!Chunks,
   Uploads, Server!Uploads, Absent

LEMMA SentInStep == SentInv => UploadInStep
BY DEF SentInv, FileSent, Ahead, UploadInStep

\* What a step does to the chunks of f that are on the way to the server: nothing,
\* or it drops them with their connection.
Stays(c, f) ==
  /\ Indices(to_server'[c], f) = Indices(to_server[c], f)
  /\ InOrder(to_server[c], f) => InOrder(to_server'[c], f)
Dropped(c, f) ==
  /\ Indices(to_server'[c], f) = {} /\ InOrder(to_server'[c], f)
  /\ ~ Open(c)'

\* And to what the client counts: nothing, or it forgets the upload, or its write.
Counts(f) ==
  /\ uploads_progress'[f] \in {uploads_progress[f], Absent}
  /\ writing'[f] \in {writing[f], Absent}

\* A session of f the client now writes to is one it wrote to before.
SameSession(c, f) ==
  f \in upload_files'[c] =>
    /\ f \in upload_files[c]
    /\ (socket' = c /\ Open(c)') => (socket = c /\ Open(c))

\* Nothing of f is sent or received.
Quiet(f) ==
  /\ offered \subseteq offered'
  /\ received'[f] = received[f]
  /\ Counts(f)
  /\ \A c \in Conns : (Stays(c, f) \/ Dropped(c, f)) /\ SameSession(c, f)

LEMMA QuietKeepsFile ==
  ASSUME NEW f \in Uploads, FileSent(f), Quiet(f)
  PROVE  FileSent(f)' /\ (Unsent(f) => Unsent(f)')
<1>1. Unsent(f) => Unsent(f)'
  BY DEF Quiet, Unsent, Stays, Dropped
<1>2. f \notin offered' =>
        Unsent(f)' /\ writing'[f] = Absent /\ uploads_progress'[f] = Absent
  BY <1>1 DEF FileSent, Quiet, Counts
<1>3. ASSUME uploads_progress'[f] # Absent
      PROVE  Ahead(f)'
  <2>1. uploads_progress'[f] = uploads_progress[f] /\ Ahead(f)
    BY <1>3 DEF Quiet, Counts, FileSent
  <2>2. \A c \in Conns : Indices(to_server'[c], f) \subseteq Indices(to_server[c], f)
    BY DEF Quiet, Stays, Dropped
  <2> QED
    BY <2>1, <2>2 DEF Quiet, Ahead
<1>4. ASSUME NEW c \in Conns, f \in upload_files'[c]
      PROVE  \E n, m \in 0 .. NumChunks : Runs(c, f, n, m)'
  <2>1. PICK n \in 0 .. NumChunks, m \in 0 .. NumChunks : Runs(c, f, n, m)
    BY <1>4 DEF Quiet, SameSession, FileSent
  <2>2. CASE Dropped(c, f)
    <3>1. n .. n - 1 = {} /\ n <= n
      OBVIOUS
    <3>2. Runs(c, f, n, n)'
      BY <2>1, <2>2, <3>1 DEF Quiet, Dropped, Runs
    <3> QED
      BY <3>2
  <2>3. CASE Stays(c, f)
    <3>1. ASSUME socket' = c, Open(c)', writing'[f] # Absent, uploads_progress'[f] # Absent
          PROVE  m = uploads_progress'[f] + 1
      <4>1. /\ uploads_progress'[f] = uploads_progress[f] /\ uploads_progress[f] # Absent
            /\ writing[f] # Absent
        BY <3>1 DEF Quiet, Counts
      <4>2. socket = c /\ Open(c)
        BY <1>4, <3>1 DEF Quiet, SameSession
      <4> QED
        BY <2>1, <4>1, <4>2 DEF Runs
    <3>2. Runs(c, f, n, m)'
      BY <2>1, <2>3, <3>1 DEF Quiet, Stays, Runs
    <3> QED
      BY <3>2
  <2> QED
    BY <2>2, <2>3 DEF Quiet
<1>5. \E n \in 0 .. NumChunks : received'[f] = 0 .. n - 1
  BY DEF FileSent, Quiet
<1> QED
  BY <1>1, <1>2, <1>3, <1>4, <1>5 DEF FileSent

-----------------------------------------------------------------------------
\* Packets sent on the socket.
Sends(d, p) ==
  \A c \in Conns : to_server'[c] = IF c = d /\ Open(c) THEN Append(to_server[c], p)
                                                       ELSE to_server[c]

LEMMA ToServerSends ==
  ASSUME WireOK, NEW d, NEW p \in Packets, ToServer(d, <<p>>)
  PROVE  Sends(d, p)
<1> SUFFICES ASSUME NEW c \in Conns
             PROVE  to_server'[c] = IF c = d /\ Open(c) THEN Append(to_server[c], p)
                                                        ELSE to_server[c]
  BY DEF Sends
<1> DEFINE s == to_server[c]
<1>1. s \in Seq(Packets)
  BY DEF WireOK
<1>2. s \o <<p>> = Append(s, p)
  <2> HIDE DEF s
  <2> QED
    BY <1>1
<1>3. to_server'[c] = IF c = d /\ Open(d) THEN s \o <<p>> ELSE s
  BY DEF ToServer, WireOK
<1> QED
  BY <1>2, <1>3

LEMMA CheckIfIdleSends ==
  ASSUME WireOK, NEW d
  PROVE  /\ CheckIfIdle(d, <<>>) => UNCHANGED to_server \/ Sends(d, End)
         /\ \A p \in Packets : CheckIfIdle(d, <<p>>) /\ ~ Idle => Sends(d, p)
<1>1. <<>> \o <<End>> = <<End>> /\ <<>> \o <<>> = <<>>
  OBVIOUS
<1>2. ASSUME ToServer(d, <<>>) PROVE UNCHANGED to_server
  <2>1. \A c \in Conns : to_server[c] \o <<>> = to_server[c]
    <3> SUFFICES ASSUME NEW c \in Conns PROVE to_server[c] \o <<>> = to_server[c]
      OBVIOUS
    <3>1. to_server[c] \in Seq(Packets)
      BY DEF WireOK
    <3> QED
      BY <3>1
  <2>2. CASE d \in Conns
    BY <1>2, <2>1, <2>2 DEF ToServer, WireOK
  <2>3. CASE d \notin Conns
    BY <1>2, <2>3 DEF ToServer, WireOK
  <2> QED
    BY <2>2, <2>3
<1>3. ASSUME CheckIfIdle(d, <<>>) PROVE UNCHANGED to_server \/ Sends(d, End)
  <2>1. ToServer(d, <<End>>) \/ ToServer(d, <<>>)
    BY <1>1, <1>3 DEF CheckIfIdle
  <2> QED
    BY <1>2, <2>1, EndIsPacket, ToServerSends
<1>4. ASSUME NEW p \in Packets, CheckIfIdle(d, <<p>>), ~ Idle PROVE Sends(d, p)
  <2>1. <<p>> \o <<>> = <<p>>
    OBVIOUS
  <2>2. ToServer(d, <<p>>)
    BY <1>4, <2>1 DEF CheckIfIdle
  <2> QED
    BY <2>2, ToServerSends
<1> QED
  BY <1>3, <1>4

LEMMA SendsOther ==
  ASSUME WireOK, NEW d, NEW p \in Packets, Sends(d, p), NEW f, p.file # f,
         NEW c \in Conns
  PROVE  Stays(c, f)
<1>1. to_server[c] \in Seq(Packets)
  BY DEF WireOK
<1>2. to_server'[c] = to_server[c] \/ to_server'[c] = Append(to_server[c], p)
  BY DEF Sends
<1> QED
  BY <1>1, <1>2, AppendOther DEF Stays

LEMMA SendsOwn ==
  ASSUME WireOK, NEW d, NEW f, NEW i, ChunkOf(f, i) \in Packets, Sends(d, ChunkOf(f, i)),
         NEW c \in Conns
  PROVE  IF c = d /\ Open(c)
           THEN /\ Indices(to_server'[c], f) = Indices(to_server[c], f) \cup {i}
                /\ (InOrder(to_server[c], f) /\ \A j \in Indices(to_server[c], f) : j < i)
                     => InOrder(to_server'[c], f)
           ELSE Stays(c, f)
<1>1. to_server[c] \in Seq(Packets)
  BY DEF WireOK
<1>2. ChunkOf(f, i).file = f /\ ChunkOf(f, i).index = i
  BY DEF ChunkOf
<1>3. CASE c = d /\ Open(c)
  <2>1. to_server'[c] = Append(to_server[c], ChunkOf(f, i))
    BY <1>3 DEF Sends
  <2> QED
    BY <1>1, <1>2, <1>3, <2>1, AppendOwn
<1>4. CASE ~ (c = d /\ Open(c))
  <2>1. to_server'[c] = to_server[c]
    BY <1>4 DEF Sends
  <2> QED
    BY <1>4, <2>1 DEF Stays
<1> QED
  BY <1>3, <1>4

LEMMA NoneInOrder ==
  ASSUME NEW s, NEW f, Indices(s, f) = {}
  PROVE  InOrder(s, f)
<1>1. Holds(s, f) = {}
  BY DEF Indices
<1> QED
  BY <1>1 DEF InOrder

\* The runs of a file that is nowhere are empty.
LEMMA UnsentRuns ==
  ASSUME NEW f, NEW c \in Conns, Unsent(f),
         NEW n \in 0 .. NumChunks, NEW m \in 0 .. NumChunks, Runs(c, f, n, m)
  PROVE  n = 0 /\ m = 0
<1>1. received[f] = {} /\ Indices(to_server[c], f) = {}
  BY DEF Unsent
<1>2. 0 .. n - 1 = {} /\ n .. m - 1 = {} /\ n <= m
  BY <1>1 DEF Runs
<1>3. n = 0
  <2>1. n > 0 => 0 \in 0 .. n - 1
    OBVIOUS
  <2> QED
    BY <1>2, <2>1
<1>4. m = 0
  <2>1. m > n => n \in n .. m - 1
    OBVIOUS
  <2> QED
    BY <1>2, <1>3, <2>1
<1> QED
  BY <1>3, <1>4

LEMMA StaysWhole ==
  ASSUME UNCHANGED to_server, NEW c, NEW f
  PROVE  Stays(c, f)
BY DEF Stays

-----------------------------------------------------------------------------
\* A call about an upload is about a file.
LEMMA UploadingFile ==
  ASSUME WireOK, NEW w \in Workers, call[w].op = "upload"
  PROVE  call[w].file \in Files /\ Uploading(w, call[w].file)
BY DEF WireOK, NoCall, Call, Uploading

LEMMA InitiatedSent ==
  ASSUME WireOK, ServerOK, ServerOK', ClientOK, UploadCalls, SentInv,
         NEW w \in Workers, UploadInitiated(w)
  PROVE  SentInv' /\ \A f \in Uploads : Unsent(f) => Unsent(f)'
<1>1. PICK f \in Files : /\ f = call[w].file
                         /\ Uploading(w, f) /\ call[w].stage = "request"
  BY UploadingFile DEF UploadInitiated, At
<1>0. PICK u : u = users_file_sessions
  OBVIOUS
<1>2. f \in Uploads /\ f \notin offered /\ Unsent(f) /\ uploads_progress[f] = Absent
      /\ writing[f] = Absent
  BY <1>1 DEF UploadCalls, Early, SentInv, FileSent
<1>3. /\ u \in Conns
      /\ offered' = offered \cup {f}
      /\ upload_files' = [upload_files EXCEPT ![u] = @ \cup {f}]
      /\ UNCHANGED <<stream, reading, users_file_sessions, received, to_server, closed,
                     socket, uploads_progress, writing>>
  BY <1>0, <1>1
     DEF UploadInitiated, Server!InitUploadFile, Server!session_vars, wire_vars, conn_vars,
         transfer_vars, ServerOK, Server!TypeOK
<1>4. upload_files \in [Conns -> SUBSET Files]
  BY UploadNumbers DEF ServerOK, Server!TypeOK, Uploads
<1>5. ASSUME NEW g \in Uploads, g # f
      PROVE  FileSent(g)' /\ (Unsent(g) => Unsent(g)')
  <2>1. \A c \in Conns : g \in upload_files'[c] => g \in upload_files[c]
    BY <1>3, <1>4, <1>5
  <2>2. Quiet(g)
    BY <1>3, <2>1, StaysWhole DEF Quiet, Counts, SameSession, Open
  <2> QED
    BY <2>2, QuietKeepsFile DEF SentInv
<1>6. FileSent(f)' /\ Unsent(f)'
  <2>1. f \in offered' /\ uploads_progress'[f] = Absent
    BY <1>2, <1>3
  <2>2. Unsent(f)'
    BY <1>2, <1>3 DEF Unsent
  <2>3. ASSUME NEW c \in Conns PROVE Runs(c, f, 0, 0)'
    <3>1. received'[f] = 0 .. 0 - 1 /\ Indices(to_server'[c], f) = 0 .. 0 - 1
      BY <2>2 DEF Unsent
    <3>2. Indices(to_server'[c], f) = {}
      BY <2>2 DEF Unsent
    <3> QED
      BY <2>1, <3>1, <3>2, NoneInOrder DEF Runs
  <2>4. 0 \in 0 .. NumChunks /\ received'[f] = 0 .. 0 - 1
    BY <2>2, UploadNumbers DEF Unsent
  <2>5. \A c \in Conns : \E n, m \in 0 .. NumChunks : Runs(c, f, n, m)'
    BY <2>3, <2>4
  <2> QED
    BY <2>1, <2>2, <2>4, <2>5 DEF FileSent
<1>7. OpenedFirst'
  BY <1>0, <1>3, <1>4 DEF OpenedFirst, SentInv
<1> QED
  BY <1>5, <1>6, <1>7 DEF SentInv

\* Nothing moves in the sessions when the server's tables, the wire and the
\* socket stay as they are.
LEMMA SessionsStay ==
  ASSUME UNCHANGED <<stream, reading, upload_files, users_file_sessions, closed, socket>>,
         SentInv
  PROVE  /\ OpenedFirst'
         /\ \A c \in Conns, f \in Uploads : SameSession(c, f)
         /\ \A c \in Conns : Open(c)' <=> Open(c)
BY DEF SentInv, OpenedFirst, SameSession, Open

LEMMA EnterUploadSent ==
  ASSUME WireOK, ServerOK, ClientOK, UploadCalls, SentInv, NEW w \in Workers, EnterUpload(w)
  PROVE  SentInv' /\ \A f \in Uploads : Unsent(f) => Unsent(f)'
<1>1. PICK f \in Files : f = call[w].file /\ Uploading(w, f) /\ call[w].stage = "enter"
  BY UploadingFile DEF EnterUpload, At
<1>2. f \in Uploads /\ f \in offered /\ Unsent(f) /\ writing[f] = Absent
  BY <1>1 DEF UploadCalls, Late
<1>3. /\ uploads_progress' = [uploads_progress EXCEPT ![f] = 0]
      /\ UNCHANGED <<stream, reading, users_file_sessions, upload_files, offered, received,
                     to_server, closed, socket, writing>>
  BY <1>1 DEF EnterUpload, server_vars, wire_vars, conn_vars
<1>4. ASSUME NEW g \in Uploads, g # f
      PROVE  FileSent(g)' /\ (Unsent(g) => Unsent(g)')
  <2>1. uploads_progress'[g] = uploads_progress[g]
    BY <1>3, <1>4, UploadNumbers DEF ClientOK
  <2>2. Quiet(g)
    BY <1>3, <2>1, StaysWhole, SessionsStay DEF Quiet, Counts
  <2> QED
    BY <2>2, QuietKeepsFile DEF SentInv
<1>5. FileSent(f)' /\ Unsent(f)'
  <2>1. uploads_progress'[f] = 0 /\ writing'[f] = Absent /\ f \in offered'
    BY <1>2, <1>3 DEF ClientOK
  <2>2. Unsent(f)'
    BY <1>2, <1>3 DEF Unsent
  <2>3. Ahead(f)'
    <3>1. \A c \in Conns : Indices(to_server'[c], f) = {}
      BY <2>2 DEF Unsent
    <3>2. ASSUME NEW n \in 0 .. NumChunks, received'[f] = 0 .. n - 1 PROVE n <= 0 + 1
      <4>1. 0 .. n - 1 = {}
        BY <2>2, <3>2 DEF Unsent
      <4>2. n > 0 => 0 \in 0 .. n - 1
        OBVIOUS
      <4> QED
        BY <4>1, <4>2
    <3> QED
      BY <2>1, <3>1, <3>2 DEF Ahead
  <2>4. ASSUME NEW c \in Conns, f \in upload_files'[c]
        PROVE  \E n, m \in 0 .. NumChunks : Runs(c, f, n, m)'
    <3>1. PICK n \in 0 .. NumChunks, m \in 0 .. NumChunks : Runs(c, f, n, m)
      BY <1>2, <1>3, <2>4 DEF SentInv, FileSent
    <3>2. n = 0 /\ m = 0
      BY <1>2, <3>1, UnsentRuns
    <3>3. Runs(c, f, 0, 0)'
      BY <1>3, <2>1, <3>1, <3>2 DEF Runs
    <3> QED
      BY <3>2, <3>3
  <2>5. \E n \in 0 .. NumChunks : received'[f] = 0 .. n - 1
    BY <1>2, <1>3 DEF SentInv, FileSent
  <2> QED
    BY <2>1, <2>2, <2>3, <2>4, <2>5 DEF FileSent
<1> QED
  BY <1>3, <1>4, <1>5, SessionsStay DEF SentInv

\* The first chunk of an upload.
LEMMA UploadSent ==
  ASSUME WireOK, ServerOK, ClientOK, UploadCalls, SentInv,
         NEW w \in Workers, Upload(w), socket # NoConn
  PROVE  /\ SentInv'
         /\ \A f \in Uploads : f # call[w].file =>
              (Unsent(f) => Unsent(f)') /\ writing'[f] = writing[f]
<1>1. PICK f \in Files : f = call[w].file /\ Uploading(w, f) /\ call[w].stage = "send"
  BY UploadingFile DEF Upload, At
<1>2. /\ f \in Uploads /\ f \in offered /\ Unsent(f) /\ writing[f] = Absent
      /\ uploads_progress[f] \in {0, Absent}
  BY <1>1 DEF UploadCalls, Late
<1>3. /\ writing' = [writing EXCEPT ![f] = 0]
      /\ ToServer(socket, <<ChunkOf(f, 0)>>)
      /\ UNCHANGED <<stream, reading, users_file_sessions, upload_files, offered, received,
                     closed, socket, uploads_progress>>
  BY <1>1 DEF Upload, server_vars, conn_vars
<1>4. 0 \in Chunks /\ ChunkOf(f, 0) \in Packets /\ ChunkOf(f, 0).file = f
  BY UploadNumbers DEF ChunkOf, Packets
<1>5. Sends(socket, ChunkOf(f, 0))
  BY <1>3, <1>4, ToServerSends
<1>6. ASSUME NEW g \in Uploads, g # f
      PROVE  FileSent(g)' /\ (Unsent(g) => Unsent(g)') /\ writing'[g] = writing[g]
  <2>1. writing'[g] = writing[g]
    BY <1>3, <1>6, UploadNumbers DEF ClientOK
  <2>2. Quiet(g)
    BY <1>3, <1>4, <1>5, <1>6, <2>1, SendsOther, SessionsStay DEF Quiet, Counts
  <2> QED
    BY <2>1, <2>2, QuietKeepsFile DEF SentInv
<1>7. FileSent(f)'
  <2>1. writing'[f] = 0 /\ uploads_progress'[f] \in {0, Absent} /\ 0 # Absent /\ f \in offered'
    BY <1>2, <1>3 DEF ClientOK, Absent
  <2>2. received'[f] = {}
    BY <1>2, <1>3 DEF Unsent
  <2>3. \A c \in Conns : Indices(to_server'[c], f) \subseteq {0}
    BY <1>2, <1>4, <1>5, SendsOwn DEF Stays, Unsent
  <2>4. uploads_progress'[f] # Absent => Ahead(f)'
    <3> SUFFICES ASSUME uploads_progress'[f] = 0 PROVE Ahead(f)'
      BY <2>1
    <3>1. ASSUME NEW n \in 0 .. NumChunks, received'[f] = 0 .. n - 1 PROVE n <= 0 + 1
      <4>1. 0 .. n - 1 = {}
        BY <2>2, <3>1
      <4>2. n > 0 => 0 \in 0 .. n - 1
        OBVIOUS
      <4> QED
        BY <4>1, <4>2
    <3>2. \A c \in Conns : \A i \in Indices(to_server'[c], f) : i <= 0
      BY <2>3
    <3> QED
      BY <3>1, <3>2 DEF Ahead
  <2>5. ASSUME NEW c \in Conns, f \in upload_files'[c]
        PROVE  \E n, m \in 0 .. NumChunks : Runs(c, f, n, m)'
    <3>1. PICK n \in 0 .. NumChunks, m \in 0 .. NumChunks : Runs(c, f, n, m)
      BY <1>2, <1>3, <2>5 DEF SentInv, FileSent
    <3>2. n = 0 /\ m = 0
      BY <1>2, <3>1, UnsentRuns
    <3>3. CASE c = socket /\ Open(c)
      <4>1. /\ Indices(to_server'[c], f) = Indices(to_server[c], f) \cup {0}
            /\ Indices(to_server[c], f) = {}
            /\ InOrder(to_server'[c], f)
        BY <1>2, <1>4, <1>5, <3>3, SendsOwn, NoneInOrder DEF Unsent
      <4>2. Indices(to_server'[c], f) = 0 .. 1 - 1
        BY <4>1
      <4>3. uploads_progress'[f] # Absent => 1 = uploads_progress'[f] + 1
        BY <2>1
      <4>4. received'[f] = 0 .. 0 - 1
        BY <2>2
      <4>5. Runs(c, f, 0, 1)'
        BY <4>1, <4>2, <4>3, <4>4 DEF Runs
      <4>6. 0 \in 0 .. NumChunks /\ 1 \in 0 .. NumChunks
        BY UploadNumbers
      <4> QED
        BY <4>5, <4>6
    <3>4. CASE ~ (c = socket /\ Open(c))
      <4>1. Stays(c, f)
        BY <1>4, <1>5, <3>4, SendsOwn
      <4>2. ~ (c = socket' /\ Open(c)')
        BY <1>3, <3>4 DEF Open
      <4>3. Runs(c, f, 0, 0)'
        BY <1>3, <3>1, <3>2, <4>1, <4>2 DEF Runs, Stays
      <4> QED
        BY <3>2, <4>3
    <3> QED
      BY <3>3, <3>4
  <2>6. \E n \in 0 .. NumChunks : received'[f] = 0 .. n - 1
    BY <1>2, <1>3 DEF SentInv, FileSent
  <2> QED
    BY <2>1, <2>4, <2>5, <2>6 DEF FileSent
<1> QED
  BY <1>1, <1>3, <1>6, <1>7, SessionsStay DEF SentInv

\* The callback of a write that has a next chunk to send.
LEMMA NextChunkSent ==
  ASSUME WireOK, ServerOK, ClientOK, SentInv, NEW f \in Uploads, UploadChunkSent(f),
         uploads_progress[f] # Absent, uploads_progress[f] + 1 \in Chunks
  PROVE  /\ SentInv'
         /\ \A g \in Uploads : g # f => (Unsent(g) => Unsent(g)')
<1>1. PICK i \in Nat : i = uploads_progress[f] /\ i # Absent /\ i + 1 \in Chunks
  BY UploadNumbers
<1>2. f \in Files /\ writing[f] # Absent /\ f \in offered
  BY UploadNumbers DEF UploadChunkSent, SentInv, FileSent
<1>3. /\ uploads_progress' = [uploads_progress EXCEPT ![f] = i + 1]
      /\ writing' = [writing EXCEPT ![f] = i + 1]
      /\ CheckIfIdle(socket, <<ChunkOf(f, i + 1)>>)
      /\ UNCHANGED <<stream, reading, users_file_sessions, upload_files, offered, received,
                     closed, socket>>
  BY <1>1 DEF UploadChunkSent, server_vars, conn_vars
<1>4. /\ uploads_progress'[f] = i + 1 /\ writing'[f] = i + 1
      /\ i + 1 # Absent
      /\ \A g \in Uploads : g # f =>
           uploads_progress'[g] = uploads_progress[g] /\ writing'[g] = writing[g]
  BY <1>2, <1>3, UploadNumbers DEF ClientOK
<1>5. ChunkOf(f, i + 1) \in Packets /\ ChunkOf(f, i + 1).file = f
  BY <1>1, <1>2 DEF ChunkOf, Packets
<1>6. Sends(socket, ChunkOf(f, i + 1))
  <2>1. ~ Idle
    BY <1>2, <1>4 DEF Idle
  <2> QED
    BY <1>3, <1>5, <2>1, CheckIfIdleSends
<1>7. ASSUME NEW g \in Uploads, g # f
      PROVE  FileSent(g)' /\ (Unsent(g) => Unsent(g)')
  <2>1. Quiet(g)
    BY <1>3, <1>4, <1>5, <1>6, <1>7, SendsOther, SessionsStay DEF Quiet, Counts
  <2> QED
    BY <2>1, QuietKeepsFile DEF SentInv
<1>8. FileSent(f)'
  <2>0. /\ Ahead(f)
        /\ \A c \in Conns : Indices(to_server[c], f) \subseteq Chunks
        /\ Chunks = 0 .. NumChunks - 1 /\ NumChunks \in Nat
    BY <1>1, <1>2, IndicesAreChunks, UploadNumbers DEF SentInv, FileSent, WireOK
  <2>1. Ahead(f)'
    <3>1. ASSUME NEW c \in Conns, NEW j \in Indices(to_server'[c], f) PROVE j <= i + 1
      <4>1. j \in Indices(to_server[c], f) \/ j = i + 1
        BY <1>5, <1>6, <3>1, SendsOwn DEF Stays
      <4>2. j \in Indices(to_server[c], f) => j \in Int /\ j <= i
        BY <1>1, <2>0 DEF Ahead
      <4> QED
        BY <4>1, <4>2
    <3>2. ASSUME NEW n \in 0 .. NumChunks, received'[f] = 0 .. n - 1 PROVE n <= (i + 1) + 1
      <4>1. n <= i + 1
        BY <1>1, <1>3, <2>0, <3>2 DEF Ahead
      <4> QED
        BY <4>1
    <3> QED
      BY <1>4, <3>1, <3>2 DEF Ahead
  <2>2. ASSUME NEW c \in Conns, f \in upload_files'[c]
        PROVE  \E n, m \in 0 .. NumChunks : Runs(c, f, n, m)'
    <3>1. PICK n \in 0 .. NumChunks, m \in 0 .. NumChunks : Runs(c, f, n, m)
      BY <1>3, <2>2 DEF SentInv, FileSent
    <3>2. CASE c = socket /\ Open(c)
      <4>1. m = i + 1
        BY <1>1, <1>2, <3>1, <3>2 DEF Runs
      <4>2. \A j \in Indices(to_server[c], f) : j < i + 1
        BY <3>1, <4>1 DEF Runs
      <4>3. /\ Indices(to_server'[c], f) = Indices(to_server[c], f) \cup {i + 1}
            /\ InOrder(to_server'[c], f)
        BY <1>5, <1>6, <3>1, <3>2, <4>2, SendsOwn DEF Runs
      <4>4. n .. (i + 2) - 1 = (n .. (i + 1) - 1) \cup {i + 1}
        BY <3>1, <4>1 DEF Runs
      <4>5. Indices(to_server'[c], f) = n .. (i + 2) - 1
        BY <3>1, <4>1, <4>3, <4>4 DEF Runs
      <4>6. i + 2 = uploads_progress'[f] + 1 /\ n <= i + 2 /\ i + 2 \in 0 .. NumChunks
        BY <1>1, <1>4, <2>0, <3>1, <4>1 DEF Runs
      <4>7. Runs(c, f, n, i + 2)'
        BY <1>3, <3>1, <4>3, <4>5, <4>6 DEF Runs
      <4> QED
        BY <4>6, <4>7
    <3>3. CASE ~ (c = socket /\ Open(c))
      <4>1. Stays(c, f)
        BY <1>5, <1>6, <3>3, SendsOwn
      <4>2. ~ (c = socket' /\ Open(c)')
        BY <1>3, <3>3 DEF Open
      <4>3. Runs(c, f, n, m)'
        BY <1>3, <3>1, <4>1, <4>2 DEF Runs, Stays
      <4> QED
        BY <4>3
    <3> QED
      BY <3>2, <3>3
  <2>3. \E n \in 0 .. NumChunks : received'[f] = 0 .. n - 1
    BY <1>3 DEF SentInv, FileSent
  <2> QED
    BY <1>2, <1>3, <1>4, <2>1, <2>2, <2>3 DEF FileSent
<1> QED
  BY <1>3, <1>7, <1>8, SessionsStay DEF SentInv

\* Without its first packet a wire holds no more of a file.
LEMMA TailHoldsLess ==
  ASSUME NEW s \in Seq(Packets), s # <<>>, NEW f
  PROVE  Indices(Tail(s), f) \subseteq Indices(s, f)
<1> DEFINE t == Tail(s)
<1>1. /\ Len(s) \in Nat /\ DOMAIN s = 1 .. Len(s) /\ DOMAIN t = 1 .. Len(s) - 1
      /\ \A j \in 1 .. Len(s) - 1 : t[j] = s[j + 1]
  BY TailPositions
<1> HIDE DEF t
<1>2. ASSUME NEW j \in Holds(t, f) PROVE t[j].index \in Indices(s, f)
  <2>1. j + 1 \in Holds(s, f) /\ t[j] = s[j + 1]
    BY <1>1, <1>2 DEF Holds
  <2> QED
    BY <2>1 DEF Indices
<1>3. Indices(t, f) \subseteq Indices(s, f)
  BY <1>2 DEF Indices
<1> QED
  BY <1>3 DEF t

LEMMA OneRun ==
  ASSUME NEW a \in Nat, NEW b \in Nat, 0 .. a - 1 = 0 .. b - 1
  PROVE  a = b
<1>1. a > b => b \in 0 .. a - 1 /\ b \notin 0 .. b - 1
  OBVIOUS
<1>2. b > a => a \in 0 .. b - 1 /\ a \notin 0 .. a - 1
  OBVIOUS
<1> QED
  BY <1>1, <1>2

\* What the server does with the first packet on the wire of c, a chunk of f.
LEMMA ChunkRead ==
  ASSUME WireOK, ServerOK, NEW c \in Conns, ServerReads(c),
         NEW s, s = to_server[c], Head(s) # End
  PROVE  /\ s \in Seq(Packets) /\ s # <<>>
         /\ to_server' = [to_server EXCEPT ![c] = Tail(s)]
         /\ Head(s).file \in Files /\ Head(s).index \in Chunks
         /\ UNCHANGED <<stream, users_file_sessions, offered, closed, socket,
                        uploads_progress, writing, call>>
         /\ reading' \subseteq reading
         /\ \A d \in Conns : upload_files'[d] \subseteq upload_files[d]
         /\ \/ UNCHANGED <<received, upload_files>>
            \/ /\ Head(s).file \in upload_files[c]
               /\ received' = [received EXCEPT ![Head(s).file] = @ \cup {Head(s).index}]
<1>1. s \in Seq(Packets) /\ s # <<>>
  BY DEF WireOK, ServerReads
<1>2. Head(s) \in Packets
  BY <1>1
<1>3. Head(s).file \in Files /\ Head(s).index \in Chunks
  BY <1>2 DEF Packets, End
<1>4. /\ Server!ChunkPacket(c, Head(s).file, Head(s).index)
      /\ to_server' = [to_server EXCEPT ![c] = Tail(s)]
      /\ UNCHANGED <<closed, socket, uploads_progress, writing, call>>
  BY DEF ServerReads, client_vars, conn_vars, transfer_vars
<1>5. upload_files \in [Conns -> SUBSET Uploads]
  BY DEF ServerOK, Server!TypeOK, Uploads
<1>6. /\ UNCHANGED <<stream, users_file_sessions, offered>>
      /\ reading' \subseteq reading
      /\ \A d \in Conns : upload_files'[d] \subseteq upload_files[d]
      /\ \/ UNCHANGED <<received, upload_files>>
         \/ /\ Head(s).file \in upload_files[c]
            /\ received' = [received EXCEPT ![Head(s).file] = @ \cup {Head(s).index}]
  BY <1>4, <1>5
     DEF Server!ChunkPacket, Server!ChunkSaved, Server!SaveFile, Server!SaveFileFails,
         Server!ChunkRefused, Server!Answers, Server!session_vars, Server!upload_vars,
         Server!vars
<1> QED
  BY <1>1, <1>3, <1>4, <1>6

\* A chunk of an upload of the session is never refused.
LEMMA ChunkNotRefused ==
  ASSUME NEW c \in Conns, ServerReads(c), Head(to_server[c]) # End,
         Head(to_server[c]).file \in upload_files[c]
  PROVE  received' = [received EXCEPT ![Head(to_server[c]).file] =
                        @ \cup {Head(to_server[c]).index}]
BY DEF ServerReads, Server!ChunkPacket, Server!ChunkSaved, Server!SaveFile,
       Server!SaveFileFails, Server!ChunkRefused, Server!Answers

LEMMA ServerReadsSent ==
  ASSUME WireOK, ServerOK, ServerOK', ClientOK, SentInv, NEW c \in Conns, ServerReads(c),
         Head(to_server[c]) # End
  PROVE  SentInv' /\ \A f \in Uploads : Unsent(f) => Unsent(f)'
<1>1. PICK s : s = to_server[c]
  OBVIOUS
<1>2. PICK f \in Files, i \in Chunks : f = Head(s).file /\ i = Head(s).index
  BY <1>1, ChunkRead
<1>3. /\ s \in Seq(Packets) /\ s # <<>>
      /\ to_server' = [to_server EXCEPT ![c] = Tail(s)]
      /\ UNCHANGED <<stream, users_file_sessions, offered, closed, socket,
                     uploads_progress, writing>>
      /\ reading' \subseteq reading
      /\ \A d \in Conns : upload_files'[d] \subseteq upload_files[d]
      /\ \/ UNCHANGED <<received, upload_files>>
         \/ /\ f \in upload_files[c]
            /\ received' = [received EXCEPT ![f] = @ \cup {i}]
  BY <1>1, <1>2, ChunkRead
<1>4. /\ to_server'[c] = Tail(s)
      /\ \A d \in Conns : d # c => to_server'[d] = to_server[d]
  BY <1>3 DEF WireOK
<1>5. /\ received \in [Files -> SUBSET Chunks] /\ Uploads \subseteq Files
      /\ NumChunks \in Nat /\ Chunks = 0 .. NumChunks - 1
      /\ \A d \in Conns : upload_files[d] \subseteq Uploads /\ upload_files[d] \subseteq offered
      /\ \A d, e \in Conns : f \in upload_files[d] /\ f \in upload_files[e] => d = e
  BY UploadNumbers DEF ServerOK, Server!TypeOK, Chunks, Uploads
<1>6. ASSUME NEW g \in Uploads, g # f
      PROVE  FileSent(g)' /\ (Unsent(g) => Unsent(g)')
  <2>1. received'[g] = received[g]
    BY <1>3, <1>5, <1>6
  <2>2. ASSUME NEW d \in Conns PROVE Stays(d, g)
    <3>1. CASE d = c
      BY <1>1, <1>2, <1>3, <1>4, <1>6, <3>1, TailOther DEF Stays
    <3>2. CASE d # c
      BY <1>4, <3>2 DEF Stays
    <3> QED
      BY <3>1, <3>2
  <2>3. \A d \in Conns : SameSession(d, g)
    BY <1>3 DEF SameSession, Open
  <2>4. Quiet(g)
    BY <1>3, <2>1, <2>2, <2>3 DEF Quiet, Counts
  <2> QED
    BY <2>4, QuietKeepsFile DEF SentInv
<1>7. ASSUME f \in Uploads
      PROVE  FileSent(f)' /\ ~ Unsent(f)
  <2>1. i \in Indices(to_server[c], f)
    <3>1. s[1] = Head(s) /\ 1 \in Holds(s, f)
      BY <1>2, <1>3, TailPositions DEF Holds
    <3> QED
      BY <1>1, <1>2, <3>1 DEF Indices
  <2>2. ~ Unsent(f)
    BY <2>1 DEF Unsent
  <2>3. f \in offered'
    BY <1>3, <1>7, <2>2 DEF SentInv, FileSent
  <2>4. \A d \in Conns : Indices(to_server'[d], f) \subseteq Indices(to_server[d], f)
    BY <1>1, <1>3, <1>4, TailHoldsLess
  <2>5. CASE UNCHANGED <<received, upload_files>> /\ f \notin upload_files[c]
    <3>1. uploads_progress'[f] # Absent => Ahead(f)'
      BY <1>3, <1>7, <2>4, <2>5 DEF SentInv, FileSent, Ahead
    <3>2. ASSUME NEW d \in Conns, f \in upload_files'[d]
          PROVE  \E n, m \in 0 .. NumChunks : Runs(d, f, n, m)'
      <4>1. d # c /\ f \in upload_files[d]
        BY <2>5, <3>2
      <4>2. PICK n \in 0 .. NumChunks, m \in 0 .. NumChunks : Runs(d, f, n, m)
        BY <1>7, <4>1 DEF SentInv, FileSent
      <4>3. Runs(d, f, n, m)'
        BY <1>3, <1>4, <2>5, <4>1, <4>2 DEF Runs, Open
      <4> QED
        BY <4>3
    <3>3. \E n \in 0 .. NumChunks : received'[f] = 0 .. n - 1
      BY <1>7, <2>5 DEF SentInv, FileSent
    <3> QED
      BY <2>2, <2>3, <3>1, <3>2, <3>3 DEF FileSent
  <2>7. CASE f \in upload_files[c] /\ received' = [received EXCEPT ![f] = @ \cup {i}]
    <3>1. PICK n \in 0 .. NumChunks, m \in 0 .. NumChunks : Runs(c, f, n, m)
      BY <1>7, <2>7 DEF SentInv, FileSent
    <3>2. /\ Indices(s, f) = Indices(Tail(s), f) \cup {i}
          /\ \A j \in Indices(Tail(s), f) : i < j
          /\ InOrder(Tail(s), f)
      BY <1>1, <1>2, <1>3, <3>1, TailOwn DEF Runs
    <3>3. Indices(s, f) = n .. m - 1 /\ received[f] = 0 .. n - 1 /\ i \in Int
      BY <1>1, <1>5, <3>1 DEF Runs
    <3>4. i = n /\ n < m
      <4>1. i \in n .. m - 1
        BY <3>2, <3>3
      <4>2. n \in n .. m - 1
        BY <4>1
      <4>3. n = i \/ n \in Indices(Tail(s), f)
        BY <3>2, <3>3, <4>2
      <4> QED
        BY <3>2, <3>3, <4>1, <4>3
    <3>5. Indices(Tail(s), f) = (n + 1) .. m - 1
      <4>1. ASSUME NEW j \in Indices(Tail(s), f) PROVE j \in (n + 1) .. m - 1
        <5>1. j \in n .. m - 1 /\ n < j
          BY <3>2, <3>3, <3>4, <4>1
        <5> QED
          BY <5>1
      <4>2. ASSUME NEW j \in (n + 1) .. m - 1 PROVE j \in Indices(Tail(s), f)
        <5>1. j \in n .. m - 1 /\ j # n
          BY <4>2
        <5> QED
          BY <3>2, <3>3, <3>4, <5>1
      <4> QED
        BY <4>1, <4>2
    <3>6. received'[f] = 0 .. (n + 1) - 1 /\ n + 1 \in 0 .. NumChunks /\ n + 1 <= m
      <4>1. received'[f] = (0 .. n - 1) \cup {n}
        BY <1>5, <2>7, <3>3, <3>4
      <4>2. (0 .. n - 1) \cup {n} = 0 .. (n + 1) - 1
        OBVIOUS
      <4> QED
        BY <1>5, <3>4, <4>1, <4>2
    <3>7. Runs(c, f, n + 1, m)'
      BY <1>3, <1>4, <3>1, <3>2, <3>5, <3>6 DEF Runs, Open
    <3>8. ASSUME uploads_progress'[f] # Absent PROVE Ahead(f)'
      <4>1. Ahead(f) /\ uploads_progress'[f] = uploads_progress[f] /\ uploads_progress[f] \in Int
        BY <1>3, <1>7, <3>8, UploadNumbers DEF SentInv, FileSent
      <4>2. n <= uploads_progress[f]
        BY <2>1, <3>4, <4>1 DEF Ahead
      <4>3. ASSUME NEW k \in 0 .. NumChunks, received'[f] = 0 .. k - 1
            PROVE  k <= uploads_progress'[f] + 1
        <5>1. k = n + 1
          BY <3>6, <4>3, OneRun
        <5> QED
          BY <4>1, <4>2, <5>1
      <4>4. \A d \in Conns : \A j \in Indices(to_server'[d], f) : j <= uploads_progress'[f]
        BY <2>4, <4>1 DEF Ahead
      <4> QED
        BY <4>3, <4>4 DEF Ahead
    <3>9. ASSUME NEW d \in Conns, f \in upload_files'[d]
          PROVE  \E a, b \in 0 .. NumChunks : Runs(d, f, a, b)'
      <4>1. d = c
        BY <1>3, <1>5, <2>7, <3>9
      <4> QED
        BY <3>6, <3>7, <4>1
    <3> QED
      BY <2>2, <2>3, <3>6, <3>8, <3>9 DEF FileSent
  <2>8. f \in upload_files[c] => received' = [received EXCEPT ![f] = @ \cup {i}]
    BY <1>1, <1>2, ChunkNotRefused
  <2> QED
    BY <1>3, <2>2, <2>5, <2>7, <2>8
<1>8. OpenedFirst'
  BY <1>3 DEF OpenedFirst, SentInv
<1> QED
  BY <1>6, <1>7, <1>8 DEF SentInv

LEMMA StopDoneSent ==
  ASSUME WireOK, ServerOK, ServerOK', ClientOK, SentInv, NEW w \in Workers, StopDone(w)
  PROVE  SentInv' /\ \A f \in Uploads : Unsent(f) => Unsent(f)'
<1>1. PICK f \in Files : f = call[w].file
  BY DEF WireOK, StopDone, At, NoCall, Call
<1>0. PICK u : u = users_file_sessions
  OBVIOUS
<1>2. /\ u \in Conns
      /\ upload_files' = [upload_files EXCEPT ![u] = @ \ {f}]
      /\ received' = IF f \in upload_files[u] THEN [received EXCEPT ![f] = {}] ELSE received
      /\ UNCHANGED <<stream, reading, users_file_sessions, offered, to_server, closed,
                     socket, uploads_progress, writing>>
  BY <1>0, <1>1
     DEF StopDone, Server!StopFileTransmission, Server!session_vars, wire_vars, conn_vars,
         transfer_vars, ServerOK, Server!TypeOK
<1>3. /\ received \in [Files -> SUBSET Chunks] /\ Uploads \subseteq Files
      /\ upload_files \in [Conns -> SUBSET Uploads]
      /\ \A d \in Conns : upload_files[d] \subseteq offered
      /\ \A d, e \in Conns : f \in upload_files[d] /\ f \in upload_files[e] => d = e
      /\ NumChunks \in Nat
  BY UploadNumbers DEF ServerOK, Server!TypeOK, Chunks, Uploads
<1>4. \A d \in Conns : upload_files'[d] \subseteq upload_files[d]
  BY <1>2, <1>3
<1>5. ASSUME NEW g \in Uploads, received'[g] = received[g]
      PROVE  FileSent(g)' /\ (Unsent(g) => Unsent(g)')
  <2>1. \A d \in Conns : SameSession(d, g) /\ Stays(d, g)
    BY <1>2, <1>4, StaysWhole DEF SameSession, Open
  <2>2. Quiet(g)
    BY <1>2, <1>5, <2>1 DEF Quiet, Counts
  <2> QED
    BY <2>2, QuietKeepsFile DEF SentInv
<1>6. ASSUME NEW g \in Uploads, received'[g] # received[g]
      PROVE  FileSent(g)' /\ (Unsent(g) => Unsent(g)')
  <2>1. g = f /\ f \in upload_files[u] /\ received'[f] = {}
    BY <1>2, <1>3, <1>6
  <2>2. Unsent(f) => Unsent(f)'
    BY <1>2, <2>1 DEF Unsent
  <2>3. f \in offered'
    BY <1>2, <1>3, <2>1
  <2>4. ASSUME uploads_progress'[f] # Absent
        PROVE  Ahead(f)'
    <3>1. Ahead(f) /\ uploads_progress[f] \in Nat
      BY <1>2, <1>6, <2>1, <2>4, UploadNumbers DEF SentInv, FileSent
    <3>2. ASSUME NEW n \in 0 .. NumChunks, received'[f] = 0 .. n - 1
          PROVE  n <= uploads_progress[f] + 1
      <4>1. 0 .. n - 1 = {}
        BY <2>1, <3>2
      <4>2. n > 0 => 0 \in 0 .. n - 1
        OBVIOUS
      <4> QED
        BY <3>1, <4>1, <4>2
    <3> QED
      BY <1>2, <2>2, <3>1, <3>2 DEF Ahead
  <2>5. \A d \in Conns : f \notin upload_files'[d]
    <3>1. f \notin upload_files'[u]
      BY <1>2, <1>3
    <3> QED
      BY <1>2, <1>3, <1>4, <2>1, <3>1
  <2>6. 0 \in 0 .. NumChunks /\ received'[f] = 0 .. 0 - 1
    BY <1>3, <2>1
  <2> QED
    BY <2>1, <2>2, <2>3, <2>4, <2>5, <2>6 DEF FileSent
<1>7. OpenedFirst'
  BY <1>2, <1>4 DEF OpenedFirst, SentInv
<1> QED
  BY <1>5, <1>6, <1>7 DEF SentInv

LEMMA QuietStep ==
  ASSUME SentInv, OpenedFirst', \A f \in Uploads : Quiet(f)
  PROVE  SentInv' /\ \A f \in Uploads : Unsent(f) => Unsent(f)'
BY QuietKeepsFile DEF SentInv

\* The steps of the server that are not about an upload.
OtherServerStep ==
  \/ \E c \in Conns : Server!SessionStep(c)
  \/ \E k \in Chains : Server!ChainStep(k)
  \/ Server!HandlerStep
  \/ Server!CleanUserSession
  \/ \E f \in Files : Server!InitDownloadFile(f) \/ Server!SaverStep(f)
  \/ UNCHANGED server_vars

LEMMA OtherServerStepKeeps ==
  ASSUME ServerOK, SentInv, OtherServerStep
  PROVE  /\ UNCHANGED <<offered, upload_files, received>>
         /\ OpenedFirst'
         /\ \A c \in Conns : stream'[c] = "open" => stream[c] \in {"open", "none"}
<1>1. ASSUME NEW c \in Conns, Server!SessionStep(c)
      PROVE  /\ UNCHANGED <<offered, upload_files, received>>
             /\ OpenedFirst'
             /\ \A d \in Conns : stream'[d] = "open" => stream[d] \in {"open", "none"}
  <2>1. UNCHANGED <<offered, upload_files, received>>
    BY <1>1 DEF Server!SessionStep, Server!Accept, Server!SessionAuth, Server!Answers,
                Server!Shutdown, Server!ShutdownDone, Server!ConnLost, Server!upload_vars
  <2>2. stream \in [Conns -> {"none", "open", "closed"}]
    BY DEF ServerOK, Server!TypeOK
  <2>3. /\ \A d \in Conns : stream'[d] = "none" => stream[d] = "none"
        /\ \A d \in Conns : stream'[d] = "open" => stream[d] \in {"open", "none"}
        /\ \A d \in reading' : d \in reading \/ stream'[d] # "none"
        /\ \/ users_file_sessions' \in {users_file_sessions, NoConn}
           \/ users_file_sessions' = c /\ stream'[c] # "none"
    <3>1. CASE Server!SessionAuth(c)
      BY <3>1 DEF Server!SessionAuth, Server!Answers, Server!Reads, SentInv, OpenedFirst
    <3>2. CASE Server!Accept(c) \/ Server!Shutdown(c) \/ Server!ConnLost(c)
      BY <2>2, <3>2 DEF Server!Accept, Server!Shutdown, Server!ConnLost
    <3>3. CASE Server!ShutdownDone(c)
      BY <2>2, <3>3 DEF Server!ShutdownDone
    <3> QED
      BY <1>1, <3>1, <3>2, <3>3 DEF Server!SessionStep
  <2>4. OpenedFirst'
    BY <2>1, <2>3, FileTransferAssumption DEF OpenedFirst, SentInv
  <2> QED
    BY <2>1, <2>3, <2>4
<1>2. ASSUME UNCHANGED <<offered, upload_files, received, stream, reading, users_file_sessions>>
      PROVE  /\ OpenedFirst'
             /\ \A c \in Conns : stream'[c] = "open" => stream[c] \in {"open", "none"}
  BY <1>2 DEF OpenedFirst, SentInv
<1>3. ASSUME NEW k \in Chains, Server!ChainStep(k)
      PROVE  UNCHANGED <<offered, upload_files, received, stream, reading, users_file_sessions>>
  BY <1>3 DEF Server!ChainStep, Server!HandleDownloadChunkSent, Server!DownloadStopped,
     Server!DownloadChunkSent, Server!DownloadEnds, Server!DownloadUsesFreed,
     Server!DownloadWriteFails, Server!session_vars, Server!upload_vars
<1>4. CASE Server!HandlerStep
  <2>1. UNCHANGED <<offered, upload_files, received, stream, reading, users_file_sessions>>
    BY <1>4 DEF Server!HandlerStep, Server!DownloadCrashes, Server!DownloadUnreadable,
       Server!AlreadyDownloading, Server!AddDownloadFile, Server!session_vars,
       Server!upload_vars
  <2> QED
    BY <1>2, <2>1
<1>5. ASSUME NEW f \in Files, Server!InitDownloadFile(f) \/ Server!SaverStep(f)
      PROVE  UNCHANGED <<offered, upload_files, received, stream, reading, users_file_sessions>>
  BY <1>5 DEF Server!InitDownloadFile, Server!SaverStep, Server!SaverOpens,
     Server!SaverWrites, Server!SaverFails, Server!session_vars, Server!upload_vars
<1>6. CASE UNCHANGED server_vars
  <2>1. UNCHANGED <<offered, upload_files, received, stream, reading, users_file_sessions>>
    BY <1>6 DEF server_vars
  <2> QED
    BY <1>2, <2>1
<1>7. CASE Server!CleanUserSession
  BY <1>7, FileTransferAssumption
     DEF Server!CleanUserSession, Server!upload_vars, OpenedFirst, SentInv
<1> QED
  BY <1>1, <1>2, <1>3, <1>4, <1>5, <1>6, <1>7 DEF OtherServerStep

\* A step that sends nothing of an upload, on a socket it keeps, closes or frees.
LEMMA OtherStepSent ==
  ASSUME WireOK, ServerOK, SentInv, OtherServerStep,
         UNCHANGED to_server \/ \E p \in Packets : p.file \notin Uploads /\ Sends(socket, p),
         closed \subseteq closed',
         UNCHANGED socket \/ socket' = NoConn,
         \A c \in Conns : stream'[c] = "open" => stream[c] = "open",
         \A f \in Uploads : Counts(f)
  PROVE  SentInv' /\ \A f \in Uploads : Unsent(f) => Unsent(f)'
<1>1. /\ UNCHANGED <<offered, upload_files, received>>
      /\ OpenedFirst'
  BY OtherServerStepKeeps
<1>2. ASSUME NEW f \in Uploads, NEW c \in Conns
      PROVE  Stays(c, f) /\ SameSession(c, f)
  <2>1. ASSUME NEW p \in Packets, p.file \notin Uploads, Sends(socket, p)
        PROVE  Stays(c, f)
    BY <2>1, SendsOther
  <2>2. Stays(c, f)
    BY <2>1, StaysWhole
  <2>3. socket' = c => socket = c
    BY FileTransferAssumption
  <2>4. Open(c)' => Open(c)
    BY DEF Open
  <2>5. SameSession(c, f)
    BY <1>1, <2>3, <2>4 DEF SameSession
  <2> QED
    BY <2>2, <2>5
<1>3. \A f \in Uploads : Quiet(f)
  BY <1>1, <1>2 DEF Quiet
<1> QED
  BY <1>1, <1>3, QuietStep

\* A new connection carries nothing, and is no session yet.
LEMMA ConnectSent ==
  ASSUME WireOK, ServerOK, SentInv, NEW w \in Workers, NEW d \in Conns, Connect(w, d)
  PROVE  SentInv' /\ \A f \in Uploads : Unsent(f) => Unsent(f)'
<1>1. /\ Server!SessionStep(d) /\ stream[d] = "none" /\ socket' = d
      /\ UNCHANGED <<to_server, closed, uploads_progress, writing>>
  BY DEF Connect, Server!SessionStep, Server!Accept, wire_vars, transfer_vars
<1>2. UNCHANGED <<offered, upload_files, received>> /\ OpenedFirst'
  BY <1>1, OtherServerStepKeeps DEF OtherServerStep
<1>3. upload_files[d] = {}
  BY <1>1 DEF SentInv, OpenedFirst
<1>4. ASSUME NEW f \in Uploads, NEW c \in Conns
      PROVE  Stays(c, f) /\ SameSession(c, f)
  BY <1>1, <1>2, <1>3, StaysWhole DEF SameSession
<1>5. \A f \in Uploads : Quiet(f)
  BY <1>1, <1>2, <1>4 DEF Quiet, Counts
<1> QED
  BY <1>2, <1>5, QuietStep

\* The server drops what is on the way of a connection it shuts down or loses.
LEMMA ServerDropsSent ==
  ASSUME WireOK, ServerOK, SentInv, NEW d \in Conns, Server!SessionStep(d), ServerDrops(d),
         stream'[d] # "open", \A c \in Conns : stream'[c] = "open" => stream[c] = "open",
         UNCHANGED <<closed, socket, uploads_progress, writing>>
  PROVE  SentInv' /\ \A f \in Uploads : Unsent(f) => Unsent(f)'
<1>1. UNCHANGED <<offered, upload_files, received>> /\ OpenedFirst'
  BY OtherServerStepKeeps DEF OtherServerStep
<1>2. ASSUME NEW f \in Uploads, NEW c \in Conns
      PROVE  (Stays(c, f) \/ Dropped(c, f)) /\ SameSession(c, f)
  <2>1. SameSession(c, f)
    BY <1>1 DEF SameSession, Open
  <2>2. CASE c = d
    BY <2>1, <2>2, NothingHeld DEF ServerDrops, Dropped, Open, WireOK
  <2>3. CASE c # d
    BY <2>1, <2>3 DEF ServerDrops, Stays, WireOK
  <2> QED
    BY <2>2, <2>3
<1>3. \A f \in Uploads : Quiet(f)
  BY <1>1, <1>2 DEF Quiet, Counts
<1> QED
  BY <1>1, <1>3, QuietStep

-----------------------------------------------------------------------------
\* A file of which nothing is sent in this step.
Rests(f) ==
  /\ Unsent(f)'
  /\ writing'[f] = Absent
  /\ uploads_progress'[f] \in {uploads_progress[f], 0, Absent}

Sending(f) == \E w \in Workers : Upload(w) /\ call[w].file = f

RestsUnlessSent ==
  \A f \in Uploads : (Unsent(f) /\ writing[f] = Absent /\ ~ Sending(f)) => Rests(f)

\* Most steps leave what the client counts, or forget it.
LEMMA CountsRest ==
  ASSUME \A f \in Uploads : Unsent(f) => Unsent(f)', \A f \in Uploads : Counts(f)
  PROVE  RestsUnlessSent
BY DEF RestsUnlessSent, Rests, Counts

LEMMA WorkerStepSent ==
  ASSUME WireOK, ServerOK, ServerOK', ClientOK, UploadCalls, SentInv,
         NEW w \in Workers, WorkerStep(w)
  PROVE  SentInv' /\ RestsUnlessSent
<1>1. CASE UploadInitiated(w)
  <2>1. \A f \in Uploads : Counts(f)
    BY <1>1 DEF UploadInitiated, Counts, transfer_vars
  <2> QED
    BY <1>1, <2>1, InitiatedSent, CountsRest
<1>2. CASE EnterUpload(w)
  <2>1. UNCHANGED writing /\ \A f \in Files : uploads_progress'[f] \in {uploads_progress[f], 0}
    BY <1>2 DEF EnterUpload, ClientOK
  <2> QED
    BY <1>2, <2>1, EnterUploadSent, UploadNumbers DEF RestsUnlessSent, Rests
<1>3. CASE Upload(w) /\ socket # NoConn
  <2>1. UNCHANGED uploads_progress
    BY <1>3 DEF Upload
  <2> QED
    BY <1>3, <2>1, UploadSent DEF RestsUnlessSent, Rests, Sending
<1>4. CASE StopDone(w)
  <2>1. \A f \in Uploads : Counts(f)
    BY <1>4 DEF StopDone, Counts, transfer_vars
  <2> QED
    BY <1>4, <2>1, StopDoneSent, CountsRest
<1>5. ASSUME NEW c \in Conns, Connect(w, c) PROVE SentInv' /\ RestsUnlessSent
  <2>1. \A f \in Uploads : Counts(f)
    BY <1>5 DEF Connect, Counts, transfer_vars
  <2> QED
    BY <1>5, <2>1, ConnectSent, CountsRest
<1>6. ASSUME OtherServerStep, UNCHANGED <<stream, to_server, closed, socket>>,
             \A f \in Uploads : Counts(f)
      PROVE  SentInv' /\ RestsUnlessSent
  BY <1>6, OtherStepSent, CountsRest
<1>7. CASE EraseStopped(w)
  <2>1. UNCHANGED <<server_vars, to_server, closed, socket>>
    BY <1>7 DEF EraseStopped, wire_vars, conn_vars
  <2>2. \A f \in Files : uploads_progress'[f] \in {uploads_progress[f], Absent}
    BY <1>7 DEF EraseStopped, ClientOK
  <2>3. \A f \in Uploads : Counts(f)
    BY <1>7, <2>2, UploadNumbers DEF EraseStopped, Counts
  <2> QED
    BY <1>6, <2>1, <2>3 DEF OtherServerStep, server_vars
<1>8. CASE DownloadFound(w) \/ DownloadAnswered(w)
  <2>1. UNCHANGED <<to_server, closed, socket>>
    BY <1>8 DEF DownloadFound, DownloadAnswered, wire_vars, conn_vars
  <2>2. \A f \in Uploads : Counts(f)
    BY <1>8 DEF DownloadFound, DownloadAnswered, Counts, transfer_vars
  <2>3. UNCHANGED stream
    BY <1>8 DEF DownloadFound, DownloadAnswered, Server!InitDownloadFile,
       Server!DownloadCrashes, Server!DownloadUnreadable, Server!AlreadyDownloading,
       Server!AddDownloadFile, Server!session_vars
  <2>4. OtherServerStep
    <3>1. CASE DownloadFound(w)
      <4>1. call[w].file \in Files
        BY <3>1 DEF WireOK, DownloadFound, At, NoCall, Call
      <4> QED
        BY <3>1, <4>1 DEF DownloadFound, OtherServerStep
    <3>2. CASE DownloadAnswered(w)
      BY <3>2 DEF DownloadAnswered, OtherServerStep, Server!HandlerStep
    <3> QED
      BY <1>8, <3>1, <3>2
  <2> QED
    BY <1>6, <2>1, <2>2, <2>3, <2>4
<1>9. CASE UNCHANGED <<server_vars, to_server, closed, socket, transfer_vars>>
  <2>1. \A f \in Uploads : Counts(f)
    BY <1>9 DEF Counts, transfer_vars
  <2> QED
    BY <1>6, <1>9, <2>1 DEF OtherServerStep, server_vars
<1>10. CASE EnterDownload(w)
  <2>1. UNCHANGED <<server_vars, to_server, closed, socket>> /\ \A f \in Uploads : Counts(f)
    BY <1>10 DEF EnterDownload, wire_vars, conn_vars, Counts
  <2> QED
    BY <1>6, <2>1 DEF OtherServerStep, server_vars
<1>11. CASE Upload(w) /\ socket = NoConn
  <2>1. UNCHANGED <<server_vars, to_server, closed, socket>> /\ \A f \in Uploads : Counts(f)
    BY <1>11 DEF Upload, conn_vars, Counts
  <2> QED
    BY <1>6, <2>1 DEF OtherServerStep, server_vars
<1> QED
  BY <1>1, <1>2, <1>3, <1>4, <1>5, <1>7, <1>8, <1>9, <1>10, <1>11
     DEF WorkerStep, UploadRefused, EmptyFile, GetFileInfo, DownloadRefused, StopRefused,
         CheckSocket, Connected, ThreadsRun, ConnectFails, ConnectFreed, wire_vars,
         conn_vars

LEMMA IOStepSent ==
  ASSUME WireOK, ServerOK, ClientOK, SentInv, IOStep
  PROVE  SentInv' /\ RestsUnlessSent
<1>0. ASSUME UNCHANGED <<server_vars, socket>>,
             UNCHANGED to_server \/ \E p \in Packets : p.file \notin Uploads /\ Sends(socket, p),
             closed \subseteq closed', \A f \in Uploads : Counts(f)
      PROVE  SentInv' /\ RestsUnlessSent
  BY <1>0, OtherStepSent, CountsRest DEF OtherServerStep, server_vars
<1>4. End \in Packets /\ End.file \notin Uploads
  BY EndIsPacket, FileTransferAssumption DEF End, Uploads, Server!Uploads
<1>1. CASE RecvChunk
  <2>1. /\ UNCHANGED <<server_vars, socket, closed>> /\ CheckIfIdle(socket, <<>>)
        /\ \A f \in Uploads : Counts(f)
    BY <1>1 DEF RecvChunk, conn_vars, Counts
  <2> QED
    BY <1>0, <1>4, <2>1, CheckIfIdleSends
<1>2. CASE RecvEnd \/ RecvEndIgnored \/ \E f \in Files : UploadWriteFails(f)
  <2>1. /\ UNCHANGED <<server_vars, socket, to_server>> /\ closed \subseteq closed'
        /\ \A f \in Uploads : Counts(f)
    BY <1>2 DEF RecvEnd, RecvEndIgnored, UploadWriteFails, CleanConnection, ClosesSocket,
                transfer_vars, Counts
  <2> QED
    BY <1>0, <2>1
<1>5. ASSUME NEW f \in Files, UploadFailIgnored(f)
      PROVE  SentInv' /\ RestsUnlessSent
  <2>1. UNCHANGED <<server_vars, socket, to_server, closed>>
    BY <1>5 DEF UploadFailIgnored, wire_vars
  <2>2. \A g \in Files : Counts(g)
    BY <1>5 DEF UploadFailIgnored, Counts, ClientOK
  <2> QED
    BY <1>0, <2>1, <2>2, UploadNumbers
<1>3. ASSUME NEW f \in Files, UploadChunkSent(f)
      PROVE  SentInv' /\ RestsUnlessSent
  <2>1. CASE f \in Uploads /\ uploads_progress[f] # Absent /\ uploads_progress[f] + 1 \in Chunks
    <3>1. SentInv' /\ \A g \in Uploads : g # f => (Unsent(g) => Unsent(g)')
      BY <1>3, <2>1, NextChunkSent
    <3>2. writing[f] # Absent /\ \A g \in Files : g # f =>
            writing'[g] = writing[g] /\ uploads_progress'[g] = uploads_progress[g]
      BY <1>3 DEF UploadChunkSent, ClientOK
    <3> QED
      BY <3>1, <3>2, UploadNumbers DEF RestsUnlessSent, Rests
  <2>2. CASE f \in Uploads /\ ~ (uploads_progress[f] # Absent /\ uploads_progress[f] + 1 \in Chunks)
    <3>1. /\ uploads_progress' = [uploads_progress EXCEPT ![f] = Absent]
          /\ writing' = [writing EXCEPT ![f] = Absent]
          /\ CheckIfIdle(socket, <<>>)
          /\ UNCHANGED <<server_vars, closed, socket>>
      BY <1>3, <2>2 DEF UploadChunkSent, conn_vars
    <3>2. \A g \in Files : \/ uploads_progress'[g] = uploads_progress[g] /\ writing'[g] = writing[g]
                           \/ uploads_progress'[g] = Absent /\ writing'[g] = Absent
      BY <3>1 DEF ClientOK
    <3>3. \A g \in Uploads : Counts(g)
      BY <3>2, UploadNumbers DEF Counts
    <3> QED
      BY <1>0, <1>4, <3>1, <3>3, CheckIfIdleSends
  <2>3. CASE f \notin Uploads
    \* The next chunk is of a file that was stored from the start.
    <3>1. \A g \in Uploads : Counts(g)
      BY <1>3, <2>3 DEF UploadChunkSent, Counts, ClientOK
    <3>2. UNCHANGED <<server_vars, socket, closed>>
      BY <1>3 DEF UploadChunkSent, conn_vars
    <3>3. UNCHANGED to_server \/ \E p \in Packets : p.file \notin Uploads /\ Sends(socket, p)
      <4>1. CASE uploads_progress[f] # Absent /\ uploads_progress[f] + 1 \in Chunks
        <5>1. PICK i \in Chunks : i = uploads_progress[f] + 1
          BY <4>1
        <5>2. CheckIfIdle(socket, <<ChunkOf(f, i)>>) /\ uploads_progress'[f] = i
          BY <1>3, <4>1, <5>1 DEF UploadChunkSent, ClientOK
        <5>3. ~ Idle
          BY <5>1, <5>2, UploadNumbers DEF Idle
        <5>4. ChunkOf(f, i) \in Packets /\ ChunkOf(f, i).file = f
          BY DEF ChunkOf, Packets
        <5> QED
          BY <2>3, <5>2, <5>3, <5>4, CheckIfIdleSends
      <4>2. CASE ~ (uploads_progress[f] # Absent /\ uploads_progress[f] + 1 \in Chunks)
        <5>1. CheckIfIdle(socket, <<>>)
          BY <1>3, <4>2 DEF UploadChunkSent
        <5> QED
          BY <1>4, <5>1, CheckIfIdleSends
      <4> QED
        BY <4>1, <4>2
    <3> QED
      BY <1>0, <3>1, <3>2, <3>3
  <2> QED
    BY <2>1, <2>2, <2>3
<1> QED
  BY <1>1, <1>2, <1>3, <1>5 DEF IOStep

-----------------------------------------------------------------------------
\* The shutdown is no chunk: without it the wire holds what it held.
LEMMA ShutdownReadSent ==
  ASSUME WireOK, ServerOK, SentInv, NEW c \in Conns, ServerReads(c),
         Head(to_server[c]) = End, \A f \in Uploads : Counts(f)
  PROVE  SentInv' /\ \A f \in Uploads : Unsent(f) => Unsent(f)'
<1>1. PICK s \in Seq(Packets) : s = to_server[c]
  BY DEF WireOK
<1>2. /\ s # <<>> /\ Head(s).file = NoFile
      /\ to_server' = [to_server EXCEPT ![c] = Tail(s)]
      /\ Server!Shutdown(c)
      /\ UNCHANGED <<closed, socket>>
  BY <1>1 DEF ServerReads, End, client_vars, conn_vars
<1>3. /\ UNCHANGED <<offered, upload_files, received>> /\ OpenedFirst'
      /\ UNCHANGED stream
  BY <1>2, OtherServerStepKeeps
     DEF OtherServerStep, Server!SessionStep, Server!Shutdown
<1>4. ASSUME NEW f \in Uploads, NEW d \in Conns PROVE Stays(d, f) /\ SameSession(d, f)
  <2>1. Head(s).file # f
    BY <1>2, FileTransferAssumption DEF Uploads, Server!Uploads
  <2>2. to_server'[d] = IF d = c THEN Tail(s) ELSE to_server[d]
    BY <1>2 DEF WireOK
  <2>3. Stays(d, f)
    BY <1>1, <1>2, <2>1, <2>2, TailOther DEF Stays
  <2>4. SameSession(d, f)
    BY <1>2, <1>3 DEF SameSession, Open
  <2> QED
    BY <2>3, <2>4
<1> QED
  BY <1>3, <1>4, QuietStep DEF Quiet

LEMMA ServerStepSent ==
  ASSUME WireOK, ServerOK, ServerOK', ClientOK, SentInv,
         NEW c \in Conns, ServerStep(c) \/ ServerConnLost(c)
  PROVE  SentInv' /\ RestsUnlessSent
<1>1. UNCHANGED <<closed, socket, uploads_progress, writing>>
  BY DEF ServerStep, ServerAuth, ServerReads, ServerShutdownDone, ServerConnLost, wire_vars,
         client_vars, conn_vars, transfer_vars
<1>2. \A f \in Uploads : Counts(f)
  BY <1>1 DEF Counts
<1>3. stream \in [Conns -> {"none", "open", "closed"}]
  BY DEF ServerOK, Server!TypeOK
<1>4. CASE ServerAuth(c)
  <2>1. UNCHANGED to_server /\ Server!SessionStep(c)
    BY <1>4 DEF ServerAuth, wire_vars, Server!SessionStep
  <2>2. UNCHANGED stream
    BY <1>4 DEF ServerAuth, Server!SessionAuth
  <2> QED
    BY <1>1, <1>2, <2>1, <2>2, OtherStepSent, CountsRest DEF OtherServerStep
<1>5. CASE ServerShutdownDone(c) \/ ServerConnLost(c)
  <2>1. Server!SessionStep(c) /\ ServerDrops(c)
    BY <1>5 DEF ServerShutdownDone, ServerConnLost, Server!SessionStep
  <2>2. Server!ShutdownDone(c) \/ Server!ConnLost(c)
    BY <1>5 DEF ServerShutdownDone, ServerConnLost
  <2>3. /\ stream'[c] # "open"
        /\ \A d \in Conns : stream'[d] = "open" => stream[d] = "open"
    BY <1>3, <2>2 DEF Server!ShutdownDone, Server!ConnLost
  <2> QED
    BY <1>1, <1>2, <2>1, <2>3, ServerDropsSent, CountsRest
<1>7. CASE ServerReads(c) /\ Head(to_server[c]) = End
  BY <1>2, <1>7, ShutdownReadSent, CountsRest
<1>6. CASE ServerReads(c) /\ Head(to_server[c]) # End
  BY <1>2, <1>6, ServerReadsSent, CountsRest
<1> QED
  BY <1>4, <1>5, <1>6, <1>7 DEF ServerStep

LEMMA StepSent ==
  ASSUME WireOK, ServerOK, ServerOK', ClientOK, UploadCalls, SentInv, [Next]_vars
  PROVE  SentInv' /\ RestsUnlessSent
<1>0. ASSUME OtherServerStep, UNCHANGED <<stream, to_server>>, closed \subseteq closed',
             UNCHANGED socket \/ socket' = NoConn,
             \A f \in Uploads : Counts(f)
      PROVE  SentInv' /\ RestsUnlessSent
  BY <1>0, OtherStepSent, CountsRest
<1>1. ASSUME NEW w \in Workers, UserStep(w) PROVE SentInv' /\ RestsUnlessSent
  <2>1. UNCHANGED <<server_vars, wire_vars, conn_vars, transfer_vars>>
    BY <1>1 DEF UserStep, StartUpload, StartDownload, StartStop
  <2> QED
    BY <1>0, <2>1 DEF OtherServerStep, server_vars, wire_vars, conn_vars, transfer_vars, Counts
<1>2. ASSUME NEW w \in Workers, WorkerStep(w) PROVE SentInv' /\ RestsUnlessSent
  BY <1>2, WorkerStepSent
<1>3. CASE LoggedOutChecks \/ LoggedOutCleans \/ CleanerFreesSocket
  <2>1. /\ UNCHANGED <<server_vars, to_server, transfer_vars>>
        /\ UNCHANGED socket \/ socket' = NoConn
        /\ closed \subseteq closed'
    BY <1>3 DEF LoggedOutChecks, LoggedOutCleans, CleanerFreesSocket, CleanConnection,
                ClosesSocket, wire_vars
  <2> QED
    BY <1>0, <2>1 DEF OtherServerStep, server_vars, transfer_vars, Counts
<1>4. CASE CleanerClears
  <2>1. UNCHANGED <<server_vars, to_server, socket, closed>>
    BY <1>4 DEF CleanerClears, wire_vars
  <2>2. \A f \in Uploads : Counts(f)
    BY <1>4, UploadNumbers DEF CleanerClears, Counts
  <2> QED
    BY <1>0, <2>1, <2>2 DEF OtherServerStep, server_vars
<1>5. CASE IOStep
  BY <1>5, IOStepSent
<1>6. ASSUME NEW c \in Conns, ServerStep(c) \/ ServerConnLost(c)
      PROVE  SentInv' /\ RestsUnlessSent
  BY <1>6, ServerStepSent
<1>7. ASSUME NEW k \in Chains, ServerChain(k) PROVE SentInv' /\ RestsUnlessSent
  <2>1. UNCHANGED stream
    BY <1>7 DEF ServerChain, Server!ChainStep, Server!HandleDownloadChunkSent,
       Server!DownloadStopped, Server!DownloadChunkSent, Server!DownloadEnds,
       Server!DownloadUsesFreed, Server!DownloadWriteFails, Server!session_vars
  <2> QED
    BY <1>0, <1>7, <2>1
       DEF OtherServerStep, ServerChain, client_vars, conn_vars, transfer_vars, Counts
<1>8. ASSUME NEW f \in Files, ServerSaver(f) PROVE SentInv' /\ RestsUnlessSent
  <2>1. UNCHANGED stream
    BY <1>8 DEF ServerSaver, Server!SaverStep, Server!SaverOpens, Server!SaverWrites,
       Server!SaverFails, Server!session_vars
  <2> QED
    BY <1>0, <1>8, <2>1
       DEF OtherServerStep, ServerSaver, wire_vars, client_vars, conn_vars, transfer_vars, Counts
<1>10. CASE LogOut
  <2>1. OtherServerStep /\ UNCHANGED stream
    BY <1>10 DEF LogOut, OtherServerStep, Server!CleanUserSession, server_vars
  <2> QED
    BY <1>0, <1>10, <2>1 DEF LogOut, wire_vars, transfer_vars, Counts
<1>9. CASE UNCHANGED vars
  <2>1. UNCHANGED <<server_vars, wire_vars, conn_vars, transfer_vars>>
    BY <1>9 DEF vars, client_vars
  <2> QED
    BY <1>0, <2>1 DEF OtherServerStep, server_vars, wire_vars, conn_vars, transfer_vars, Counts
<1> QED
  BY <1>1, <1>2, <1>3, <1>4, <1>5, <1>6, <1>7, <1>8, <1>9, <1>10 DEF Next, CleanerStep

-----------------------------------------------------------------------------
\* An id is given out by the request of a call, and never taken back.
LEMMA OfferedMoves ==
  ASSUME [Next]_vars
  PROVE  \/ UNCHANGED offered
         \/ \E v \in Workers : UploadInitiated(v) /\ offered' = offered \cup {call[v].file}
<1>1. CASE UNCHANGED server_vars
  BY <1>1 DEF server_vars
<1>2. ASSUME NEW w \in Workers, WorkerStep(w)
      PROVE  \/ UNCHANGED offered
             \/ UploadInitiated(w) /\ offered' = offered \cup {call[w].file}
  <2>1. CASE UploadInitiated(w)
    BY <2>1 DEF UploadInitiated, Server!InitUploadFile
  <2>2. CASE DownloadFound(w) \/ DownloadAnswered(w) \/ StopDone(w) \/ \E c \in Conns : Connect(w, c)
    BY <2>2 DEF DownloadFound, DownloadAnswered, StopDone, Connect, Server!InitDownloadFile,
       Server!DownloadCrashes, Server!DownloadUnreadable, Server!AlreadyDownloading,
       Server!AddDownloadFile, Server!StopFileTransmission, Server!Accept, Server!upload_vars
  <2>3. CASE UNCHANGED server_vars
    BY <2>3 DEF server_vars
  <2> QED
    BY <1>2, <2>1, <2>2, <2>3 DEF WorkerStep, UploadRefused, EmptyFile, EnterUpload,
                                  Upload, GetFileInfo, EnterDownload, DownloadRefused,
                                  StopRefused, EraseStopped, CheckSocket, Connected,
                                  ThreadsRun, ConnectFails, ConnectFreed
<1>3. ASSUME NEW c \in Conns, ServerStep(c) \/ ServerConnLost(c) PROVE UNCHANGED offered
  BY <1>3 DEF ServerStep, ServerAuth, ServerReads, ServerShutdownDone, ServerConnLost,
              Server!SessionAuth, Server!Answers, Server!Shutdown, Server!ShutdownDone,
              Server!ConnLost, Server!ChunkPacket, Server!ChunkSaved, Server!SaveFile,
              Server!SaveFileFails, Server!ChunkRefused, Server!vars, Server!upload_vars
<1>4. ASSUME NEW k \in Chains, ServerChain(k) PROVE UNCHANGED offered
  BY <1>4 DEF ServerChain, Server!ChainStep, Server!HandleDownloadChunkSent,
     Server!DownloadStopped, Server!DownloadChunkSent, Server!DownloadEnds,
     Server!DownloadUsesFreed, Server!DownloadWriteFails, Server!upload_vars
<1>5. ASSUME NEW f \in Files, ServerSaver(f) PROVE UNCHANGED offered
  BY <1>5 DEF ServerSaver, Server!SaverStep, Server!SaverOpens, Server!SaverWrites,
     Server!SaverFails, Server!upload_vars
<1>6. ASSUME NEW w \in Workers, UserStep(w) PROVE UNCHANGED server_vars
  BY <1>6 DEF UserStep, StartUpload, StartDownload, StartStop
<1>7. CASE LoggedOutChecks \/ LoggedOutCleans \/ IOStep \/ CleanerStep \/ UNCHANGED vars
  BY <1>1, <1>7 DEF LoggedOutChecks, LoggedOutCleans, IOStep, CleanerStep,
                    UploadChunkSent, UploadWriteFails, UploadFailIgnored, RecvChunk,
                    RecvEnd, RecvEndIgnored, CleanerFreesSocket, CleanerClears, vars
<1>8. CASE LogOut
  BY <1>1, <1>8 DEF LogOut, Server!CleanUserSession, Server!upload_vars
<1> QED
  BY <1>1, <1>2, <1>3, <1>4, <1>5, <1>6, <1>7, <1>8 DEF Next

\* The stages of a call to upload, in their order.
UploadMove(w, f) ==
  \/ Uploading(w, f) /\ call'[w].stage = call[w].stage
  \/ Uploading(w, f) /\ call[w].stage \in Early /\ call'[w].stage \in Early
  \/ Uploading(w, f) /\ UploadInitiated(w) /\ call'[w].stage = "enter"
  \/ Uploading(w, f) /\ EnterUpload(w) /\ call'[w].stage = "send"
  \/ StartUpload(w, f) /\ call'[w].stage = "socket"

LEMMA CallUnchanged ==
  ASSUME NEW w, NEW f, call'[w] = call[w], Uploading(w, f)'
  PROVE  UploadMove(w, f)
BY DEF UploadMove, Uploading

LEMMA WorkerMoves ==
  ASSUME WireOK, NEW v \in Workers, WorkerStep(v), NEW w \in Workers, NEW f, Uploading(w, f)'
  PROVE  UploadMove(w, f) /\ ~ Upload(w)
<1>1. NoCall.op = "none"
  BY DEF NoCall, Call
<1>2. call \in [Workers -> [op : Ops, file : Files \cup {NoFile}, stage : Stages]]
  BY DEF WireOK
<1>3. ~ Upload(w)
  BY <1>1, <1>2 DEF Upload, Ends, Uploading
<1>4. CASE v # w
  <2>1. call'[w] = call[w]
    BY <1>2, <1>4 DEF WorkerStep, UploadInitiated, UploadRefused, EmptyFile, EnterUpload,
                      Upload, GetFileInfo, EnterDownload, DownloadFound, DownloadRefused,
                      DownloadAnswered, StopDone, StopRefused, EraseStopped, CheckSocket,
                      Connect, Connected, ThreadsRun, ConnectFails, ConnectFreed, Goes,
                      Ends
  <2> QED
    BY <1>3, <2>1, CallUnchanged
<1>5. CASE v = w
  <2>1. ASSUME Ends(w) PROVE FALSE
    BY <1>1, <1>2, <2>1 DEF Ends, Uploading
  <2>2. ASSUME NEW stage, Goes(w, stage)
        PROVE  Uploading(w, f) /\ call'[w].stage = stage
    BY <1>2, <2>2 DEF Goes, Uploading
  <2>3. CASE UploadInitiated(w)
    BY <1>3, <2>2, <2>3 DEF UploadInitiated, UploadMove
  <2>4. CASE EnterUpload(w)
    BY <1>3, <2>2, <2>4 DEF EnterUpload, UploadMove
  <2>5. CASE CheckSocket(w)
    BY <1>3, <2>2, <2>5 DEF CheckSocket, NeedsSocket, UploadMove, Early
  <2>6. CASE Connected(w) \/ ThreadsRun(w) \/ \E c \in Conns : Connect(w, c)
    BY <1>3, <2>2, <2>6 DEF Connect, Connected, ThreadsRun, UploadMove, Early
  <2>7. CASE GetFileInfo(w) \/ EnterDownload(w) \/ DownloadFound(w) \/ StopDone(w)
    BY <2>1, <2>2, <2>7 DEF GetFileInfo, EnterDownload, DownloadFound, StopDone, At, Uploading
  <2> QED
    BY <1>3, <1>5, <2>1, <2>3, <2>4, <2>5, <2>6, <2>7
       DEF WorkerStep, UploadRefused, EmptyFile, Upload, DownloadRefused,
           DownloadAnswered, StopRefused, EraseStopped, ConnectFails, ConnectFreed
<1> QED
  BY <1>4, <1>5

LEMMA CallsMove ==
  ASSUME WireOK, [Next]_vars, NEW w \in Workers, NEW f, Uploading(w, f)'
  PROVE  UploadMove(w, f) /\ ~ Upload(w)
<1>0. call \in [Workers -> [op : Ops, file : Files \cup {NoFile}, stage : Stages]]
      /\ NoCall.op = "none"
  BY DEF WireOK, NoCall, Call
<1>1. ~ Upload(w)
  BY <1>0 DEF Upload, Ends, Uploading
<1>2. ASSUME NEW v \in Workers, UserStep(v) PROVE UploadMove(w, f)
  <2>1. CASE v # w
    <3>1. call'[w] = call[w]
      BY <1>0, <1>2, <2>1 DEF UserStep, StartUpload, StartDownload, StartStop
    <3> QED
      BY <3>1, CallUnchanged
  <2>2. CASE v = w
    <3>1. PICK g \in Files : StartUpload(w, g) \/ StartDownload(w, g) \/ StartStop(w, g)
      BY <1>2, <2>2 DEF UserStep
    <3>2. CASE StartUpload(w, g)
      <4>1. call'[w] = Call("upload", g, "socket")
        BY <1>0, <3>2 DEF StartUpload
      <4>2. g = f /\ call'[w].stage = "socket"
        BY <4>1 DEF Call, Uploading
      <4> QED
        BY <3>2, <4>2 DEF UploadMove
    <3>3. CASE StartDownload(w, g) \/ StartStop(w, g)
      <4>1. call'[w].op # "upload"
        BY <1>0, <3>3 DEF StartDownload, StartStop, Call
      <4> QED
        BY <4>1 DEF Uploading
    <3> QED
      BY <3>1, <3>2, <3>3
  <2> QED
    BY <2>1, <2>2
<1>3. ASSUME NEW v \in Workers, WorkerStep(v) PROVE UploadMove(w, f)
  BY <1>3, WorkerMoves
<1>4. ASSUME UNCHANGED call PROVE UploadMove(w, f)
  <2>1. call'[w] = call[w]
    BY <1>4
  <2> QED
    BY <2>1, CallUnchanged
<1>5. CASE LogOut \/ LoggedOutChecks \/ LoggedOutCleans \/ IOStep \/ CleanerStep
  BY <1>1, <1>4, <1>5 DEF LoggedOutChecks, LogOut, LoggedOutCleans, IOStep, CleanerStep,
                          UploadChunkSent, UploadWriteFails, UploadFailIgnored, RecvChunk,
                          RecvEnd, RecvEndIgnored, CleanerFreesSocket, CleanerClears
<1>6. CASE UNCHANGED client_vars \/ UNCHANGED vars
  BY <1>1, <1>4, <1>6 DEF client_vars, vars
<1>7. ASSUME NEW c \in Conns, ServerStep(c) \/ ServerConnLost(c) PROVE UNCHANGED client_vars
  BY <1>7 DEF ServerStep, ServerAuth, ServerReads, ServerShutdownDone, ServerConnLost,
     client_vars
<1>8. ASSUME NEW k \in Chains, ServerChain(k) PROVE UNCHANGED client_vars
  BY <1>8 DEF ServerChain
<1>9. ASSUME NEW g \in Files, ServerSaver(g) PROVE UNCHANGED client_vars
  BY <1>9 DEF ServerSaver
<1> QED
  BY <1>1, <1>2, <1>3, <1>5, <1>6, <1>7, <1>8, <1>9 DEF Next

\* One call at a time is about an upload.
LEMMA MovesAlone ==
  ASSUME WireOK, UploadCalls, [Next]_vars,
         NEW v \in Workers, NEW w \in Workers, NEW f \in Files,
         Uploading(v, f)', Uploading(w, f)'
  PROVE  v = w
<1>1. UploadMove(v, f) /\ UploadMove(w, f)
  BY CallsMove
<1>2. CASE Uploading(v, f) /\ Uploading(w, f)
  BY <1>2 DEF UploadCalls
<1>3. ASSUME NEW u \in Workers, NEW x \in Workers, StartUpload(u, f), Uploading(x, f)', x # u
      PROVE  FALSE
  <2>1. call'[x] = call[x]
    BY <1>3 DEF StartUpload, WireOK
  <2>2. call[x].file # f
    BY <1>3 DEF StartUpload
  <2> QED
    BY <1>3, <2>1, <2>2 DEF Uploading
<1> QED
  BY <1>1, <1>2, <1>3 DEF UploadMove

LEMMA StepUploadCalls ==
  ASSUME WireOK, ServerOK, ServerOK', ClientOK, UploadCalls, SentInv, [Next]_vars
  PROVE  UploadCalls'
<1> SUFFICES ASSUME NEW w \in Workers, NEW f \in Files, Uploading(w, f)'
             PROVE  /\ f \in Uploads
                    /\ call'[w].stage \in Early \cup Late
                    /\ call'[w].stage \in Early => f \notin offered'
                    /\ call'[w].stage \in Late =>
                         f \in offered' /\ Unsent(f)' /\ writing'[f] = Absent
                    /\ call'[w].stage = "send" => uploads_progress'[f] \in {0, Absent}
  BY MovesAlone DEF UploadCalls
<1>1. UploadMove(w, f) /\ ~ Upload(w)
  BY CallsMove
<1>2. RestsUnlessSent
  BY StepSent
<1>3. ASSUME NEW v \in Workers, UploadInitiated(v), call[v].file = f PROVE Uploading(v, f)
  BY <1>3 DEF UploadInitiated, At, Uploading
<1>4. \/ UNCHANGED offered
      \/ \E v \in Workers : UploadInitiated(v) /\ offered' = offered \cup {call[v].file}
  BY OfferedMoves
<1>5. ASSUME Uploading(w, f), Unsent(f), writing[f] = Absent PROVE Rests(f)
  <2>1. f \in Uploads /\ (\A v \in Workers : Uploading(v, f) => v = w)
    BY <1>5 DEF UploadCalls
  <2>3. \A v \in Workers : Upload(v) /\ call[v].file = f => Uploading(v, f)
    BY DEF Upload, At, Uploading
  <2>4. ~ Sending(f)
    BY <1>1, <2>1, <2>3 DEF Sending
  <2> QED
    BY <1>2, <1>5, <2>1, <2>4 DEF RestsUnlessSent
<1>6. ASSUME f \notin offered, f \in offered' PROVE UploadInitiated(w) \/ ~ Uploading(w, f)
  <2>1. PICK v \in Workers : UploadInitiated(v) /\ call[v].file = f
    BY <1>4, <1>6
  <2> QED
    BY <1>3, <2>1 DEF UploadCalls
<1>7. "send" \notin Early /\ "enter" \notin Early /\ Early \cap Late = {}
      /\ "send" \in Late /\ "enter" \in Late /\ "socket" \in Early /\ "request" \in Early
      /\ Late = {"enter", "send"}
  BY DEF Early, Late
<1>8. UploadInitiated(w) => call[w].stage = "request" /\ call'[w].stage = "enter"
  BY DEF UploadInitiated, At, Goes, WireOK
<1>9. CASE Uploading(w, f) /\ call[w].stage \in Early /\ call'[w].stage \in Early
  BY <1>6, <1>7, <1>8, <1>9 DEF UploadCalls
<1>10. CASE Uploading(w, f) /\ call[w].stage \in Late /\ call'[w].stage = call[w].stage
  <2>1. f \in Uploads /\ f \in offered /\ Unsent(f) /\ writing[f] = Absent
        /\ (call[w].stage = "send" => uploads_progress[f] \in {0, Absent})
    BY <1>10 DEF UploadCalls
  <2>2. Rests(f) /\ f \in offered'
    BY <1>4, <1>5, <1>10, <2>1
  <2> QED
    BY <1>7, <1>10, <2>1, <2>2 DEF Rests
<1>11. CASE Uploading(w, f) /\ UploadInitiated(w) /\ call'[w].stage = "enter"
  <2>1. f \in Uploads /\ f \notin offered
    BY <1>7, <1>8, <1>11 DEF UploadCalls
  <2>2. Unsent(f) /\ writing[f] = Absent
    BY <2>1 DEF SentInv, FileSent
  <2>3. Rests(f)
    BY <1>5, <1>11, <2>2
  <2>4. call[w].file = f /\ f \in offered'
    BY <1>11 DEF Uploading, UploadInitiated, Server!InitUploadFile
  <2> QED
    BY <1>7, <1>11, <2>1, <2>3, <2>4 DEF Rests
<1>12. CASE Uploading(w, f) /\ EnterUpload(w) /\ call'[w].stage = "send"
  <2>1. call[w].stage = "enter" /\ call[w].file = f /\ uploads_progress'[f] = 0
    BY <1>12 DEF EnterUpload, At, Uploading, ClientOK
  <2>2. f \in Uploads /\ f \in offered /\ Unsent(f) /\ writing[f] = Absent
    BY <1>7, <1>12, <2>1 DEF UploadCalls
  <2>3. Rests(f) /\ f \in offered'
    BY <1>4, <1>5, <1>12, <2>2
  <2> QED
    BY <1>7, <1>12, <2>1, <2>2, <2>3 DEF Rests
<1>13. CASE StartUpload(w, f) /\ call'[w].stage = "socket"
  <2>1. f \in Uploads /\ f \notin offered /\ offered' = offered
    BY <1>13 DEF StartUpload, server_vars
  <2> QED
    BY <1>7, <1>13, <2>1
<1>14. Uploading(w, f) => call[w].stage \in Early \cup Late
  BY DEF UploadCalls
<1> QED
  BY <1>1, <1>7, <1>9, <1>10, <1>11, <1>12, <1>13, <1>14 DEF UploadMove

LEMMA InitSent == Init => UploadCalls /\ SentInv
<1> SUFFICES ASSUME Init PROVE UploadCalls /\ SentInv
  OBVIOUS
<1>1. UploadCalls
  BY DEF Init, UploadCalls, Uploading, NoCall, Call
<1>2. OpenedFirst
  BY FileTransferAssumption DEF Init, Server!Init, OpenedFirst
<1>3. ASSUME NEW f \in Uploads PROVE FileSent(f)
  <2>1. f \in Files /\ f \notin Stored /\ f \notin offered /\ Absent = -1
    BY <1>3 DEF Init, Server!Init, Uploads, Server!Uploads, Absent
  <2>2. received[f] = {} /\ uploads_progress[f] = Absent /\ writing[f] = Absent
        /\ \A c \in Conns : upload_files[c] = {} /\ to_server[c] = <<>>
    BY <2>1 DEF Init, Server!Init
  <2>3. Unsent(f)
    BY <2>2, NothingHeld DEF Unsent
  <2>4. 0 \in 0 .. NumChunks /\ received[f] = 0 .. 0 - 1
    BY <2>2, FileTransferAssumption
  <2> QED
    BY <2>2, <2>3, <2>4 DEF FileSent
<1> QED
  BY <1>1, <1>2, <1>3 DEF SentInv

\* Whatever calls overlap, are stopped or cut off by a log out or a lost
\* connection, the chunks of an upload come to the server in order and never
\* ahead of what the client has counted (handle_upload_chunk_sent, handle_packet).
THEOREM UploadAlwaysInStep == Spec => []UploadInStep
<1>1. Spec => [](UploadCalls /\ SentInv)
  BY AlwaysTyped, InitSent, StepUploadCalls, StepSent, PTL DEF Spec
<1> QED
  BY <1>1, SentInStep, PTL
=============================================================================
