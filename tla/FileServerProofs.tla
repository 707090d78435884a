--------------------------- MODULE FileServerProofs ---------------------------
(***************************************************************************)
(* Proofs about FileServer, for any files, connections, downloads and      *)
(* number of chunks, whatever packets and requests come and in what order. *)
(***************************************************************************)
EXTENDS FileServer, TLAPS

\* An upload belongs to one session, and rows are of files that were offered.
OneUploader ==
  /\ \A c, d \in Conns : \A f \in upload_files[c] \cap upload_files[d] : c = d
  /\ \A c \in Conns : upload_files[c] \subseteq offered
  /\ files_table \subseteq Stored \cup offered

\* A live chain has a connection, a file that is on disk, and from the chunk it
\* is sending on all the chunks up to some number.
ChainsHold ==
  \A k \in Chains : Live(k) =>
    /\ chain[k].conn \in Conns
    /\ chain[k].file \in Files
    /\ content[chain[k].file] > 0
    /\ ("restart" \notin world /\ chain[k].status = "writing") =>
         \E n \in 1 .. NumChunks : /\ chain[k].at < n
                                   /\ chain[k].chunks = chain[k].at .. n - 1

IInv ==
  TypeOK /\ OneUploader /\ TableMatchesDisk /\ ChainsHold /\ OneChainSendsAll

-----------------------------------------------------------------------------
LEMMA InitIInv == Init => IInv
<1> SUFFICES ASSUME Init PROVE IInv
  OBVIOUS
<1> USE FileServerAssumption DEF Init
<1>1. TypeOK
  <2>1. NoChain \in ChainRecords
    BY DEF NoChain, ChainRecords, Chunks
  <2>2. chain \in [Chains -> ChainRecords]
    BY <2>1
  <2>3. downloads_progress \in [Conns -> [Files -> Nat \cup {Absent}]]
    OBVIOUS
  <2>4. /\ received \in [Files -> SUBSET Chunks]
        /\ content \in [Files -> 0 .. Full \cup {Absent}]
    BY DEF Full, Absent, Chunks
  <2>5. shutdowns \in [Conns -> 0 .. MaxShutdowns]
    OBVIOUS
  <2> QED
    BY <2>2, <2>3, <2>4, <2>5 DEF TypeOK
<1>2. OneUploader /\ TableMatchesDisk
  BY DEF OneUploader, TableMatchesDisk, Absent, Full
<1>3. ChainsHold /\ OneChainSendsAll
  BY DEF ChainsHold, OneChainSendsAll, Live, NoChain
<1> QED
  BY <1>1, <1>2, <1>3 DEF IInv

\* The steps about connections touch neither the files nor the downloads.
LEMMA SessionStepIInv ==
  ASSUME IInv, NEW c \in Conns, SessionStep(c)
  PROVE  IInv'
<1>1. UNCHANGED <<upload_vars, download_vars, disk_vars, handler, world>>
  BY DEF SessionStep, Accept, SessionAuth, Shutdown, ShutdownDone, ConnLost
<1>2. TypeOK'
  <2>1. CASE Shutdown(c)
    <3>1. \A n \in 0 .. MaxShutdowns :
            (IF n < MaxShutdowns THEN n + 1 ELSE n) \in 0 .. MaxShutdowns
      BY FileServerAssumption
    <3>2. shutdowns' \in [Conns -> 0 .. MaxShutdowns]
      BY <2>1, <3>1 DEF Shutdown, IInv, TypeOK
    <3> QED
      BY <2>1, <3>2 DEF Shutdown, IInv, TypeOK, upload_vars, download_vars, disk_vars
  <2>2. CASE ShutdownDone(c)
    <3>1. shutdowns[c] - 1 \in 0 .. MaxShutdowns
      BY <2>2, FileServerAssumption DEF ShutdownDone, IInv, TypeOK
    <3>2. /\ shutdowns' \in [Conns -> 0 .. MaxShutdowns]
          /\ stream' \in [Conns -> {"none", "open", "closed"}]
          /\ reading' \in SUBSET Conns
          /\ user' \in SUBSET Conns
          /\ users_file_sessions' \in Conns \cup {NoConn}
          /\ crashed' \in BOOLEAN
      BY <2>2, <3>1 DEF ShutdownDone, IInv, TypeOK
    <3> QED
      BY <1>1, <3>2 DEF IInv, TypeOK, upload_vars, download_vars, disk_vars
  <2>3. CASE Accept(c) \/ SessionAuth(c) \/ ConnLost(c)
    <3>1. /\ stream' \in [Conns -> {"none", "open", "closed"}]
          /\ reading' \in SUBSET Conns
          /\ user' \in SUBSET Conns
          /\ users_file_sessions' \in Conns \cup {NoConn}
          /\ UNCHANGED <<shutdowns, crashed>>
      BY <2>3 DEF IInv, TypeOK, Accept, SessionAuth, Answers, ConnLost
    <3> QED
      BY <1>1, <3>1 DEF IInv, TypeOK, upload_vars, download_vars, disk_vars
  <2> QED
    BY <2>1, <2>2, <2>3 DEF SessionStep
<1>3. OneUploader' /\ TableMatchesDisk'
  BY <1>1 DEF IInv, OneUploader, TableMatchesDisk, upload_vars, download_vars, disk_vars
<1>4. ChainsHold' /\ OneChainSendsAll'
  BY <1>1 DEF IInv, ChainsHold, OneChainSendsAll, Live, ChainOf, Progress,
              upload_vars, download_vars, disk_vars
<1> QED
  BY <1>2, <1>3, <1>4 DEF IInv

LEMMA CleanUserSessionIInv ==
  ASSUME IInv, CleanUserSession
  PROVE  IInv'
<1>1. /\ UNCHANGED <<stream, reading, shutdowns, user, upload_vars, download_vars, disk_vars,
                     handler, crashed, world>>
      /\ users_file_sessions' = NoConn
  BY DEF CleanUserSession
<1>2. TypeOK'
  BY <1>1 DEF IInv, TypeOK, upload_vars, download_vars, disk_vars
<1>3. OneUploader' /\ TableMatchesDisk'
  BY <1>1 DEF IInv, OneUploader, TableMatchesDisk, upload_vars, disk_vars
<1>4. ChainsHold' /\ OneChainSendsAll'
  BY <1>1 DEF IInv, ChainsHold, OneChainSendsAll, Live, ChainOf, Progress,
              download_vars, disk_vars
<1> QED
  BY <1>2, <1>3, <1>4 DEF IInv

\* What leaves the chains, their counters and the disk alone keeps what is said
\* of them.
LEMMA ChainsKept ==
  ASSUME ChainsHold, OneChainSendsAll,
         UNCHANGED <<downloads_progress, chain, content, world>>
  PROVE  ChainsHold' /\ OneChainSendsAll'
BY DEF ChainsHold, OneChainSendsAll, Live, ChainOf, Progress

LEMMA InitUploadFileIInv ==
  ASSUME IInv, NEW f \in Files, InitUploadFile(f)
  PROVE  IInv'
<1> USE FileServerAssumption
<1>1. TypeOK'
  BY DEF IInv, TypeOK, InitUploadFile, Uploads, session_vars, download_vars, disk_vars
<1>2. OneUploader'
  BY DEF IInv, TypeOK, OneUploader, InitUploadFile
<1>3. TableMatchesDisk'
  BY DEF IInv, TypeOK, OneUploader, TableMatchesDisk, InitUploadFile, Uploads, disk_vars
<1>4. ChainsHold' /\ OneChainSendsAll'
  BY ChainsKept DEF IInv, InitUploadFile, download_vars, disk_vars
<1> QED
  BY <1>1, <1>2, <1>3, <1>4 DEF IInv

LEMMA ChunkPacketIInv ==
  ASSUME IInv, NEW c \in Conns, NEW f \in Files, NEW i \in Chunks, ChunkPacket(c, f, i)
  PROVE  IInv'
<1> USE FileServerAssumption DEF IInv
<1>1. CASE ChunkSaved(c, f, i)
  <2>1. TypeOK'
    BY <1>1 DEF TypeOK, ChunkSaved, session_vars, download_vars, disk_vars
  <2>2. OneUploader'
    BY <1>1 DEF OneUploader, ChunkSaved
  <2>3. TableMatchesDisk'
    BY <1>1 DEF TypeOK, TableMatchesDisk, ChunkSaved, disk_vars
  <2>4. ChainsHold' /\ OneChainSendsAll'
    BY <1>1, ChainsKept DEF ChunkSaved, download_vars, disk_vars
  <2> QED
    BY <2>1, <2>2, <2>3, <2>4
<1>2. CASE SaveFile(c, f, i)
  <2>1. TypeOK'
    BY <1>2 DEF TypeOK, SaveFile, session_vars, download_vars
  <2>2. OneUploader'
    BY <1>2 DEF TypeOK, OneUploader, SaveFile
  <2>3. TableMatchesDisk'
    <3> SUFFICES ASSUME NEW g \in Files
                 PROVE  /\ g \in files_table' =>
                             /\ received'[g] = Chunks
                             /\ \A d \in Conns : g \notin upload_files'[d]
                        /\ (content'[g] # Absent \/ g \in saver') => g \in files_table'
                        /\ (g \in files_table' /\ "disk" \notin world')
                             => (content'[g] = Full \/ g \in saver')
      BY DEF TableMatchesDisk, Chunks, Absent
    <3>1. CASE g = f
      BY <1>2, <3>1 DEF TypeOK, OneUploader, TableMatchesDisk, SaveFile, Whole
    <3>2. CASE g # f
      BY <1>2, <3>2 DEF TypeOK, TableMatchesDisk, SaveFile
    <3> QED
      BY <3>1, <3>2
  <2>4. ChainsHold' /\ OneChainSendsAll'
    BY <1>2, ChainsKept DEF SaveFile, download_vars
  <2> QED
    BY <2>1, <2>2, <2>3, <2>4
<1>3. CASE SaveFileFails(c, f, i)
  <2>1. TypeOK'
    BY <1>3 DEF TypeOK, SaveFileFails, download_vars, disk_vars
  <2>2. OneUploader'
    BY <1>3 DEF OneUploader, SaveFileFails
  <2>3. TableMatchesDisk'
    BY <1>3 DEF TypeOK, TableMatchesDisk, SaveFileFails, disk_vars
  <2>4. ChainsHold' /\ OneChainSendsAll'
    BY <1>3, ChainsKept DEF SaveFileFails, download_vars, disk_vars
  <2> QED
    BY <2>1, <2>2, <2>3, <2>4
<1>4. CASE ChunkRefused(c, f)
  <2>1. /\ UNCHANGED <<stream, shutdowns, user, users_file_sessions, upload_vars,
                         download_vars, disk_vars, handler, crashed, world>>
        /\ reading' \in SUBSET Conns
    BY <1>4 DEF TypeOK, ChunkRefused, Answers
  <2>2. TypeOK' /\ OneUploader' /\ TableMatchesDisk'
    BY <2>1 DEF TypeOK, OneUploader, TableMatchesDisk, upload_vars, download_vars, disk_vars
  <2>3. ChainsHold' /\ OneChainSendsAll'
    BY <2>1, ChainsKept DEF download_vars, disk_vars
  <2> QED
    BY <2>2, <2>3
<1> QED
  BY <1>1, <1>2, <1>3, <1>4 DEF ChunkPacket

LEMMA SaverStepIInv ==
  ASSUME IInv, NEW f \in Files, SaverStep(f)
  PROVE  IInv'
<1> USE FileServerAssumption DEF IInv
<1>1. /\ UNCHANGED <<session_vars, upload_vars, download_vars, handler, crashed, world>>
      /\ content' \in [Files -> 0 .. Full \cup {Absent}]
      /\ saver' \subseteq saver
      /\ \A g \in Files : content[g] > 0 => content'[g] > 0
  <2>1. CASE SaverOpens(f)
    BY <2>1 DEF TypeOK, SaverOpens, Full, Absent
  <2>2. CASE SaverWrites(f)
    <3>1. /\ content' = [content EXCEPT ![f] = content[f] + 1]
          /\ content[f] + 1 \in 0 .. Full /\ content[f] + 1 > 0
      BY <2>2 DEF SaverWrites, Full
    <3> QED
      BY <2>2, <3>1 DEF TypeOK, SaverWrites
  <2>3. CASE SaverFails(f)
    BY <2>3 DEF TypeOK, SaverFails
  <2> QED
    BY <2>1, <2>2, <2>3 DEF SaverStep
<1>2. TypeOK'
  BY <1>1 DEF TypeOK, session_vars, upload_vars, download_vars
<1>3. OneUploader'
  BY <1>1 DEF OneUploader, upload_vars
<1>4. TableMatchesDisk'
  <2> USE DEF TypeOK, TableMatchesDisk, Full, Absent, upload_vars
  <2>1. CASE SaverOpens(f)
    BY <1>1, <2>1 DEF SaverOpens
  <2>2. CASE SaverWrites(f)
    BY <1>1, <2>2 DEF SaverWrites
  <2>3. CASE SaverFails(f)
    BY <1>1, <2>3 DEF SaverFails
  <2> QED
    BY <2>1, <2>2, <2>3 DEF SaverStep
<1>5. ChainsHold' /\ OneChainSendsAll'
  BY <1>1 DEF ChainsHold, OneChainSendsAll, Live, ChainOf, Progress, download_vars
<1> QED
  BY <1>2, <1>3, <1>4, <1>5

LEMMA DownloadCheckIInv ==
  ASSUME IInv, NEW f \in Files,
         InitDownloadFile(f) \/ DownloadCrashes \/ AlreadyDownloading
  PROVE  IInv'
<1>1. /\ UNCHANGED <<session_vars, upload_vars, download_vars, disk_vars, world>>
      /\ handler' \in Files \cup {NoFile}
      /\ crashed' \in BOOLEAN
  BY DEF IInv, TypeOK, InitDownloadFile, DownloadCrashes, AlreadyDownloading
<1>2. TypeOK'
  BY <1>1 DEF IInv, TypeOK, session_vars, upload_vars, download_vars, disk_vars
<1>3. OneUploader' /\ TableMatchesDisk'
  BY <1>1 DEF IInv, OneUploader, TableMatchesDisk, upload_vars, disk_vars
<1>4. ChainsHold' /\ OneChainSendsAll'
  BY <1>1, ChainsKept DEF IInv, download_vars, disk_vars
<1> QED
  BY <1>2, <1>3, <1>4 DEF IInv

\* Steps of the downloads leave the uploads, the table and the disk alone.
LEMMA UploadsKept ==
  ASSUME IInv, UNCHANGED <<upload_vars, disk_vars, world>>
  PROVE  OneUploader' /\ TableMatchesDisk'
BY DEF IInv, OneUploader, TableMatchesDisk, upload_vars, disk_vars

LEMMA AddDownloadFileIInv ==
  ASSUME IInv, NEW k \in Chains, AddDownloadFile(k)
  PROVE  IInv'
<1> USE FileServerAssumption DEF IInv
<1> DEFINE c == users_file_sessions
           f == handler
           new == [status |-> "writing", conn |-> c, file |-> f,
                   chunks |-> ChunksOf(content[f]), at |-> 0]
<1>1. /\ c \in Conns
      /\ f \in Files
      /\ content[f] \in 1 .. Full
      /\ "restart" \in world \/ \A j \in Chains : ~ ChainOf(j, c, f)
      /\ downloads_progress' = [downloads_progress EXCEPT ![c][f] = 0]
      /\ chain' = [chain EXCEPT ![k] = new]
      /\ handler' = NoFile
      /\ UNCHANGED <<session_vars, upload_vars, disk_vars, crashed, world>>
  BY DEF TypeOK, AddDownloadFile, Full, Absent
<1>2. TypeOK'
  <2>1. new \in ChainRecords
    BY <1>1 DEF ChainRecords, ChunksOf, Chunks
  <2>2. chain' \in [Chains -> ChainRecords]
    BY <1>1, <2>1 DEF TypeOK
  <2>3. downloads_progress' \in [Conns -> [Files -> Nat \cup {Absent}]]
    BY <1>1 DEF TypeOK
  <2> QED
    BY <1>1, <2>2, <2>3 DEF TypeOK, session_vars, upload_vars, disk_vars
<1>3. OneUploader' /\ TableMatchesDisk'
  BY <1>1, UploadsKept
<1>4. /\ chain'[k] = new
      /\ \A j \in Chains : j # k => chain'[j] = chain[j]
  BY <1>1 DEF TypeOK
<1>5. ChainsHold'
  <2> SUFFICES ASSUME NEW j \in Chains, Live(j)'
               PROVE  /\ chain'[j].conn \in Conns
                      /\ chain'[j].file \in Files
                      /\ content'[chain'[j].file] > 0
                      /\ ("restart" \notin world' /\ chain'[j].status = "writing") =>
                           \E n \in 1 .. NumChunks :
                             /\ chain'[j].at < n
                             /\ chain'[j].chunks = chain'[j].at .. n - 1
    BY DEF ChainsHold
  <2>1. CASE j = k
    <3>0. PICK m \in Int : m = content[f]
      BY <1>1 DEF Full
    <3>1. \E n \in 1 .. NumChunks : 2 * (n - 1) < content[f] /\ content[f] <= 2 * n
      <4> DEFINE n == (m + 1) \div 2
      <4>1. m \in 1 .. 2 * NumChunks
        BY <1>1, <3>0 DEF Full
      <4>2. n \in 1 .. NumChunks /\ 2 * (n - 1) < m /\ m <= 2 * n
        BY <4>1
      <4> QED
        BY <3>0, <4>2
    <3>2. PICK n \in 1 .. NumChunks : 2 * (n - 1) < content[f] /\ content[f] <= 2 * n
      BY <3>1
    <3>3. ChunksOf(content[f]) = 0 .. n - 1
      BY <1>1, <3>2 DEF ChunksOf, Chunks
    <3>4. 0 < n
      BY <3>2
    <3>5. \E last \in 1 .. NumChunks :
            /\ chain'[k].at < last
            /\ chain'[k].chunks = chain'[k].at .. last - 1
      BY <1>4, <3>3, <3>4
    <3> QED
      BY <1>1, <1>4, <2>1, <3>5 DEF disk_vars
  <2>2. CASE j # k
    BY <1>1, <1>4, <2>2 DEF ChainsHold, Live, disk_vars
  <2> QED
    BY <2>1, <2>2
<1>6. OneChainSendsAll'
  <2> SUFFICES ASSUME "restart" \notin world', NEW j \in Chains, Live(j)'
               PROVE  /\ \A i \in Chains :
                           ChainOf(i, chain[j].conn, chain[j].file)' => i = j
                      /\ (chain[j].status = "writing" /\ Progress(j) # Absent)'
                           => (Progress(j) = chain[j].at)'
                      /\ (chain[j].status = "last" => chain[j].chunks = {})'
    BY DEF OneChainSendsAll, Absent
  <2>1. \A i \in Chains : ~ ChainOf(i, c, f)
    BY <1>1
  <2>2. CASE j = k
    BY <1>1, <1>4, <2>1, <2>2 DEF TypeOK, ChainOf, Live, Progress
  <2>3. CASE j # k
    <3>1. /\ Live(j)
          /\ chain'[j] = chain[j]
          /\ ~ (chain[j].conn = c /\ chain[j].file = f)
      BY <1>4, <2>1, <2>3 DEF ChainOf, Live
    <3>2. Progress(j)' = Progress(j)
      BY <1>1, <3>1 DEF TypeOK, ChainsHold, Progress
    <3> QED
      BY <1>1, <1>4, <2>3, <3>1, <3>2 DEF OneChainSendsAll, ChainOf, Live
  <2> QED
    BY <2>2, <2>3
<1> QED
  BY <1>2, <1>3, <1>5, <1>6

\* An entry that changes at a file without a live chain, or loses its value,
\* disturbs no chain.
LEMMA EntryChanged ==
  ASSUME IInv, NEW c \in Conns, NEW f \in Files, NEW v \in Nat \cup {Absent},
         v = Absent \/ \A k \in Chains : ~ ChainOf(k, c, f),
         downloads_progress' = [downloads_progress EXCEPT ![c][f] = v],
         UNCHANGED <<chain, content, world>>
  PROVE  ChainsHold' /\ OneChainSendsAll'
<1>1. ChainsHold'
  BY DEF IInv, ChainsHold, Live
<1>2. \A k \in Chains : Live(k) =>
        Progress(k)' = Progress(k) \/ Progress(k)' = Absent
  BY DEF IInv, TypeOK, ChainsHold, Live, ChainOf, Progress
<1>3. OneChainSendsAll'
  BY <1>2 DEF IInv, OneChainSendsAll, Live, ChainOf
<1> QED
  BY <1>1, <1>3

LEMMA DownloadUnreadableIInv ==
  ASSUME IInv, DownloadUnreadable
  PROVE  IInv'
<1> USE FileServerAssumption
<1> DEFINE c == users_file_sessions
           f == handler
<1>1. /\ c \in Conns
      /\ f \in Files
      /\ content[f] \in {Absent, 0}
      /\ downloads_progress' = [downloads_progress EXCEPT ![c][f] = 0]
      /\ handler' = NoFile
      /\ UNCHANGED <<session_vars, upload_vars, chain, disk_vars, crashed, world>>
  BY DEF IInv, TypeOK, DownloadUnreadable
<1>2. TypeOK'
  BY <1>1 DEF IInv, TypeOK, session_vars, upload_vars, disk_vars
<1>3. OneUploader' /\ TableMatchesDisk'
  BY <1>1, UploadsKept
<1>4. \A k \in Chains : ~ ChainOf(k, c, f)
  BY <1>1 DEF IInv, ChainsHold, ChainOf, Absent
<1>5. ChainsHold' /\ OneChainSendsAll'
  BY <1>1, <1>4, EntryChanged DEF disk_vars
<1> QED
  BY <1>2, <1>3, <1>5 DEF IInv

LEMMA StopFileTransmissionIInv ==
  ASSUME IInv, NEW f \in Files, StopFileTransmission(f)
  PROVE  IInv'
<1> USE FileServerAssumption
<1> DEFINE c == users_file_sessions
<1>1. /\ c \in Conns
      /\ downloads_progress' = [downloads_progress EXCEPT ![c][f] = Absent]
      /\ upload_files' = [upload_files EXCEPT ![c] = @ \ {f}]
      /\ received' = IF f \in upload_files[c] THEN [received EXCEPT ![f] = {}] ELSE received
      /\ UNCHANGED <<session_vars, offered, files_table, chain, disk_vars, handler,
                     crashed, world>>
  BY DEF IInv, TypeOK, StopFileTransmission
<1>2. TypeOK'
  BY <1>1 DEF IInv, TypeOK, session_vars, disk_vars
<1>3. OneUploader'
  BY <1>1 DEF IInv, TypeOK, OneUploader
<1>4. TableMatchesDisk'
  BY <1>1 DEF IInv, TypeOK, TableMatchesDisk, disk_vars
<1>5. ChainsHold' /\ OneChainSendsAll'
  BY <1>1, EntryChanged DEF disk_vars
<1> QED
  BY <1>2, <1>3, <1>4, <1>5 DEF IInv

\* A chain that ends, with its entry erased or not, leaves the others as they are.
LEMMA ChainEnds ==
  ASSUME IInv, NEW k \in Chains, EndChain(k), Live(k),
         \/ UNCHANGED downloads_progress
         \/ downloads_progress' =
              [downloads_progress EXCEPT ![chain[k].conn][chain[k].file] = Absent],
         UNCHANGED <<session_vars, upload_vars, disk_vars, handler, world>>,
         crashed' \in BOOLEAN
  PROVE  IInv'
<1> USE FileServerAssumption
<1>0. chain[k].conn \in Conns /\ chain[k].file \in Files
  BY DEF IInv, ChainsHold
<1>1. [NoChain EXCEPT !.status = "ended"] \in ChainRecords
  BY DEF NoChain, ChainRecords, Chunks
<1>2. /\ chain' \in [Chains -> ChainRecords]
      /\ ~ Live(k)'
      /\ \A j \in Chains : j # k => chain'[j] = chain[j]
  BY <1>1 DEF IInv, TypeOK, EndChain, Live, NoChain
<1>3. /\ downloads_progress' \in [Conns -> [Files -> Nat \cup {Absent}]]
      /\ \A c \in Conns, f \in Files :
           downloads_progress'[c][f] \in {downloads_progress[c][f], Absent}
  <2> DEFINE erased == [downloads_progress EXCEPT ![chain[k].conn][chain[k].file] = Absent]
  <2>1. downloads_progress \in [Conns -> [Files -> Nat \cup {Absent}]]
    BY DEF IInv, TypeOK
  <2>2. /\ erased \in [Conns -> [Files -> Nat \cup {Absent}]]
        /\ \A c \in Conns, f \in Files : erased[c][f] \in {downloads_progress[c][f], Absent}
    BY <1>0, <2>1
  <2> QED
    BY <2>1, <2>2
<1>4. TypeOK'
  BY <1>2, <1>3 DEF IInv, TypeOK, session_vars, upload_vars, disk_vars
<1>5. OneUploader' /\ TableMatchesDisk'
  BY UploadsKept
<1>6. \A j \in Chains : Live(j)' => j # k /\ Live(j) /\ chain'[j] = chain[j]
  BY <1>2 DEF Live
<1>7. ChainsHold'
  BY <1>6 DEF IInv, ChainsHold, disk_vars
<1>8. OneChainSendsAll'
  <2> SUFFICES ASSUME "restart" \notin world', NEW j \in Chains, Live(j)'
               PROVE  /\ \A i \in Chains :
                           ChainOf(i, chain[j].conn, chain[j].file)' => i = j
                      /\ (chain[j].status = "writing" /\ Progress(j) # Absent)'
                           => (Progress(j) = chain[j].at)'
                      /\ (chain[j].status = "last" => chain[j].chunks = {})'
    BY DEF OneChainSendsAll, Absent
  <2>1. Progress(j)' \in {Progress(j), Absent}
    BY <1>3, <1>6 DEF IInv, ChainsHold, Progress
  <2>2. \A i \in Chains :
          ChainOf(i, chain[j].conn, chain[j].file)' => ChainOf(i, chain[j].conn, chain[j].file)
    BY <1>6 DEF ChainOf
  <2> QED
    BY <1>6, <2>1, <2>2 DEF IInv, OneChainSendsAll
<1> QED
  BY <1>4, <1>5, <1>7, <1>8 DEF IInv

LEMMA DownloadChunkSentIInv ==
  ASSUME IInv, NEW k \in Chains, DownloadChunkSent(k)
  PROVE  IInv'
<1> USE FileServerAssumption DEF IInv
<1> DEFINE c == chain[k].conn
           f == chain[k].file
           i == Progress(k)
           rest == chain[k].chunks \ {i}
<1>1. /\ chain[k].status = "writing"
      /\ Live(k)
      /\ c \in Conns
      /\ f \in Files
      /\ i \in Nat
  BY DEF DownloadChunkSent, Live, ChainsHold, TypeOK, Progress
<1>2. /\ downloads_progress' = [downloads_progress EXCEPT ![c][f] = i + 1]
      /\ UNCHANGED <<session_vars, upload_vars, disk_vars, handler, crashed, world>>
  BY DEF DownloadChunkSent
<1>3. /\ \A j \in Chains : j # k => chain'[j] = chain[j]
      /\ chain'[k] = IF i + 1 \in rest
                       THEN [chain[k] EXCEPT !.chunks = rest, !.at = i + 1]
                       ELSE [chain[k] EXCEPT !.chunks = rest, !.status = "last"]
      /\ chain' = [chain EXCEPT ![k] = chain'[k]]
  BY DEF DownloadChunkSent, TypeOK
<1>4. chain[k] \in ChainRecords
  BY DEF TypeOK
<1>5. /\ chain'[k] \in ChainRecords
      /\ chain'[k].conn = c
      /\ chain'[k].file = f
      /\ chain'[k].chunks = rest
      /\ i + 1 \in rest => chain'[k].status = "writing" /\ chain'[k].at = i + 1
      /\ i + 1 \notin rest => chain'[k].status = "last"
  <2>1. rest \subseteq Chunks
    BY <1>4 DEF ChainRecords
  <2>2. CASE i + 1 \in rest
    <3>1. chain'[k] = [chain[k] EXCEPT !.chunks = rest, !.at = i + 1]
      BY <1>3, <2>2
    <3> QED
      BY <1>1, <1>4, <2>1, <2>2, <3>1 DEF ChainRecords
  <2>3. CASE i + 1 \notin rest
    <3>1. chain'[k] = [chain[k] EXCEPT !.chunks = rest, !.status = "last"]
      BY <1>3, <2>3
    <3> QED
      BY <1>4, <2>1, <2>3, <3>1 DEF ChainRecords
  <2> QED
    BY <2>2, <2>3
<1>6. TypeOK'
  <2>1. chain' \in [Chains -> ChainRecords]
    BY <1>3, <1>5 DEF TypeOK
  <2>2. downloads_progress' \in [Conns -> [Files -> Nat \cup {Absent}]]
    BY <1>1, <1>2 DEF TypeOK
  <2> QED
    BY <1>2, <2>1, <2>2 DEF TypeOK, session_vars, upload_vars, disk_vars
<1>7. OneUploader' /\ TableMatchesDisk'
  BY <1>2, UploadsKept
<1>8. ASSUME "restart" \notin world
      PROVE  \E n \in 1 .. NumChunks : i < n /\ rest = i + 1 .. n - 1
  <2>1. PICK n \in 1 .. NumChunks : chain[k].at < n /\ chain[k].chunks = chain[k].at .. n - 1
    BY <1>1, <1>8 DEF ChainsHold
  <2>2. i # Absent
    BY DEF DownloadChunkSent
  <2>3. i = chain[k].at
    BY <1>1, <1>8, <2>2 DEF OneChainSendsAll
  <2> QED
    BY <1>1, <2>1, <2>3
<1>9. ChainsHold'
  <2> SUFFICES ASSUME NEW j \in Chains, Live(j)'
               PROVE  /\ chain'[j].conn \in Conns
                      /\ chain'[j].file \in Files
                      /\ content'[chain'[j].file] > 0
                      /\ ("restart" \notin world' /\ chain'[j].status = "writing") =>
                           \E n \in 1 .. NumChunks :
                             /\ chain'[j].at < n
                             /\ chain'[j].chunks = chain'[j].at .. n - 1
    BY DEF ChainsHold
  <2>1. CASE j # k
    BY <1>2, <1>3, <2>1 DEF ChainsHold, Live, disk_vars
  <2>2. CASE j = k
    <3>1. content'[f] > 0
      BY <1>1, <1>2 DEF ChainsHold, disk_vars
    <3>2. ASSUME "restart" \notin world', chain'[k].status = "writing"
          PROVE  \E n \in 1 .. NumChunks : /\ chain'[k].at < n
                                           /\ chain'[k].chunks = chain'[k].at .. n - 1
      <4>1. i + 1 \in rest /\ chain'[k].at = i + 1 /\ chain'[k].chunks = rest
        BY <1>5, <3>2
      <4>2. PICK n \in 1 .. NumChunks : i < n /\ rest = i + 1 .. n - 1
        BY <1>2, <1>8, <3>2
      <4> QED
        BY <1>1, <4>1, <4>2
    <3> QED
      BY <1>1, <1>5, <2>2, <3>1, <3>2
  <2> QED
    BY <2>1, <2>2
<1>10. OneChainSendsAll'
  <2> SUFFICES ASSUME "restart" \notin world', NEW j \in Chains, Live(j)'
               PROVE  /\ \A h \in Chains :
                           ChainOf(h, chain[j].conn, chain[j].file)' => h = j
                      /\ (chain[j].status = "writing" /\ Progress(j) # Absent)'
                           => (Progress(j) = chain[j].at)'
                      /\ (chain[j].status = "last" => chain[j].chunks = {})'
    BY DEF OneChainSendsAll, Absent
  <2>0. "restart" \notin world
    BY <1>2
  <2>1. \A h \in Chains : Live(h)' => /\ Live(h)
                                      /\ chain'[h].conn = chain[h].conn
                                      /\ chain'[h].file = chain[h].file
    BY <1>1, <1>3, <1>5 DEF Live
  <2>2. \A h \in Chains : ChainOf(h, chain[j].conn, chain[j].file)' => h = j
    BY <2>0, <2>1 DEF OneChainSendsAll, ChainOf
  <2>3. CASE j = k
    <3>1. Progress(k)' = i + 1
      BY <1>1, <1>2, <1>5 DEF TypeOK, Progress
    <3>2. i + 1 \notin rest => rest = {}
      BY <1>1, <1>8, <2>0
    <3> QED
      BY <1>5, <2>2, <2>3, <3>1, <3>2
  <2>4. CASE j # k
    <3>1. ~ (chain[j].conn = c /\ chain[j].file = f)
      BY <1>1, <2>0, <2>1, <2>4 DEF OneChainSendsAll, ChainOf
    <3>2. Progress(j)' = Progress(j)
      BY <1>1, <1>2, <1>3, <2>1, <2>4, <3>1 DEF TypeOK, ChainsHold, Progress
    <3> QED
      BY <1>3, <2>0, <2>1, <2>2, <2>4, <3>2 DEF OneChainSendsAll
  <2> QED
    BY <2>3, <2>4
<1> QED
  BY <1>6, <1>7, <1>9, <1>10

LEMMA ChainStepIInv ==
  ASSUME IInv, NEW k \in Chains, ChainStep(k)
  PROVE  IInv'
<1>1. CASE DownloadChunkSent(k)
  BY <1>1, DownloadChunkSentIInv
<1>2. CASE DownloadStopped(k) \/ DownloadEnds(k) \/ DownloadUsesFreed(k) \/ DownloadWriteFails(k)
  <2>1. /\ EndChain(k)
        /\ Live(k)
        /\ \/ UNCHANGED downloads_progress
           \/ downloads_progress' =
                [downloads_progress EXCEPT ![chain[k].conn][chain[k].file] = Absent]
        /\ UNCHANGED <<session_vars, upload_vars, disk_vars, handler, world>>
        /\ crashed' \in BOOLEAN
    BY <1>2 DEF DownloadStopped, DownloadEnds, DownloadUsesFreed, DownloadWriteFails, Live,
                IInv, TypeOK
  <2> QED
    BY <2>1, ChainEnds
<1> QED
  BY <1>1, <1>2 DEF ChainStep, HandleDownloadChunkSent

-----------------------------------------------------------------------------
LEMMA StepIInv == IInv /\ [Next]_vars => IInv'
<1> SUFFICES ASSUME IInv, [Next]_vars PROVE IInv'
  OBVIOUS
<1>1. ASSUME NEW c \in Conns, SessionStep(c) PROVE IInv'
  BY <1>1, SessionStepIInv
<1>12. CASE CleanUserSession
  BY <1>12, CleanUserSessionIInv
<1>2. ASSUME NEW c \in Conns, NEW f \in Files, NEW i \in Chunks, ChunkPacket(c, f, i)
      PROVE  IInv'
  BY <1>2, ChunkPacketIInv
<1>3. ASSUME NEW f \in Files, InitUploadFile(f) PROVE IInv'
  BY <1>3, InitUploadFileIInv
<1>4. ASSUME NEW f \in Files, InitDownloadFile(f) PROVE IInv'
  BY <1>4, DownloadCheckIInv
<1>5. ASSUME NEW f \in Files, StopFileTransmission(f) PROVE IInv'
  BY <1>5, StopFileTransmissionIInv
<1>6. ASSUME NEW f \in Files, SaverStep(f) PROVE IInv'
  BY <1>6, SaverStepIInv
<1>7. ASSUME NEW k \in Chains, ChainStep(k) PROVE IInv'
  BY <1>7, ChainStepIInv
<1>8. CASE DownloadCrashes \/ AlreadyDownloading
  <2>1. handler \in Files
    BY <1>8 DEF IInv, TypeOK, DownloadCrashes, AlreadyDownloading
  <2> QED
    BY <1>8, <2>1, DownloadCheckIInv
<1>9. CASE DownloadUnreadable
  BY <1>9, DownloadUnreadableIInv
<1>10. ASSUME NEW k \in Chains, AddDownloadFile(k) PROVE IInv'
  BY <1>10, AddDownloadFileIInv
<1>11. CASE UNCHANGED vars
  <2>1. TypeOK' /\ OneUploader' /\ TableMatchesDisk'
    BY <1>11 DEF IInv, TypeOK, OneUploader, TableMatchesDisk, vars, session_vars, upload_vars,
                download_vars, disk_vars
  <2>2. ChainsHold' /\ OneChainSendsAll'
    BY <1>11, ChainsKept DEF IInv, vars, download_vars, disk_vars
  <2> QED
    BY <2>1, <2>2 DEF IInv
<1> QED
  BY <1>1, <1>2, <1>3, <1>4, <1>5, <1>6, <1>7, <1>8, <1>9, <1>10, <1>11, <1>12 DEF Next, HandlerStep

THEOREM InductiveInvariant == Spec => []IInv
<1> QED
  BY InitIInv, StepIInv, PTL DEF Spec

\* Every variable keeps its type.
THEOREM TypeCorrect == Spec => []TypeOK
<1> QED
  BY InductiveInvariant, PTL DEF IInv

\* The table, the memory files and the disk agree at every moment, whatever
\* statements and files fail.
THEOREM TableAlwaysMatchesDisk == Spec => []TableMatchesDisk
<1> QED
  BY InductiveInvariant, PTL DEF IInv

\* A download that is not begun again too early is sent whole, chunk by chunk,
\* by one chain.
THEOREM OneChainAlwaysSendsAll == Spec => []OneChainSendsAll
<1> QED
  BY InductiveInvariant, PTL DEF IInv

\* No chunk that comes late brings back an upload that was stopped.
THEOREM StoppedUploadStaysStopped == Spec => StoppedStaysStopped
<1>1. IInv /\ [Next]_vars => [\A f \in Files : Gone(f) => Gone(f)']_vars
  <2> SUFFICES ASSUME IInv, Next, NEW f \in Files, Gone(f)
               PROVE  Gone(f)'
    BY DEF vars, Gone
  <2> USE DEF Gone, IInv, TypeOK
  <2>1. ASSUME NEW c \in Conns, SessionStep(c) PROVE Gone(f)'
    BY <2>1 DEF SessionStep, Accept, SessionAuth, Shutdown, ShutdownDone, ConnLost, upload_vars
  <2>8. CASE CleanUserSession
    BY <2>8 DEF CleanUserSession, upload_vars
  <2>2. ASSUME NEW c \in Conns, NEW g \in Files, NEW i \in Chunks, ChunkPacket(c, g, i)
        PROVE  Gone(f)'
    BY <2>2 DEF ChunkPacket, ChunkSaved, SaveFile, SaveFileFails, ChunkRefused, upload_vars
  <2>3. ASSUME NEW g \in Files, InitUploadFile(g) PROVE Gone(f)'
    BY <2>3 DEF InitUploadFile
  <2>4. ASSUME NEW g \in Files, InitDownloadFile(g) \/ SaverStep(g) PROVE Gone(f)'
    BY <2>4 DEF InitDownloadFile, SaverStep, SaverOpens, SaverWrites, SaverFails, upload_vars
  <2>5. ASSUME NEW g \in Files, StopFileTransmission(g) PROVE Gone(f)'
    BY <2>5 DEF StopFileTransmission
  <2>6. ASSUME NEW k \in Chains, ChainStep(k) \/ AddDownloadFile(k) PROVE Gone(f)'
    BY <2>6 DEF ChainStep, HandleDownloadChunkSent, DownloadStopped, DownloadChunkSent,
                DownloadEnds, DownloadUsesFreed, DownloadWriteFails, AddDownloadFile, upload_vars
  <2>7. CASE DownloadCrashes \/ AlreadyDownloading \/ DownloadUnreadable
    BY <2>7 DEF DownloadCrashes, AlreadyDownloading, DownloadUnreadable, upload_vars
  <2> QED
    BY <2>1, <2>2, <2>3, <2>4, <2>5, <2>6, <2>7, <2>8 DEF Next, HandlerStep
<1> QED
  BY <1>1, InductiveInvariant, PTL DEF Spec, StoppedStaysStopped
=============================================================================
