------------------------- MODULE VoicePipelineProofs -------------------------
(***************************************************************************)
(* Proofs about VoicePipeline, for any users, numbers of calls, bounds on  *)
(* the queues and happenings.                                              *)
(***************************************************************************)
EXTENDS VoicePipeline, SequenceTheorems, TLAPS

\* Unless calls may overlap, at most one worker runs; and it does what may happen.
WorkersAllowed ==
  /\ ~May("together") =>
       \A v, w \in Workers : v # w => At(v, "idle") \/ At(w, "idle")
  /\ \A w \in Workers :
       /\ pc[w] \in {"close_stream", "open_stream", "restart_stream", "start_again"}
            => May("device")
       /\ pc[w] = "auth_out" => May("logout")

\* A stream that nobody refuses to start is open, or about to be.
StreamOpen ==
  ~Refusing =>
    (stream = "closed" =>
       (\E w \in Workers : At(w, "open_stream")) \/ At("cleaner", "gone"))

SettingUp == {"flush", "otp", "start_stream", "enable"}
Disabling == {"disable_input", "disable_output", "stop_stream"}
Destroying == {"stop", "join_reporter", "close_socket", "wake_input",
               "join_input", "join_output", "close", "gone"}

\* Where nothing clashes: the stream runs only with the voice enabled or about to
\* be, or stopped next; so the cleaning thread has stopped it.
StreamStopped ==
  ~Clashing =>
    /\ ~At("cleaner", "idle") => \A w \in Workers : At(w, "idle")
    /\ \A w \in Workers : /\ pc[w] \in SettingUp => user
                          /\ At(w, "start_again") => enabled
    /\ stream = "running" =>
         \/ enabled
         \/ \E w \in Workers : At(w, "enable")
         \/ \E t \in Threads : pc[t] \in Disabling
    /\ ~user =>
         \/ ~enabled
         \/ \E t \in Threads : pc[t] \in {"disable", "disable_manager"}
    /\ pc["cleaner"] \in Disabling => ~enabled
    /\ pc["cleaner"] \in Destroying \cup {"set_state"} =>
         ~enabled /\ stream # "running"
    /\ ~input.exists \/ ~output.exists => pc["cleaner"] \in Destroying

IInv == /\ TypeOK /\ WorkersAllowed /\ StreamOpen /\ StreamStopped
        /\ QueueIsOfThisCall /\ ActivityTracks /\ SafeTeardown

-----------------------------------------------------------------------------
LEMMA InitIInv == Init => IInv
<1> SUFFICES ASSUME Init PROVE IInv
  OBVIOUS
<1> USE VoicePipelineAssumption DEF Init
<1>1. TypeOK
  <2>1. /\ input \in Inputs
        /\ output \in Outputs
        /\ buffer \in Seq(Datagrams)
    BY EmptySeq DEF Inputs, Outputs
  <2>2. /\ pc \in [Threads -> Stages]
        /\ op \in [Workers -> Operations]
        /\ call \in [Workers -> Calls \cup {NoCall}]
        /\ calls \in {NoCall} \cup Calls
    BY DEF Stages, Operations, NoCall
  <2> QED
    BY <2>1, <2>2 DEF TypeOK
<1>2. WorkersAllowed /\ StreamOpen /\ StreamStopped /\ SafeTeardown
  BY DEF WorkersAllowed, StreamOpen, StreamStopped, SafeTeardown, SettingUp, Disabling,
         Destroying, At, Threads
<1>3. QueueIsOfThisCall /\ ActivityTracks
  BY DEF QueueIsOfThisCall, ActivityTracks
<1> QED
  BY <1>1, <1>2, <1>3 DEF IInv

\* What the threads of the manager leave alone.
Still == UNCHANGED <<manager_vars, stream, call_vars, world>>

LEMMA ActivateVoiceKeeps ==
  ASSUME TypeOK, ActivityTracks, NEW u \in Users, ActivateVoice(u)
  PROVE  /\ activation' \in [Users -> {"off", "fresh", "old"}]
         /\ changed' \in SUBSET Users
         /\ ui' \in SUBSET Users
         /\ ActivityTracks'
BY DEF TypeOK, ActivityTracks, ActivateVoice

\* Steps of the three threads, and of the socket.
ThreadStep == \/ \E u \in Users : Ages(u)
              \/ Report \/ ReporterEnds \/ Input \/ Output \/ Arrives

\* What such a step does to what others use: the flags stay, the queue to send
\* loses its head at most, and only a missing user breaks the program.
LEMMA ThreadStepKeeps ==
  ASSUME TypeOK, ThreadStep
  PROVE  /\ Still
         /\ input'.enabled = input.enabled /\ input'.exists = input.exists
         /\ output'.exists = output.exists
         /\ \/ input'.data = input.data
            \/ input.data # <<>> /\ input'.data = Tail(input.data)
         /\ broken' \in {broken, "no_user"}
<1> USE DEF Still, TypeOK, Inputs, Outputs, manager_vars, sound_vars, call_vars, activity_vars
<1>1. CASE \E u \in Users : Ages(u)
  BY <1>1 DEF Ages
<1>2. CASE Report \/ ReporterEnds
  BY <1>2 DEF Report, ReporterEnds
<1>3. CASE Input
  <2> USE DEF OnlyInput
  <2>1. CASE InputLoops
    BY <2>1 DEF InputLoops
  <2>2. CASE InputTests
    BY <2>2 DEF InputTests
  <2>3. CASE InputBlocks
    BY <2>3 DEF InputBlocks
  <2>4. CASE InputProcesses
    BY <2>4 DEF InputProcesses
  <2>5. CASE InputSends
    BY <2>5 DEF InputSends
  <2> QED
    BY <1>3, <2>1, <2>2, <2>3, <2>4, <2>5 DEF Input
<1>4. CASE Output
  BY <1>4 DEF Output, OutputLoops, OutputReceives, OutputDecrypts, OutputQueues,
              OnlyOutput
<1>5. CASE Arrives
  BY <1>5 DEF Arrives
<1> QED
  BY <1>1, <1>2, <1>3, <1>4, <1>5 DEF ThreadStep

LEMMA InputTyped ==
  ASSUME TypeOK, Input
  PROVE  input' \in Inputs
<1> USE DEF TypeOK, Inputs
<1>1. CASE InputLoops
  BY <1>1 DEF InputLoops
<1>2. CASE InputTests
  <2>1. input.data # <<>> => Tail(input.data) \in Seq(Calls \cup {NoCall})
    BY HeadTailProperties
  <2> QED
    BY <1>2, <2>1 DEF InputTests
<1>3. CASE InputBlocks
  BY <1>3 DEF InputBlocks
<1>4. CASE InputProcesses
  BY <1>4 DEF InputProcesses
<1>5. CASE InputSends
  BY <1>5 DEF InputSends
<1> QED
  BY <1>1, <1>2, <1>3, <1>4, <1>5 DEF Input

LEMMA OutputTyped ==
  ASSUME TypeOK, Output
  PROVE  output' \in Outputs /\ buffer' \in Seq(Datagrams)
<1> USE DEF TypeOK, Outputs
<1>1. CASE OutputLoops
  BY <1>1 DEF OutputLoops
<1>2. CASE OutputReceives
  <2>1. buffer # <<>> => Head(buffer) \in Datagrams /\ Tail(buffer) \in Seq(Datagrams)
    BY HeadTailProperties
  <2> QED
    BY <1>2, <2>1 DEF OutputReceives
<1>3. CASE OutputDecrypts
  <2>1. UNCHANGED buffer
    BY <1>3 DEF OutputDecrypts
  <2>2. PICK at \in {"voice", "top"} :
          output' = [output EXCEPT !.at = at, !.frame = NoDatagram]
    BY <1>3 DEF OutputDecrypts
  <2>3. output \in Outputs /\ buffer \in Seq(Datagrams)
    OBVIOUS
  <2> HIDE DEF TypeOK
  <2>4. output' \in Outputs
    BY <2>2, <2>3
  <2> QED
    BY <2>1, <2>3, <2>4
<1>4. CASE OutputQueues
  <2>1. UNCHANGED buffer
    BY <1>4 DEF OutputQueues
  <2> DEFINE d == IF output.deafen THEN output.data ELSE output.data + 1
  <2>2. output' = [output EXCEPT !.at = "top", !.data = d]
    BY <1>4 DEF OutputQueues
  <2>3. output \in Outputs /\ d \in Nat
    <3>1. output \in Outputs /\ output.data \in Nat
      OBVIOUS
    <3> HIDE DEF TypeOK
    <3> QED
      BY <3>1
  <2> HIDE DEF d, TypeOK
  <2>4. output' \in Outputs
    BY <2>2, <2>3
  <2>5. buffer \in Seq(Datagrams)
    BY DEF TypeOK
  <2> QED
    BY <2>1, <2>4, <2>5
<1> QED
  BY <1>1, <1>2, <1>3, <1>4 DEF Output

LEMMA ThreadStepTyped ==
  ASSUME TypeOK, ActivityTracks, ThreadStep
  PROVE  TypeOK' /\ ActivityTracks'
<1> USE VoicePipelineAssumption
<1>1. CASE \E u \in Users : Ages(u)
  <2>1. TypeOK'
    BY <1>1 DEF TypeOK, Ages, manager_vars, sound_vars, call_vars
  <2>2. ActivityTracks'
    BY <1>1 DEF TypeOK, ActivityTracks, Ages
  <2> QED
    BY <2>1, <2>2
<1>2. CASE Report
  <2>1. /\ activation' \in [Users -> {"off", "fresh", "old"}]
        /\ changed' \in SUBSET Users
        /\ ui' \in SUBSET Users
        /\ ActivityTracks'
    BY <1>2 DEF TypeOK, ActivityTracks, Report, TimedOut
  <2> QED
    BY <1>2, <2>1 DEF TypeOK, Report, manager_vars, sound_vars, call_vars
<1>3. CASE ReporterEnds
  BY <1>3 DEF TypeOK, ActivityTracks, ReporterEnds, manager_vars, sound_vars,
              call_vars, activity_vars
<1>4. CASE Input
  <2>1. UNCHANGED <<manager_vars, sound_vars, output, reporter, call_vars, world>>
    BY <1>4 DEF Input, InputLoops, InputTests, InputBlocks, InputProcesses,
                InputSends, OnlyInput
  <2>2. broken' \in {broken, "no_user"}
    BY <1>4 DEF Input, InputLoops, InputTests, InputBlocks, InputProcesses, InputSends
  <2>3. ActivateVoice(Me) \/ UNCHANGED activity_vars
    BY <1>4 DEF Input, InputLoops, InputTests, InputBlocks, InputProcesses, InputSends
  <2>4. /\ activation' \in [Users -> {"off", "fresh", "old"}]
        /\ changed' \in SUBSET Users
        /\ ui' \in SUBSET Users
        /\ ActivityTracks'
    BY <2>3, ActivateVoiceKeeps DEF TypeOK, ActivityTracks, activity_vars
  <2>5. /\ enabled' = enabled /\ session' = session /\ stop_threads' = stop_threads
        /\ user' = user /\ socket_open' = socket_open /\ buffer' = buffer
        /\ stream' = stream /\ output' = output /\ reporter' = reporter
        /\ joined' = joined /\ calls' = calls /\ pc' = pc /\ op' = op /\ call' = call
        /\ world' = world
    BY <2>1 DEF manager_vars, sound_vars, call_vars
  <2>6. input' \in Inputs
    BY <1>4, InputTyped
  <2> QED
    BY <2>2, <2>4, <2>5, <2>6 DEF TypeOK
<1>5. CASE Output
  <2>1. UNCHANGED <<manager_vars, socket_open, stream, input, reporter, call_vars,
                    broken, world>>
    BY <1>5 DEF Output, OutputLoops, OutputReceives, OutputDecrypts, OutputQueues,
                OnlyOutput
  <2>2. (\E u \in Users : ActivateVoice(u)) \/ UNCHANGED activity_vars
    <3>1. output.frame \in Datagrams \cup {NoDatagram}
      BY DEF TypeOK, Outputs
    <3>2. output.frame.user \in Users
      BY <3>1 DEF Datagrams, NoDatagram
    <3> QED
      BY <1>5, <3>2 DEF Output, OutputLoops, OutputReceives, OutputDecrypts, OutputQueues
  <2>3. /\ activation' \in [Users -> {"off", "fresh", "old"}]
        /\ changed' \in SUBSET Users
        /\ ui' \in SUBSET Users
        /\ ActivityTracks'
    BY <2>2, ActivateVoiceKeeps DEF TypeOK, ActivityTracks, activity_vars
  <2>4. /\ enabled' = enabled /\ session' = session /\ stop_threads' = stop_threads
        /\ user' = user /\ socket_open' = socket_open /\ stream' = stream
        /\ input' = input /\ reporter' = reporter
        /\ joined' = joined /\ calls' = calls /\ pc' = pc /\ op' = op /\ call' = call
        /\ broken' = broken /\ world' = world
    BY <2>1 DEF manager_vars, call_vars
  <2>5. output' \in Outputs /\ buffer' \in Seq(Datagrams)
    BY <1>5, OutputTyped
  <2> QED
    BY <2>3, <2>4, <2>5 DEF TypeOK
<1>6. CASE Arrives
  <2>1. buffer' \in Seq(Datagrams)
    <3>1. PICK u \in Users \ {Me}, c \in {session, NoCall} :
            buffer' = Append(buffer, [user |-> u, call |-> c])
      BY <1>6 DEF Arrives
    <3>2. [user |-> u, call |-> c] \in Datagrams
      BY <3>1 DEF TypeOK, Datagrams
    <3>3. buffer \in Seq(Datagrams)
      BY DEF TypeOK
    <3> QED
      BY <3>1, <3>2, <3>3, AppendProperties
  <2>2. UNCHANGED <<manager_vars, socket_open, stream, input, output,
                    activity_vars, reporter, call_vars, broken, world>>
    BY <1>6 DEF Arrives
  <2> QED
    BY <2>1, <2>2 DEF TypeOK, ActivityTracks, manager_vars, call_vars, activity_vars
<1> QED
  BY <1>1, <1>2, <1>3, <1>4, <1>5, <1>6 DEF ThreadStep

LEMMA ThreadStepIInv ==
  ASSUME IInv, broken = "no", ThreadStep
  PROVE  IInv'
<1>0. TypeOK
  BY DEF IInv
<1>1. TypeOK' /\ ActivityTracks'
  BY ThreadStepTyped DEF IInv
<1>2. /\ Still
      /\ input'.enabled = input.enabled /\ input'.exists = input.exists
      /\ output'.exists = output.exists
      /\ \/ input'.data = input.data
         \/ input.data # <<>> /\ input'.data = Tail(input.data)
      /\ broken' \in {broken, "no_user"}
  BY <1>0, ThreadStepKeeps
<1> USE DEF Still, manager_vars, call_vars
<1>3. WorkersAllowed' /\ StreamOpen' /\ StreamStopped'
  BY <1>2 DEF IInv, WorkersAllowed, StreamOpen, StreamStopped, At, May, Refusing, Clashing
<1>4. SafeTeardown'
  BY <1>2 DEF IInv, SafeTeardown, May, Clashing
<1>5. QueueIsOfThisCall'
  <2>1. input.data \in Seq(Calls \cup {NoCall})
    BY <1>0 DEF TypeOK, Inputs
  <2>2. input.data # <<>> =>
          \A i \in 1..Len(Tail(input.data)) :
            i + 1 \in 1..Len(input.data) /\ Tail(input.data)[i] = input.data[i + 1]
    BY <2>1
  <2> QED
    BY <1>2, <2>2 DEF IInv, QueueIsOfThisCall, Enabling, May, Refusing
<1> QED
  BY <1>1, <1>3, <1>4, <1>5 DEF IInv

\* The callback meets a part that is gone only where something clashed: elsewhere
\* the stream does not run by then.
LEMMA CallbackIInv ==
  ASSUME IInv, broken = "no", Callback
  PROVE  IInv'
<1>1. /\ stream = "running"
      /\ UNCHANGED <<manager_vars, sound_vars, activity_vars, reporter, call_vars, world>>
  BY DEF Callback
<1>2. CASE /\ ~input.exists \/ ~output.exists
           /\ broken' = IF input.exists THEN "no_output" ELSE "no_input"
           /\ UNCHANGED <<input, output>>
  <2>1. Clashing
    BY <1>1, <1>2 DEF IInv, StreamStopped
  <2>2. TypeOK'
    BY <1>1, <1>2 DEF IInv, TypeOK, manager_vars, sound_vars, activity_vars, call_vars
  <2> USE DEF manager_vars, sound_vars, activity_vars, call_vars
  <2>3. WorkersAllowed' /\ StreamOpen' /\ StreamStopped' /\ SafeTeardown'
    BY <1>1, <1>2, <2>1 DEF IInv, WorkersAllowed, StreamOpen, StreamStopped, SafeTeardown,
       At, May, Refusing, Clashing
  <2>4. QueueIsOfThisCall' /\ ActivityTracks'
    BY <1>1, <1>2 DEF IInv, QueueIsOfThisCall, Enabling, Refusing, ActivityTracks, May
  <2> QED
    BY <2>2, <2>3, <2>4 DEF IInv
<1>3. CASE /\ input' = [input EXCEPT !.data = Append(@, session),
                                    !.at = IF @ = "blocked" THEN "wait" ELSE @]
           /\ output' = [output EXCEPT !.data = IF @ = 0 THEN 0 ELSE @ - 1]
           /\ UNCHANGED broken
  <2>1. input.data \in Seq(Calls \cup {NoCall}) /\ session \in Calls \cup {NoCall}
    BY DEF IInv, TypeOK, Inputs
  <2>2. /\ Append(input.data, session) \in Seq(Calls \cup {NoCall})
        /\ \A i \in 1..Len(Append(input.data, session)) :
             \/ i \in 1..Len(input.data) /\ Append(input.data, session)[i] = input.data[i]
             \/ Append(input.data, session)[i] = session
    BY <2>1, AppendProperties
  <2>3. input' \in Inputs
    <3>1. input \in Inputs
      BY DEF IInv, TypeOK
    <3> QED
      BY <1>3, <2>2, <3>1 DEF Inputs
  <2>4. output' \in Outputs
    <3>1. output \in Outputs
      BY DEF IInv, TypeOK
    <3>2. PICK d : /\ d = IF output.data = 0 THEN 0 ELSE output.data - 1
                   /\ output' = [output EXCEPT !.data = d]
      BY <1>3
    <3>3. d \in Nat
      BY <3>1, <3>2 DEF Outputs
    <3> QED
      BY <3>1, <3>2, <3>3 DEF Outputs
  <2>5. TypeOK'
    BY <1>1, <1>3, <2>3, <2>4 DEF IInv, TypeOK, manager_vars, sound_vars, activity_vars,
       call_vars
  <2>6. /\ input'.enabled = input.enabled /\ input'.exists = input.exists
        /\ output'.exists = output.exists
        /\ input'.data = Append(input.data, session)
    BY <1>3 DEF IInv, TypeOK, Inputs, Outputs
  <2>7. WorkersAllowed' /\ StreamOpen' /\ StreamStopped' /\ SafeTeardown'
    BY <1>1, <1>3, <2>6 DEF IInv, WorkersAllowed, StreamOpen, StreamStopped, SafeTeardown,
       At, May, Refusing, Clashing, manager_vars, sound_vars, call_vars
  <2>8. QueueIsOfThisCall'
    BY <1>1, <2>2, <2>6 DEF IInv, QueueIsOfThisCall, Enabling, May, Refusing, manager_vars,
       call_vars
  <2>9. ActivityTracks'
    BY <1>1 DEF IInv, ActivityTracks, activity_vars
  <2> QED
    BY <2>5, <2>7, <2>8, <2>9 DEF IInv
<1> QED
  BY <1>2, <1>3 DEF Callback

\* A step that only breaks the program.
LEMMA BreaksIInv ==
  ASSUME IInv, UNCHANGED <<manager_vars, sound_vars, input, output, activity_vars, reporter,
                           call_vars, world>>,
         broken' \in {"freed", "no_input", "no_output", "queue"},
         Clashing \/ broken' = "queue"
  PROVE  IInv'
<1>1. TypeOK'
  BY DEF IInv, TypeOK, manager_vars, sound_vars, activity_vars, call_vars
<1> USE DEF manager_vars, sound_vars, activity_vars, call_vars
<1>2. WorkersAllowed' /\ StreamOpen' /\ StreamStopped' /\ SafeTeardown'
  BY DEF IInv, WorkersAllowed, StreamOpen, StreamStopped, SafeTeardown, At, May, Refusing,
         Clashing
<1>3. QueueIsOfThisCall' /\ ActivityTracks'
  BY DEF IInv, QueueIsOfThisCall, Enabling, Refusing, ActivityTracks, May
<1> QED
  BY <1>1, <1>2, <1>3 DEF IInv

LEMMA UsesNothingIInv ==
  ASSUME IInv, broken = "no", NEW w \in Workers, UsesNothing(w)
  PROVE  IInv'
<1>1. /\ pc[w] # "idle"
      /\ pc["cleaner"] = "gone" \/ ~input.exists \/ ~output.exists
      /\ broken' \in {"freed", "no_input", "no_output"}
  BY DEF UsesNothing, Gone, NoInput, NoOutput
<1>2. Clashing
  BY <1>1 DEF IInv, StreamStopped, At, Destroying
<1> QED
  BY <1>1, <1>2, BreaksIInv DEF UsesNothing

LEMMA QueueInUseIInv ==
  ASSUME IInv, broken = "no", NEW w \in Workers, QueueInUse(w)
  PROVE  IInv'
BY BreaksIInv DEF QueueInUse

-----------------------------------------------------------------------------
\* Thread t goes from a stage that is not idle to stage x, with nothing of who is
\* speaking changed and nothing broken.
Moves(t, x) ==
  /\ pc' = [pc EXCEPT ![t] = x]
  /\ pc[t] # "idle" /\ ~Gone(t)
  /\ joined' = joined /\ calls' = calls
  /\ \/ op' = op /\ call' = call
     \/ /\ t \in Workers
        /\ op' = [op EXCEPT ![t] = "none"]
        /\ call' = [call EXCEPT ![t] = NoCall]
  /\ UNCHANGED <<activity_vars, reporter, broken, world>>

LEMMA MovesKeeps ==
  ASSUME IInv, NEW t \in Threads, NEW x \in Stages, Moves(t, x),
         enabled' \in BOOLEAN, session' \in Calls \cup {NoCall}, stop_threads' \in BOOLEAN,
         user' \in BOOLEAN, socket_open' \in BOOLEAN, buffer' \in Seq(Datagrams),
         stream' \in {"closed", "stopped", "running"}, input' \in Inputs, output' \in Outputs,
         x # "auth_out" \/ t = "cleaner",
         \/ x \notin {"close_stream", "open_stream", "restart_stream", "start_again"}
         \/ t \in Workers /\ May("device")
  PROVE  /\ TypeOK' /\ WorkersAllowed' /\ ActivityTracks' /\ SafeTeardown'
         /\ pc'[t] = x
         /\ \A u \in Threads : u # t => pc'[u] = pc[u]
<1>1. /\ pc \in [Threads -> Stages] /\ op \in [Workers -> Operations]
      /\ call \in [Workers -> Calls \cup {NoCall}]
  BY DEF IInv, TypeOK
<1>2. /\ pc'[t] = x
      /\ \A u \in Threads : u # t => pc'[u] = pc[u]
      /\ pc' \in [Threads -> Stages]
  BY <1>1 DEF Moves
<1>3. op' \in [Workers -> Operations] /\ call' \in [Workers -> Calls \cup {NoCall}]
  BY <1>1 DEF Moves, Operations
<1>4. TypeOK'
  BY <1>2, <1>3 DEF IInv, TypeOK, Moves, activity_vars
<1>5. WorkersAllowed'
  <2>1. \A w \in Workers : w \in Threads /\ w # "cleaner"
    BY VoicePipelineAssumption DEF Threads
  <2> QED
    BY <1>2, <2>1 DEF IInv, WorkersAllowed, Moves, At, May
<1>6. ActivityTracks' /\ SafeTeardown'
  BY DEF IInv, ActivityTracks, SafeTeardown, Clashing, May, Moves, activity_vars
<1> QED
  BY <1>2, <1>4, <1>5, <1>6

\* Its session and its frames stay as they were, and it does not leave the stages in
\* which the queue is of another call.
LEMMA QueueKept ==
  ASSUME IInv, NEW t \in Threads, NEW x \in Stages, Moves(t, x),
         input'.data = input.data,
         \/ session' = session
         \/ t \in Workers /\ x = "start_stream",
         \/ t = "cleaner"
         \/ pc[t] \notin {"start_stream", "enable", "enable_input"}
         \/ x \in {"start_stream", "enable", "enable_input"}
         \/ Refusing
  PROVE  QueueIsOfThisCall'
<1>1. /\ pc \in [Threads -> Stages] /\ \A w \in Workers : w \in Threads /\ w # "cleaner"
  BY VoicePipelineAssumption DEF IInv, TypeOK, Threads
<1>2. /\ pc'[t] = x
      /\ \A u \in Threads : u # t => pc'[u] = pc[u]
      /\ world' = world
  BY <1>1 DEF Moves
<1>3. Enabling => Enabling' \/ Refusing
  BY <1>1, <1>2 DEF Enabling
<1>4. Refusing' = Refusing
  BY <1>2 DEF Refusing, May
<1>5. t \in Workers /\ x = "start_stream" => Enabling'
  BY <1>2 DEF Enabling
<1> QED
  BY <1>3, <1>4, <1>5 DEF IInv, QueueIsOfThisCall

LEMMA DisabledMoves ==
  ASSUME IInv, NEW t \in Threads, Disabled(t)
  PROVE  \E x \in {"set_state", "idle"} :
           /\ pc' = [pc EXCEPT ![t] = x]
           /\ x = "idle" => t \in Workers
           /\ joined' = joined /\ calls' = calls
           /\ \/ op' = op /\ call' = call
              \/ /\ t \in Workers
                 /\ op' = [op EXCEPT ![t] = "none"]
                 /\ call' = [call EXCEPT ![t] = NoCall]
BY DEF Disabled, Goes, Ends, Threads

\* The steps of logged_out and disable, by a worker or by the cleaning thread.
LEMMA SharedIInv ==
  ASSUME IInv, broken = "no", NEW t \in Threads, Shared(t)
  PROVE  IInv'
<1>0. /\ TypeOK
      /\ pc \in [Threads -> Stages] /\ input \in Inputs /\ output \in Outputs
      /\ \A w \in Workers : w \in Threads /\ w # "cleaner"
      /\ "cleaner" \in Threads
      /\ t \in Workers \/ t = "cleaner"
  BY VoicePipelineAssumption DEF IInv, TypeOK, Threads
<1>1. CASE AuthOut(t)
  <2>1. /\ Moves(t, "disable")
        /\ pc[t] = "auth_out"
        /\ user' = FALSE
        /\ UNCHANGED <<enabled, session, stop_threads, sound_vars, input, output>>
    BY <1>1 DEF AuthOut, Runs, At, Goes, OnlyManager, Moves
  <2>2. /\ TypeOK' /\ WorkersAllowed' /\ ActivityTracks' /\ SafeTeardown'
        /\ pc'[t] = "disable"
        /\ \A u \in Threads : u # t => pc'[u] = pc[u]
    BY <1>0, <2>1, MovesKeeps DEF TypeOK, sound_vars, Stages
  <2>3. StreamOpen'
    BY <1>0, <2>1, <2>2 DEF IInv, StreamOpen, At, Refusing, May, Moves, sound_vars
  <2>4. StreamStopped'
    BY <1>0, <2>1, <2>2 DEF IInv, WorkersAllowed, StreamStopped, SettingUp, Disabling, Destroying,
       At, Clashing, May, Moves, sound_vars
  <2>5. QueueIsOfThisCall'
    BY <2>1, QueueKept DEF Stages
  <2> QED
    BY <2>2, <2>3, <2>4, <2>5 DEF IInv
<1>2. CASE Disable(t) /\ enabled
  <2>1. /\ Moves(t, "disable_manager")
        /\ pc[t] = "disable"
        /\ UNCHANGED <<manager_vars, sound_vars, input, output>>
    BY <1>2 DEF Disable, Runs, At, Goes, OnlyManager, Moves
  <2> USE DEF manager_vars, sound_vars
  <2>2. /\ TypeOK' /\ WorkersAllowed' /\ ActivityTracks' /\ SafeTeardown'
        /\ pc'[t] = "disable_manager"
        /\ \A u \in Threads : u # t => pc'[u] = pc[u]
    BY <1>0, <2>1, MovesKeeps DEF TypeOK, Stages
  <2>3. StreamOpen'
    BY <1>0, <2>1, <2>2 DEF IInv, StreamOpen, At, Refusing, May, Moves
  <2>4. StreamStopped'
    BY <1>0, <2>1, <2>2 DEF IInv, StreamStopped, SettingUp, Disabling, Destroying,
       At, Clashing, May, Moves
  <2>5. QueueIsOfThisCall'
    BY <2>1, QueueKept DEF Stages
  <2> QED
    BY <2>2, <2>3, <2>4, <2>5 DEF IInv
<1>3. CASE Disable(t) /\ ~enabled
  <2>1. PICK x \in {"set_state", "idle"} : Moves(t, x) /\ (x = "idle" => t \in Workers)
    <3>1. Disabled(t) /\ pc[t] = "disable" /\ ~Gone(t)
      BY <1>3 DEF Disable, Runs, At
    <3> QED
      BY <1>3, <3>1, DisabledMoves DEF Disable, OnlyManager, Moves
  <2>2. /\ pc[t] = "disable"
        /\ UNCHANGED <<manager_vars, sound_vars, input, output>>
    BY <1>3 DEF Disable, Runs, At, OnlyManager
  <2> USE DEF manager_vars, sound_vars
  <2>3. /\ TypeOK' /\ WorkersAllowed' /\ ActivityTracks' /\ SafeTeardown'
        /\ pc'[t] = x
        /\ \A u \in Threads : u # t => pc'[u] = pc[u]
    BY <1>0, <2>1, <2>2, MovesKeeps DEF TypeOK, Stages
  <2>4. StreamOpen'
    BY <1>0, <2>1, <2>2, <2>3 DEF IInv, StreamOpen, At, Refusing, May, Moves
  <2>5. StreamStopped'
    <3> USE DEF StreamStopped, SettingUp, Disabling, Destroying, At, Clashing, May, Moves
    <3>1. StreamStopped
      BY DEF IInv
    <3>2. CASE t = "cleaner"
      <4>1. x = "set_state"
        BY <1>0, <2>1, <3>2
      <4>2. ~Clashing => ~enabled /\ stream # "running"
        <5>1. \A u \in Threads : u \in Workers \/ u = "cleaner"
          BY DEF Threads
        <5>2. ~Clashing => \A u \in Threads : pc[u] \in {"idle", "disable"}
          BY <2>2, <3>1, <3>2, <5>1
        <5> QED
          BY <1>0, <1>3, <3>1, <5>2
      <4> QED
        BY <1>0, <1>3, <2>1, <2>2, <2>3, <3>1, <3>2, <4>1, <4>2
    <3>3. CASE t # "cleaner"
      BY <1>0, <1>3, <2>1, <2>2, <2>3, <3>1, <3>3
    <3> QED
      BY <3>2, <3>3
  <2>6. QueueIsOfThisCall'
    BY <2>1, <2>2, QueueKept DEF Stages
  <2> QED
    BY <2>3, <2>4, <2>5, <2>6 DEF IInv
<1>4. CASE DisableManager(t)
  <2>1. /\ Moves(t, "disable_input")
        /\ pc[t] = "disable_manager"
        /\ enabled' = FALSE
        /\ UNCHANGED <<session, stop_threads, user, sound_vars, input, output>>
    BY <1>4 DEF DisableManager, Runs, At, Goes, OnlyManager, Moves
  <2> USE DEF sound_vars
  <2>2. /\ TypeOK' /\ WorkersAllowed' /\ ActivityTracks' /\ SafeTeardown'
        /\ pc'[t] = "disable_input"
        /\ \A u \in Threads : u # t => pc'[u] = pc[u]
    BY <1>0, <2>1, MovesKeeps DEF TypeOK, Stages
  <2>3. StreamOpen'
    BY <1>0, <2>1, <2>2 DEF IInv, StreamOpen, At, Refusing, May, Moves
  <2>4. StreamStopped'
    BY <1>0, <2>1, <2>2 DEF IInv, WorkersAllowed, StreamStopped, SettingUp, Disabling, Destroying,
       At, Clashing, May, Moves
  <2>5. QueueIsOfThisCall'
    BY <2>1, QueueKept DEF Stages
  <2> QED
    BY <2>2, <2>3, <2>4, <2>5 DEF IInv
<1>5. CASE DisableInput(t)
  <2>1. /\ Moves(t, "disable_output")
        /\ pc[t] = "disable_input"
        /\ input' = [input EXCEPT !.enabled = FALSE]
        /\ UNCHANGED <<manager_vars, sound_vars, output>>
    BY <1>5 DEF DisableInput, Runs, At, Goes, OnlyParts, Moves, manager_vars
  <2> USE DEF manager_vars, sound_vars
  <2>2. /\ input' \in Inputs
        /\ input'.data = input.data /\ input'.exists = input.exists
    BY <1>0, <2>1 DEF Inputs
  <2>3. /\ TypeOK' /\ WorkersAllowed' /\ ActivityTracks' /\ SafeTeardown'
        /\ pc'[t] = "disable_output"
        /\ \A u \in Threads : u # t => pc'[u] = pc[u]
    <3>1. /\ Moves(t, "disable_output") /\ "disable_output" \in Stages
          /\ enabled' \in BOOLEAN /\ session' \in Calls \cup {NoCall}
          /\ stop_threads' \in BOOLEAN /\ user' \in BOOLEAN /\ socket_open' \in BOOLEAN
          /\ buffer' \in Seq(Datagrams) /\ stream' \in {"closed", "stopped", "running"}
          /\ input' \in Inputs /\ output' \in Outputs
      BY <1>0, <2>1, <2>2 DEF TypeOK, Stages
    <3> QED
      BY <3>1, MovesKeeps
  <2>4. StreamOpen'
    BY <1>0, <2>1, <2>3 DEF IInv, StreamOpen, At, Refusing, May, Moves
  <2>5. StreamStopped'
    BY <1>0, <2>1, <2>2, <2>3 DEF IInv, StreamStopped, SettingUp, Disabling, Destroying,
       At, Clashing, May, Moves
  <2>6. QueueIsOfThisCall'
    BY <2>1, <2>2, QueueKept DEF Stages
  <2> QED
    BY <2>3, <2>4, <2>5, <2>6 DEF IInv
<1>6. CASE DisableOutput(t)
  <2>1. /\ Moves(t, "stop_stream")
        /\ pc[t] = "disable_output"
        /\ output' = [output EXCEPT !.enabled = FALSE]
        /\ UNCHANGED <<manager_vars, sound_vars, input>>
    BY <1>6 DEF DisableOutput, Runs, At, Goes, OnlyParts, Moves, manager_vars
  <2> USE DEF manager_vars, sound_vars
  <2>2. output' \in Outputs /\ output'.exists = output.exists
    BY <1>0, <2>1 DEF Outputs
  <2>3. /\ TypeOK' /\ WorkersAllowed' /\ ActivityTracks' /\ SafeTeardown'
        /\ pc'[t] = "stop_stream"
        /\ \A u \in Threads : u # t => pc'[u] = pc[u]
    <3>1. /\ Moves(t, "stop_stream") /\ "stop_stream" \in Stages
          /\ enabled' \in BOOLEAN /\ session' \in Calls \cup {NoCall}
          /\ stop_threads' \in BOOLEAN /\ user' \in BOOLEAN /\ socket_open' \in BOOLEAN
          /\ buffer' \in Seq(Datagrams) /\ stream' \in {"closed", "stopped", "running"}
          /\ input' \in Inputs /\ output' \in Outputs
      BY <1>0, <2>1, <2>2 DEF TypeOK, Stages
    <3> QED
      BY <3>1, MovesKeeps
  <2>4. StreamOpen'
    BY <1>0, <2>1, <2>3 DEF IInv, StreamOpen, At, Refusing, May, Moves
  <2>5. StreamStopped'
    BY <1>0, <2>1, <2>2, <2>3 DEF IInv, StreamStopped, SettingUp, Disabling, Destroying,
       At, Clashing, May, Moves
  <2>6. QueueIsOfThisCall'
    BY <2>1, QueueKept DEF Stages
  <2> QED
    BY <2>3, <2>4, <2>5, <2>6 DEF IInv
<1>7. CASE StopStream(t)
  <2>1. PICK x \in {"set_state", "idle"} : Moves(t, x) /\ (x = "idle" => t \in Workers)
    <3>1. Disabled(t) /\ pc[t] = "stop_stream" /\ ~Gone(t)
      BY <1>7 DEF StopStream, Runs, At
    <3> QED
      BY <1>7, <3>1, DisabledMoves DEF StopStream, Moves
  <2>2. /\ pc[t] = "stop_stream"
        /\ stream' = IF stream = "running" THEN "stopped" ELSE stream
        /\ UNCHANGED <<manager_vars, socket_open, buffer, input, output>>
    BY <1>7 DEF StopStream, Runs, At
  <2> USE DEF manager_vars
  <2>3. /\ TypeOK' /\ WorkersAllowed' /\ ActivityTracks' /\ SafeTeardown'
        /\ pc'[t] = x
        /\ \A u \in Threads : u # t => pc'[u] = pc[u]
    BY <1>0, <2>1, <2>2, MovesKeeps DEF TypeOK, Stages
  <2>4. StreamOpen'
    BY <1>0, <2>1, <2>2, <2>3 DEF IInv, StreamOpen, At, Refusing, May, Moves
  <2>5. StreamStopped'
    BY <1>0, <2>1, <2>2, <2>3 DEF IInv, StreamStopped, SettingUp, Disabling, Destroying,
       At, Clashing, May, Moves
  <2>6. QueueIsOfThisCall'
    BY <2>1, <2>2, QueueKept DEF Stages
  <2> QED
    BY <2>3, <2>4, <2>5, <2>6 DEF IInv
<1>8. ASSUME NEW mute \in BOOLEAN, NEW deafen \in BOOLEAN, SetState(t, mute, deafen)
      PROVE  IInv'
  <2>1. PICK x \in {"stop", "idle"} : Moves(t, x) /\ (x = "stop" <=> t = "cleaner")
    BY <1>0, <1>8 DEF SetState, Runs, At, Goes, Ends, OnlyParts, Moves
  <2>2. /\ pc[t] = "set_state"
        /\ input' = [input EXCEPT !.muted = mute]
        /\ output' = [output EXCEPT !.deafen = deafen]
        /\ UNCHANGED <<manager_vars, sound_vars>>
    BY <1>8 DEF SetState, Runs, At, OnlyParts, manager_vars
  <2> USE DEF manager_vars, sound_vars
  <2>3. /\ input' \in Inputs /\ output' \in Outputs
        /\ input'.data = input.data /\ input'.exists = input.exists
        /\ output'.exists = output.exists
    BY <1>0, <2>2 DEF Inputs, Outputs
  <2>4. /\ TypeOK' /\ WorkersAllowed' /\ ActivityTracks' /\ SafeTeardown'
        /\ pc'[t] = x
        /\ \A u \in Threads : u # t => pc'[u] = pc[u]
    BY <1>0, <2>1, <2>2, <2>3, MovesKeeps DEF TypeOK, Stages
  <2>5. StreamOpen'
    BY <1>0, <2>1, <2>2, <2>4 DEF IInv, StreamOpen, At, Refusing, May, Moves
  <2>6. StreamStopped'
    BY <1>0, <2>1, <2>2, <2>3, <2>4 DEF IInv, StreamStopped, SettingUp, Disabling, Destroying,
       At, Clashing, May, Moves
  <2>7. QueueIsOfThisCall'
    BY <2>1, <2>2, <2>3, QueueKept DEF Stages
  <2> QED
    BY <2>4, <2>5, <2>6, <2>7 DEF IInv
<1> QED
  BY <1>1, <1>2, <1>3, <1>4, <1>5, <1>6, <1>7, <1>8 DEF Shared

-----------------------------------------------------------------------------
\* A worker begins what the user asks for.
LEMMA BeginIInv ==
  ASSUME IInv, broken = "no", NEW w \in Workers, NEW o \in Operations \ {"none"}, Begin(w, o)
  PROVE  IInv'
<1>0. /\ TypeOK
      /\ pc \in [Threads -> Stages] /\ op \in [Workers -> Operations]
      /\ call \in [Workers -> Calls \cup {NoCall}]
      /\ \A v \in Workers : v \in Threads /\ v # "cleaner"
      /\ "cleaner" \in Threads
  BY VoicePipelineAssumption DEF IInv, TypeOK, Threads
<1>1. PICK x \in {"otp", "flush", "disable", "auth_out", "set_state", "close_stream"} :
        /\ pc' = [pc EXCEPT ![w] = x]
        /\ x \in {"otp", "flush"} <=> o = "call"
        /\ x = "auth_out" => o = "logout"
        /\ x = "close_stream" => o = "device"
  BY DEF Begin, Operations
<1>2. /\ pc[w] = "idle" /\ pc["cleaner"] # "gone"
      /\ May("together") \/ \A v \in Workers : pc[v] = "idle"
      /\ pc["cleaner"] = "idle" \/ May("overlap")
      /\ o = "call" => user
      /\ o \in {"logout", "device"} => May(o)
      /\ UNCHANGED <<manager_vars, sound_vars, input, output, activity_vars, reporter,
                     broken, world>>
  BY DEF Begin, Free, At, OnlyManager, Operations
<1>3. joined' \in BOOLEAN /\ calls' \in {NoCall} \cup Calls
      /\ op' \in [Workers -> Operations] /\ call' \in [Workers -> Calls \cup {NoCall}]
  <2>1. calls + 1 \in Calls \/ o # "call"
    BY <1>0, VoicePipelineAssumption DEF TypeOK, Begin, Calls, NoCall
  <2>2. /\ joined' = (o = "call" \/ (joined /\ o \in {"state", "device"}))
        /\ calls' = IF o = "call" THEN calls + 1 ELSE calls
        /\ op' = [op EXCEPT ![w] = o]
        /\ call' = [call EXCEPT ![w] = IF o = "call" THEN calls + 1 ELSE NoCall]
    BY DEF Begin
  <2>3. call' \in [Workers -> Calls \cup {NoCall}]
    BY <1>0, <2>1, <2>2
  <2>4. calls' \in {NoCall} \cup Calls
    BY <1>0, <2>1, <2>2 DEF TypeOK
  <2>5. op' \in [Workers -> Operations]
    BY <1>0, <2>2
  <2>6. joined' \in BOOLEAN
    BY <2>2
  <2> QED
    BY <2>3, <2>4, <2>5, <2>6
<1>4. /\ pc'[w] = x
      /\ \A u \in Threads : u # w => pc'[u] = pc[u]
      /\ pc' \in [Threads -> Stages]
  BY <1>0, <1>1 DEF Stages
<1> USE DEF manager_vars, sound_vars, activity_vars
<1>5. TypeOK'
  BY <1>0, <1>2, <1>3, <1>4 DEF TypeOK
<1>6. WorkersAllowed'
  BY <1>0, <1>1, <1>2, <1>4 DEF IInv, WorkersAllowed, At, May
<1>7. StreamOpen'
  BY <1>0, <1>2, <1>4 DEF IInv, StreamOpen, At, Refusing, May
<1>8. StreamStopped'
  BY <1>0, <1>1, <1>2, <1>4 DEF IInv, StreamStopped, SettingUp, Disabling, Destroying, At,
     Clashing, May
<1>9. QueueIsOfThisCall'
  <2>1. Enabling' <=> Enabling
    BY <1>0, <1>1, <1>2, <1>4 DEF Enabling
  <2> QED
    BY <1>2, <2>1 DEF IInv, QueueIsOfThisCall, Refusing, May
<1>10. ActivityTracks' /\ SafeTeardown'
  BY <1>2 DEF IInv, ActivityTracks, SafeTeardown, Clashing, May
<1> QED
  BY <1>5, <1>6, <1>7, <1>8, <1>9, <1>10 DEF IInv

LEMMA LogsInIInv ==
  ASSUME IInv, broken = "no", LogsIn
  PROVE  IInv'
<1>1. /\ user' = TRUE
      /\ UNCHANGED <<enabled, session, stop_threads, call_vars, sound_vars, input, output,
                     activity_vars, reporter, broken, world>>
  BY DEF LogsIn, OnlyManager
<1> USE DEF call_vars, sound_vars, activity_vars
<1>2. TypeOK'
  BY <1>1 DEF IInv, TypeOK
<1>3. WorkersAllowed' /\ StreamOpen' /\ StreamStopped'
  BY <1>1 DEF IInv, WorkersAllowed, StreamOpen, StreamStopped, At, May, Refusing, Clashing
<1>4. QueueIsOfThisCall' /\ ActivityTracks' /\ SafeTeardown'
  BY <1>1 DEF IInv, QueueIsOfThisCall, Enabling, Refusing, ActivityTracks, SafeTeardown,
     Clashing, May
<1> QED
  BY <1>2, <1>3, <1>4 DEF IInv

\* The steps of enable and of init_stream.
LEMMA WorkerRunsIInv ==
  ASSUME IInv, broken = "no", NEW w \in Workers, WorkerRuns(w)
  PROVE  IInv'
<1>0. /\ TypeOK
      /\ pc \in [Threads -> Stages] /\ input \in Inputs /\ output \in Outputs
      /\ \A v \in Workers : v \in Threads /\ v # "cleaner"
      /\ w \in Threads /\ "cleaner" \in Threads
      /\ call[w] \in Calls \cup {NoCall}
  BY VoicePipelineAssumption DEF IInv, TypeOK, Threads
<1>1. CASE Flush(w)
  <2>1. PICK x \in {"otp", "idle"} : Moves(w, x)
    BY <1>1 DEF Flush, Runs, At, Goes, Ends, Moves
  <2>2. /\ pc[w] = "flush"
        /\ UNCHANGED <<manager_vars, socket_open, stream, input, output>>
        /\ buffer' = buffer \/ (buffer # <<>> /\ buffer' = Tail(buffer))
    BY <1>1 DEF Flush, Runs, At
  <2> USE DEF manager_vars
  <2>3. buffer' \in Seq(Datagrams)
    BY <1>0, <2>2, HeadTailProperties DEF TypeOK
  <2>4. /\ TypeOK' /\ WorkersAllowed' /\ ActivityTracks' /\ SafeTeardown'
        /\ pc'[w] = x
        /\ \A u \in Threads : u # w => pc'[u] = pc[u]
    BY <1>0, <2>1, <2>2, <2>3, MovesKeeps DEF TypeOK, Stages
  <2>5. StreamOpen'
    BY <1>0, <2>1, <2>2, <2>4 DEF IInv, StreamOpen, At, Refusing, May, Moves
  <2>6. StreamStopped'
    BY <1>0, <2>1, <2>2, <2>4 DEF IInv, StreamStopped, SettingUp, Disabling, Destroying,
       At, Clashing, May, Moves
  <2>7. QueueIsOfThisCall'
    BY <1>0, <2>1, <2>2, QueueKept DEF Stages
  <2> QED
    BY <2>4, <2>5, <2>6, <2>7 DEF IInv
<1>2. CASE TakeSession(w)
  <2>1. PICK x \in {"start_stream", "idle"} :
          Moves(w, x) /\ (session' = session \/ (x = "start_stream" /\ session' = call[w]))
    BY <1>2 DEF TakeSession, Runs, At, Goes, Ends, OnlyManager, Moves
  <2>2. /\ pc[w] = "otp"
        /\ UNCHANGED <<enabled, stop_threads, user, sound_vars, input, output>>
    BY <1>2 DEF TakeSession, Runs, At, OnlyManager
  <2> USE DEF sound_vars
  <2>3. session' \in Calls \cup {NoCall}
    BY <1>0, <2>1 DEF TypeOK
  <2>4. /\ TypeOK' /\ WorkersAllowed' /\ ActivityTracks' /\ SafeTeardown'
        /\ pc'[w] = x
        /\ \A u \in Threads : u # w => pc'[u] = pc[u]
    BY <1>0, <2>1, <2>2, <2>3, MovesKeeps DEF TypeOK, Stages
  <2>5. StreamOpen'
    BY <1>0, <2>1, <2>2, <2>4 DEF IInv, StreamOpen, At, Refusing, May, Moves
  <2>6. StreamStopped'
    BY <1>0, <2>1, <2>2, <2>4 DEF IInv, StreamStopped, SettingUp, Disabling, Destroying,
       At, Clashing, May, Moves
  <2>7. QueueIsOfThisCall'
    BY <1>0, <2>1, <2>2, QueueKept DEF Stages
  <2> QED
    BY <2>4, <2>5, <2>6, <2>7 DEF IInv
<1>3. CASE StartStream(w)
  <2>1. PICK x \in {"enable", "idle"} :
          /\ Moves(w, x)
          /\ \/ x = "enable" /\ stream' = "running"
             \/ x = "idle" /\ stream' = stream /\ (stream = "closed" \/ May("audio"))
    BY <1>3 DEF StartStream, Starts, Runs, At, Goes, Ends, Moves
  <2>2. /\ pc[w] = "start_stream" /\ pc["cleaner"] # "gone"
        /\ UNCHANGED <<manager_vars, socket_open, buffer, input, output>>
    BY <1>3 DEF StartStream, Starts, Runs, At, Gone
  <2> USE DEF manager_vars
  <2>3. x = "idle" => Refusing
    <3>1. ASSUME stream = "closed", ~Refusing PROVE FALSE
      <4>1. PICK v \in Workers : pc[v] = "open_stream"
        BY <2>2, <3>1 DEF IInv, StreamOpen, At
      <4>2. May("device") /\ ~May("together")
        BY <3>1, <4>1 DEF IInv, WorkersAllowed, Refusing
      <4> QED
        BY <2>2, <4>1, <4>2 DEF IInv, WorkersAllowed, At
    <3> QED
      BY <2>1, <3>1 DEF Refusing
  <2>4. /\ TypeOK' /\ WorkersAllowed' /\ ActivityTracks' /\ SafeTeardown'
        /\ pc'[w] = x
        /\ \A u \in Threads : u # w => pc'[u] = pc[u]
    BY <1>0, <2>1, <2>2, MovesKeeps DEF TypeOK, Stages
  <2>5. StreamOpen'
    BY <1>0, <2>1, <2>2, <2>3, <2>4 DEF IInv, StreamOpen, At, Refusing, May, Moves
  <2>6. StreamStopped'
    BY <1>0, <2>1, <2>2, <2>4 DEF IInv, StreamStopped, SettingUp, Disabling, Destroying,
       At, Clashing, May, Moves
  <2>7. QueueIsOfThisCall'
    BY <1>0, <2>1, <2>2, <2>3, QueueKept DEF Stages
  <2> QED
    BY <2>4, <2>5, <2>6, <2>7 DEF IInv
<1>4. CASE Enable(w)
  <2>1. /\ Moves(w, "enable_input")
        /\ pc[w] = "enable"
        /\ enabled' = TRUE
        /\ UNCHANGED <<session, stop_threads, user, sound_vars, input, output>>
    BY <1>4 DEF Enable, Runs, At, Goes, OnlyManager, Moves
  <2> USE DEF sound_vars
  <2>2. /\ TypeOK' /\ WorkersAllowed' /\ ActivityTracks' /\ SafeTeardown'
        /\ pc'[w] = "enable_input"
        /\ \A u \in Threads : u # w => pc'[u] = pc[u]
    BY <1>0, <2>1, MovesKeeps DEF TypeOK, Stages
  <2>3. StreamOpen'
    BY <1>0, <2>1, <2>2 DEF IInv, StreamOpen, At, Refusing, May, Moves
  <2>4. StreamStopped'
    BY <1>0, <2>1, <2>2 DEF IInv, StreamStopped, SettingUp, Disabling, Destroying,
       At, Clashing, May, Moves
  <2>5. QueueIsOfThisCall'
    BY <1>0, <2>1, QueueKept DEF Stages
  <2> QED
    BY <2>2, <2>3, <2>4, <2>5 DEF IInv
<1>5. CASE EnableInput(w)
  <2>1. /\ Moves(w, "enable_output")
        /\ pc[w] = "enable_input"
        /\ input' = [input EXCEPT !.enabled = TRUE, !.data = <<>>]
        /\ UNCHANGED <<manager_vars, sound_vars, output>>
    BY <1>5 DEF EnableInput, Runs, At, Goes, OnlyParts, Moves, manager_vars
  <2> USE DEF manager_vars, sound_vars
  <2>2. /\ input' \in Inputs
        /\ input'.data = <<>> /\ input'.exists = input.exists
    BY <1>0, <2>1, EmptySeq DEF Inputs
  <2>3. /\ TypeOK' /\ WorkersAllowed' /\ ActivityTracks' /\ SafeTeardown'
        /\ pc'[w] = "enable_output"
        /\ \A u \in Threads : u # w => pc'[u] = pc[u]
    BY <1>0, <2>1, <2>2, MovesKeeps DEF TypeOK, Stages
  <2>4. StreamOpen'
    BY <1>0, <2>1, <2>3 DEF IInv, StreamOpen, At, Refusing, May, Moves
  <2>5. StreamStopped'
    BY <1>0, <2>1, <2>2, <2>3 DEF IInv, StreamStopped, SettingUp, Disabling, Destroying,
       At, Clashing, May, Moves
  <2>6. QueueIsOfThisCall'
    BY <2>2 DEF QueueIsOfThisCall
  <2> QED
    BY <2>3, <2>4, <2>5, <2>6 DEF IInv
<1>6. CASE EnableOutput(w)
  <2>1. /\ Moves(w, "idle")
        /\ pc[w] = "enable_output"
        /\ output' = [output EXCEPT !.enabled = TRUE, !.data = 0]
        /\ UNCHANGED <<manager_vars, sound_vars, input>>
    BY <1>6 DEF EnableOutput, Runs, At, Ends, OnlyParts, Moves, manager_vars
  <2> USE DEF manager_vars, sound_vars
  <2>2. output' \in Outputs /\ output'.exists = output.exists
    BY <1>0, <2>1 DEF Outputs
  <2>3. /\ TypeOK' /\ WorkersAllowed' /\ ActivityTracks' /\ SafeTeardown'
        /\ pc'[w] = "idle"
        /\ \A u \in Threads : u # w => pc'[u] = pc[u]
    BY <1>0, <2>1, <2>2, MovesKeeps DEF TypeOK, Stages
  <2>4. StreamOpen'
    BY <1>0, <2>1, <2>3 DEF IInv, StreamOpen, At, Refusing, May, Moves
  <2>5. StreamStopped'
    BY <1>0, <2>1, <2>2, <2>3 DEF IInv, StreamStopped, SettingUp, Disabling, Destroying,
       At, Clashing, May, Moves
  <2>6. QueueIsOfThisCall'
    BY <1>0, <2>1, QueueKept DEF Stages
  <2> QED
    BY <2>3, <2>4, <2>5, <2>6 DEF IInv
<1>7. CASE CloseStream(w)
  <2>1. /\ Moves(w, "open_stream")
        /\ pc[w] = "close_stream"
        /\ stream' = "closed"
        /\ UNCHANGED <<manager_vars, socket_open, buffer, input, output>>
    BY <1>7 DEF CloseStream, Runs, At, Goes, Moves
  <2> USE DEF manager_vars
  <2>2. /\ TypeOK' /\ WorkersAllowed' /\ ActivityTracks' /\ SafeTeardown'
        /\ pc'[w] = "open_stream"
        /\ \A u \in Threads : u # w => pc'[u] = pc[u]
    <3>1. May("device")
      BY <2>1 DEF IInv, WorkersAllowed
    <3> QED
      BY <1>0, <2>1, <3>1, MovesKeeps DEF TypeOK, Stages
  <2>3. StreamOpen'
    BY <2>2 DEF StreamOpen, At
  <2>4. StreamStopped'
    BY <1>0, <2>1, <2>2 DEF IInv, StreamStopped, SettingUp, Disabling, Destroying,
       At, Clashing, May, Moves
  <2>5. QueueIsOfThisCall'
    BY <1>0, <2>1, QueueKept DEF Stages
  <2> QED
    BY <2>2, <2>3, <2>4, <2>5 DEF IInv
<1>8. CASE OpenStream(w)
  <2>1. PICK x \in {"restart_stream", "idle"} :
          /\ Moves(w, x)
          /\ \/ stream' = "stopped"
             \/ stream' = stream /\ (stream # "closed" \/ May("audio"))
    BY <1>8 DEF OpenStream, Runs, At, Goes, Ends, Moves
  <2>2. /\ pc[w] = "open_stream"
        /\ UNCHANGED <<manager_vars, socket_open, buffer, input, output>>
    BY <1>8 DEF OpenStream, Runs, At
  <2> USE DEF manager_vars
  <2>3. /\ TypeOK' /\ WorkersAllowed' /\ ActivityTracks' /\ SafeTeardown'
        /\ pc'[w] = x
        /\ \A u \in Threads : u # w => pc'[u] = pc[u]
    <3>1. May("device")
      BY <2>2 DEF IInv, WorkersAllowed
    <3> QED
      BY <1>0, <2>1, <2>2, <3>1, MovesKeeps DEF TypeOK, Stages
  <2>4. StreamOpen'
    BY <2>1 DEF StreamOpen, Refusing, May, Moves
  <2>5. StreamStopped'
    BY <1>0, <2>1, <2>2, <2>3 DEF IInv, StreamStopped, SettingUp, Disabling, Destroying,
       At, Clashing, May, Moves
  <2>6. QueueIsOfThisCall'
    BY <1>0, <2>1, <2>2, QueueKept DEF Stages
  <2> QED
    BY <2>3, <2>4, <2>5, <2>6 DEF IInv
<1>9. CASE RestartStream(w)
  <2>1. PICK x \in {"start_again", "idle"} : Moves(w, x) /\ (x = "start_again" => enabled)
    BY <1>9 DEF RestartStream, Runs, At, Goes, Ends, OnlyManager, Moves
  <2>2. /\ pc[w] = "restart_stream"
        /\ UNCHANGED <<manager_vars, sound_vars, input, output>>
    BY <1>9 DEF RestartStream, Runs, At, OnlyManager
  <2> USE DEF manager_vars, sound_vars
  <2>3. /\ TypeOK' /\ WorkersAllowed' /\ ActivityTracks' /\ SafeTeardown'
        /\ pc'[w] = x
        /\ \A u \in Threads : u # w => pc'[u] = pc[u]
    <3>1. May("device")
      BY <2>2 DEF IInv, WorkersAllowed
    <3> QED
      BY <1>0, <2>1, <2>2, <3>1, MovesKeeps DEF TypeOK, Stages
  <2>4. StreamOpen'
    BY <1>0, <2>1, <2>2, <2>3 DEF IInv, StreamOpen, At, Refusing, May, Moves
  <2>5. StreamStopped'
    BY <1>0, <2>1, <2>2, <2>3 DEF IInv, StreamStopped, SettingUp, Disabling, Destroying,
       At, Clashing, May, Moves
  <2>6. QueueIsOfThisCall'
    BY <1>0, <2>1, <2>2, QueueKept DEF Stages
  <2> QED
    BY <2>3, <2>4, <2>5, <2>6 DEF IInv
<1>10. CASE StartAgain(w)
  <2>1. /\ Moves(w, "idle")
        /\ stream' = "running" \/ stream' = stream
        /\ pc[w] = "start_again"
        /\ UNCHANGED <<manager_vars, socket_open, buffer, input, output>>
    BY <1>10 DEF StartAgain, Starts, Runs, At, Goes, Ends, Moves
  <2> USE DEF manager_vars
  <2>2. /\ TypeOK' /\ WorkersAllowed' /\ ActivityTracks' /\ SafeTeardown'
        /\ pc'[w] = "idle"
        /\ \A u \in Threads : u # w => pc'[u] = pc[u]
    BY <1>0, <2>1, MovesKeeps DEF TypeOK, Stages
  <2>3. StreamOpen'
    BY <1>0, <2>1, <2>2 DEF IInv, StreamOpen, At, Refusing, May, Moves
  <2>4. StreamStopped'
    BY <1>0, <2>1, <2>2 DEF IInv, StreamStopped, SettingUp, Disabling, Destroying,
       At, Clashing, May, Moves
  <2>5. QueueIsOfThisCall'
    BY <1>0, <2>1, QueueKept DEF Stages
  <2> QED
    BY <2>2, <2>3, <2>4, <2>5 DEF IInv
<1> QED
  BY <1>1, <1>2, <1>3, <1>4, <1>5, <1>6, <1>7, <1>8, <1>9, <1>10 DEF WorkerRuns

-----------------------------------------------------------------------------
LEMMA CleanIInv ==
  ASSUME IInv, broken = "no", Clean
  PROVE  IInv'
<1>0. /\ TypeOK
      /\ pc \in [Threads -> Stages]
      /\ \A v \in Workers : v \in Threads /\ v # "cleaner"
      /\ "cleaner" \in Threads
  BY VoicePipelineAssumption DEF IInv, TypeOK, Threads
<1>1. PICK x \in {"auth_out", "stop"} :
        /\ pc' = [pc EXCEPT !["cleaner"] = x]
        /\ x = "stop" => ~user
  BY DEF Clean, Goes
<1>2. /\ UNCHANGED <<joined, calls, op, call, manager_vars, sound_vars, input, output,
                     activity_vars, reporter, broken, world>>
      /\ pc["cleaner"] = "idle"
      /\ (\A w \in Workers : pc[w] = "idle") \/ May("overlap")
  BY DEF Clean, OnlyManager, Goes, At
<1>3. /\ pc' \in [Threads -> Stages]
      /\ pc'["cleaner"] = x
      /\ \A u \in Threads : u # "cleaner" => pc'[u] = pc[u]
  BY <1>0, <1>1 DEF Stages
<1> USE DEF manager_vars, sound_vars, activity_vars
<1>4. TypeOK'
  BY <1>0, <1>2, <1>3 DEF TypeOK
<1>5. WorkersAllowed' /\ StreamOpen'
  BY <1>0, <1>1, <1>2, <1>3 DEF IInv, WorkersAllowed, StreamOpen, At, Refusing, May
<1>6. StreamStopped'
  <2> USE DEF StreamStopped, SettingUp, Disabling, Destroying, At, Clashing, May
  <2>1. StreamStopped
    BY DEF IInv
  <2>2. \A u \in Threads : u \in Workers \/ u = "cleaner"
    BY DEF Threads
  <2>3. CASE x = "auth_out"
    BY <1>0, <1>2, <1>3, <2>1, <2>3
  <2>4. CASE x = "stop"
    <3>1. ~Clashing => \A u \in Threads : pc[u] = "idle"
      BY <1>2, <2>2
    <3>2. ~Clashing => ~enabled
      BY <1>1, <2>1, <2>4, <3>1
    <3>3. ~Clashing => stream # "running"
      BY <1>0, <2>1, <3>1, <3>2
    <3> QED
      BY <1>0, <1>2, <1>3, <2>1, <2>4, <3>1, <3>2, <3>3
  <2> QED
    BY <2>3, <2>4
<1>7. QueueIsOfThisCall' /\ ActivityTracks' /\ SafeTeardown'
  BY <1>0, <1>2, <1>3 DEF IInv, QueueIsOfThisCall, Enabling, Refusing, ActivityTracks,
     SafeTeardown, Clashing, May
<1> QED
  BY <1>4, <1>5, <1>6, <1>7 DEF IInv

\* The steps of destroy: from a stage of it to the next.
LEMMA CleansIInv ==
  ASSUME IInv, broken = "no", Cleans
  PROVE  IInv'
<1>0. /\ TypeOK
      /\ pc \in [Threads -> Stages]
      /\ \A v \in Workers : v \in Threads /\ v # "cleaner"
      /\ "cleaner" \in Threads
  BY VoicePipelineAssumption DEF IInv, TypeOK, Threads
<1>1. PICK x \in Destroying :
        /\ pc' = [pc EXCEPT !["cleaner"] = x]
        /\ pc["cleaner"] \in Destroying \ {"gone"}
        /\ Close => x = "gone"
  BY DEF Cleans, StopThreads, JoinReporter, CloseSocket, WakeInput, JoinInput, JoinOutput,
         Close, Goes, At, Destroying
<1>2. /\ UNCHANGED <<joined, calls, op, call, enabled, session, user, activity_vars, reporter,
                     broken, world>>
      /\ stop_threads' \in BOOLEAN
      /\ socket_open' \in BOOLEAN
      /\ buffer' \in {buffer, <<>>}
      /\ stream' = stream \/ (stream' = "closed" /\ Close)
  BY <1>0 DEF TypeOK, Cleans, StopThreads, JoinReporter, CloseSocket, WakeInput, JoinInput,
     JoinOutput, Close, Goes, OnlyManager, manager_vars, sound_vars
<1>3. /\ pc' \in [Threads -> Stages]
      /\ pc'["cleaner"] = x
      /\ \A u \in Threads : u # "cleaner" => pc'[u] = pc[u]
  BY <1>0, <1>1 DEF Stages, Destroying
<1>4. input' \in Inputs /\ output' \in Outputs /\ input'.data = input.data
  <2>1. input \in Inputs /\ output \in Outputs
    BY <1>0 DEF TypeOK
  <2>2. CASE WakeInput
    BY <2>1, <2>2 DEF WakeInput, Inputs
  <2>3. CASE JoinInput
    BY <2>1, <2>3 DEF JoinInput, Outputs
  <2>4. CASE StopThreads \/ JoinReporter \/ CloseSocket \/ JoinOutput \/ Close
    BY <2>1, <2>4 DEF StopThreads, JoinReporter, CloseSocket, JoinOutput, Close, OnlyManager
  <2> QED
    BY <2>2, <2>3, <2>4 DEF Cleans
<1>5. TypeOK'
  <2>1. buffer' \in Seq(Datagrams)
    BY <1>0, <1>2, EmptySeq DEF TypeOK
  <2> QED
    BY <1>0, <1>2, <1>3, <1>4, <2>1 DEF TypeOK, activity_vars
<1>6. WorkersAllowed' /\ StreamOpen'
  BY <1>0, <1>1, <1>2, <1>3 DEF IInv, WorkersAllowed, StreamOpen, At, Refusing, May, Destroying
<1>7. StreamStopped'
  BY <1>0, <1>1, <1>2, <1>3 DEF IInv, StreamStopped, SettingUp, Disabling, Destroying, At,
     Clashing, May
<1>8. QueueIsOfThisCall'
  BY <1>0, <1>2, <1>3, <1>4 DEF IInv, QueueIsOfThisCall, Enabling, Refusing, May
<1>9. ActivityTracks' /\ SafeTeardown'
  BY <1>2 DEF IInv, ActivityTracks, SafeTeardown, Clashing, May, activity_vars
<1> QED
  BY <1>5, <1>6, <1>7, <1>8, <1>9 DEF IInv

LEMMA NextIInv == IInv /\ [Next]_vars => IInv'
<1> SUFFICES ASSUME IInv, [Next]_vars PROVE IInv'
  OBVIOUS
<1>1. CASE UNCHANGED vars
  <2>1. TypeOK'
    BY <1>1 DEF IInv, TypeOK, vars, manager_vars, sound_vars, activity_vars, call_vars
  <2> USE DEF vars, manager_vars, sound_vars, activity_vars, call_vars
  <2>2. WorkersAllowed' /\ StreamOpen' /\ StreamStopped'
    BY <1>1 DEF IInv, WorkersAllowed, StreamOpen, StreamStopped, At, May, Refusing, Clashing
  <2>3. QueueIsOfThisCall' /\ ActivityTracks' /\ SafeTeardown'
    BY <1>1 DEF IInv, QueueIsOfThisCall, Enabling, Refusing, ActivityTracks, SafeTeardown,
       Clashing, May
  <2> QED
    BY <2>1, <2>2, <2>3 DEF IInv
<1>2. CASE Next
  <2>1. broken = "no"
    BY <1>2 DEF Next
  <2>2. CASE ThreadStep
    BY <2>1, <2>2, ThreadStepIInv
  <2>3. CASE Callback
    BY <2>1, <2>3, CallbackIInv
  <2>4. CASE \E w \in Workers : UsesNothing(w) \/ QueueInUse(w) \/ WorkerRuns(w)
    BY <2>1, <2>4, UsesNothingIInv, QueueInUseIInv, WorkerRunsIInv
  <2>5. CASE \E t \in Threads : Shared(t)
    BY <2>1, <2>5, SharedIInv
  <2>6. CASE \E w \in Workers, o \in Operations \ {"none"} : Begin(w, o)
    BY <2>1, <2>6, BeginIInv
  <2>7. CASE LogsIn \/ Clean \/ Cleans
    BY <2>1, <2>7, LogsInIInv, CleanIInv, CleansIInv
  <2> QED
    BY <1>2, <2>2, <2>3, <2>4, <2>5, <2>6, <2>7 DEF Next, ThreadStep
<1> QED
  BY <1>1, <1>2

THEOREM InductiveInvariant == Spec => []IInv
<1>1. Init => IInv
  BY InitIInv
<1>2. IInv /\ [Next]_vars => IInv'
  BY NextIInv
<1> QED
  BY <1>1, <1>2, PTL DEF Spec

\* Every variable keeps its type.
THEOREM TypeCorrect == Spec => []TypeOK
<1>1. IInv => TypeOK
  BY DEF IInv
<1> QED
  BY <1>1, InductiveInvariant, PTL

\* The interface is never told less, or more, than who is speaking: whatever the
\* input, the output and the activation thread do at the same time, in any
\* number of calls.
THEOREM ActivityAlwaysTracks == Spec => []ActivityTracks
<1>1. IInv => ActivityTracks
  BY DEF IInv
<1> QED
  BY <1>1, InductiveInvariant, PTL

\* No frame recorded in one call waits to be sent in the next, in any number of
\* calls that overlap each other in any way.
THEOREM QueueAlwaysOfThisCall == Spec => []QueueIsOfThisCall
<1>1. IInv => QueueIsOfThisCall
  BY DEF IInv
<1> QED
  BY <1>1, InductiveInvariant, PTL

\* However the user's calls overlap each other as they are made, left and
\* switched, the stream is stopped before the input and the output are destroyed;
\* but for a change of device or a logout beside another call, and for a call that
\* overlaps the cleaning of the connection.
THEOREM TeardownAlwaysSafe == Spec => []SafeTeardown
<1>1. IInv => SafeTeardown
  BY DEF IInv
<1> QED
  BY <1>1, InductiveInvariant, PTL

\* When no call runs, the stream runs only with the voice enabled, whatever calls,
\* leaves and refused streams came before; the clashes of SafeTeardown are exempt.
THEOREM MicrophoneAlwaysOff == Spec => []MicrophoneOff
<1>1. IInv => MicrophoneOff
  BY DEF IInv, StreamStopped, MicrophoneOff, Disabling, At, Threads
<1> QED
  BY <1>1, InductiveInvariant, PTL
=============================================================================
