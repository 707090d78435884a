---------------------------- MODULE VoicePipeline ----------------------------
(***************************************************************************)
(* The voice manager of a client (core/voice): the thread that records and *)
(* sends, the thread that receives and plays, the thread that tells the    *)
(* interface who is speaking, the callback of the audio library, the       *)
(* workers that run the user's calls, none of them under a mutex, and the  *)
(* thread that cleans the connection and destroys the manager.             *)
(*                                                                         *)
(* A recorded frame is the call it was recorded in, a datagram its speaker *)
(* and the call whose keys encrypt it, a frame to play is counted.         *)
(* The library, the socket and the server are external: closing the socket *)
(* ends a receive that is under way.                                       *)
(***************************************************************************)
EXTENDS Integers, Sequences

CONSTANTS
  Users,     \* those who may speak in a call
  Me,        \* the user of this client
  Workers,   \* the threads that run what the user asks for
  MaxCalls,  \* bound on the calls that are set up
  MaxQueue,  \* bound on each queue of frames and on the socket's buffer
  Worlds     \* the sets of events that may happen together

\* overlap: the connection is cleaned while a call of the user's runs;
\* audio: the library refuses to open or start the stream; net: a send or a
\* receive fails; again: there is more than one call; switch: the next is joined
\* from within a call; speech: others speak; late: datagrams that the keys do
\* not decrypt arrive; together: the user's calls overlap each other; the rest:
\* what the user does besides calling and leaving.
Happenings == {"overlap", "audio", "net", "again", "switch", "speech", "late",
               "together", "device", "state", "logout"}

ASSUME VoicePipelineAssumption ==
  /\ Me \in Users
  /\ "cleaner" \notin Workers
  /\ MaxCalls \in Nat \ {0}
  /\ MaxQueue \in Nat \ {0}
  /\ Worlds \subseteq SUBSET Happenings

VARIABLES
  enabled,       \* _enabled of the manager
  session,       \* the call whose session id and keys the manager has
  stop_threads,  \* _stop_threads
  user,          \* whether the auth module has a user
  socket_open,
  buffer,        \* the datagrams the socket holds
  stream,        \* the state of the RtAudio stream
  input,         \* _input: its flags, queue, and thread
  output,        \* _output: its flags, queue, and thread
  activation,    \* _voice_activation: "old" once the timeout has passed
  changed,       \* the users of _changed_voice_activity (all activated)
  ui,            \* the users the interface shows as speaking
  reporter,      \* whether the activation thread runs
  joined,        \* whether the server has the user in a call
  calls,         \* how many calls it has let the user into
  pc,            \* where the workers and the cleaning thread are
  op,            \* what each worker runs
  call,          \* the call whose keys a worker is bringing to the manager
  broken,        \* what undefined behaviour was met
  world

call_vars == <<joined, calls, pc, op, call>>
activity_vars == <<activation, changed, ui>>
manager_vars == <<enabled, session, stop_threads, user>>
sound_vars == <<socket_open, buffer, stream>>
vars == <<manager_vars, sound_vars, input, output, activity_vars, reporter,
          call_vars, broken, world>>

Calls == 1..MaxCalls
NoCall == 0
Datagrams == [user : Users \ {Me}, call : Calls \cup {NoCall}]
NoDatagram == [user |-> Me, call |-> NoCall]
Threads == Workers \cup {"cleaner"}
Stages == {"idle", "flush", "otp", "start_stream", "enable", "enable_input",
           "enable_output", "auth_out", "disable", "disable_manager",
           "disable_input", "disable_output", "stop_stream", "set_state",
           "close_stream", "open_stream", "restart_stream", "start_again",
           "stop", "join_reporter", "close_socket", "wake_input",
           "join_input", "join_output", "close", "gone"}
Operations == {"none", "call", "leave", "logout", "state", "device"}

\* The parts, and where their threads are.
Inputs == [exists : BOOLEAN, enabled : BOOLEAN, muted : BOOLEAN,
           data : Seq(Calls \cup {NoCall}),
           at : {"top", "wait", "tested", "blocked", "frame", "built", "ended"}]
Outputs == [exists : BOOLEAN, enabled : BOOLEAN, deafen : BOOLEAN,
            data : Nat, frame : Datagrams \cup {NoDatagram},
            at : {"top", "receive", "datagram", "voice", "ended"}]

TypeOK ==
  /\ enabled \in BOOLEAN
  /\ session \in Calls \cup {NoCall}
  /\ stop_threads \in BOOLEAN
  /\ user \in BOOLEAN
  /\ socket_open \in BOOLEAN
  /\ buffer \in Seq(Datagrams)
  /\ stream \in {"closed", "stopped", "running"}
  /\ input \in Inputs
  /\ output \in Outputs
  /\ activation \in [Users -> {"off", "fresh", "old"}]
  /\ changed \in SUBSET Users
  /\ ui \in SUBSET Users
  /\ reporter \in BOOLEAN
  /\ joined \in BOOLEAN
  /\ calls \in {NoCall} \cup Calls
  /\ pc \in [Threads -> Stages]
  /\ op \in [Workers -> Operations]
  /\ call \in [Workers -> Calls \cup {NoCall}]
  /\ broken \in {"no", "no_input", "no_output", "no_user", "queue", "freed"}
  /\ world \in Worlds

\* The state that connected leaves: the constructor has begun the three
\* threads, init has opened the stream.  The user has logged in since.
Init ==
  /\ enabled = FALSE
  /\ session = NoCall
  /\ stop_threads = FALSE
  /\ user = TRUE
  /\ socket_open = TRUE
  /\ buffer = <<>>
  /\ stream = "stopped"
  /\ input = [exists |-> TRUE, enabled |-> FALSE, muted |-> FALSE,
              data |-> <<>>, at |-> "top"]
  /\ output = [exists |-> TRUE, enabled |-> FALSE, deafen |-> FALSE,
               data |-> 0, frame |-> NoDatagram, at |-> "top"]
  /\ activation = [u \in Users |-> "off"]
  /\ changed = {}
  /\ ui = {}
  /\ reporter = TRUE
  /\ joined = FALSE
  /\ calls = 0
  /\ pc = [t \in Threads |-> "idle"]
  /\ op = [w \in Workers |-> "none"]
  /\ call = [w \in Workers |-> NoCall]
  /\ broken = "no"
  /\ world \in Worlds

At(t, stage) == pc[t] = stage
Goes(t, stage) == /\ pc' = [pc EXCEPT ![t] = stage]
                  /\ UNCHANGED <<joined, calls, op, call>>
\* What the worker runs ends, with a result or an exception.
Ends(w) == /\ pc' = [pc EXCEPT ![w] = "idle"]
           /\ op' = [op EXCEPT ![w] = "none"]
           /\ call' = [call EXCEPT ![w] = NoCall]
           /\ UNCHANGED <<joined, calls>>
May(happening) == happening \in world

(***************************************************************************)
(* Who is speaking: all of it under _activation_mutex                      *)
(***************************************************************************)

\* activate_voice: a user who is not active becomes so and is to be reported,
\* another's last activation is renewed.
ActivateVoice(u) ==
  /\ activation' = [activation EXCEPT ![u] = "fresh"]
  /\ changed' = IF activation[u] = "off" THEN changed \cup {u} ELSE changed
  /\ UNCHANGED ui

\* DEACTIVIATION_TIMEOUT_MS pass since u was last activated.
Ages(u) ==
  /\ activation[u] = "fresh"
  /\ activation' = [activation EXCEPT ![u] = "old"]
  /\ UNCHANGED <<manager_vars, sound_vars, input, output, changed, ui, reporter,
                 call_vars, broken, world>>

TimedOut == {u \in Users : activation[u] = "old"}

\* A slip of Report: the deactivation is not among the reported changes.
ReportActivationsOnly ==
  /\ reporter /\ ~stop_threads
  /\ enabled
  /\ activation' = [u \in Users |->
                      IF u \in TimedOut THEN "off" ELSE activation[u]]
  /\ ui' = ui \cup changed
  /\ changed' = {}
  /\ UNCHANGED <<manager_vars, sound_vars, input, output, reporter, call_vars,
                 broken, world>>

\* Another: the round is skipped unless a user was activated.
ReportActivatedOnly ==
  /\ reporter /\ ~stop_threads
  /\ enabled
  /\ changed # {}
  /\ activation' = [u \in Users |->
                      IF u \in TimedOut THEN "off" ELSE activation[u]]
  /\ ui' = (ui \cup changed) \ TimedOut
  /\ changed' = {}
  /\ UNCHANGED <<manager_vars, sound_vars, input, output, reporter, call_vars,
                 broken, world>>

\* One round of voice_activation_thread: whoever timed out is deactivated, and
\* the interface is told of all the changes.
Report ==
  /\ reporter /\ ~stop_threads
  /\ enabled
  /\ activation' = [u \in Users |->
                      IF u \in TimedOut THEN "off" ELSE activation[u]]
  /\ ui' = (ui \cup changed) \ TimedOut
  /\ changed' = {}
  /\ UNCHANGED <<manager_vars, sound_vars, input, output, reporter, call_vars,
                 broken, world>>

ReporterEnds ==
  /\ reporter /\ stop_threads
  /\ reporter' = FALSE
  /\ UNCHANGED <<manager_vars, sound_vars, input, output, activity_vars,
                 call_vars, broken, world>>

(***************************************************************************)
(* The thread of the input                                                 *)
(***************************************************************************)

\* Outside the manager's other parts, a step of the input thread.
OnlyInput == UNCHANGED <<manager_vars, sound_vars, output, reporter, call_vars,
                         world>>

InputLoops ==
  /\ input.at = "top"
  /\ \/ /\ stop_threads
        /\ input' = [input EXCEPT !.at = "ended"]
     \/ /\ ~stop_threads /\ input.enabled
        /\ input' = [input EXCEPT !.at = "wait"]
  /\ OnlyInput /\ UNCHANGED <<activity_vars, broken>>

\* The predicate of the condition variable, then the frame that is taken with
\* the mutex held to the end of the round.
InputTests ==
  /\ input.at = "wait"
  /\ input' =
       IF stop_threads THEN [input EXCEPT !.at = "ended"]
       ELSE IF input.data = <<>> THEN [input EXCEPT !.at = "tested"]
       ELSE IF input.muted
         THEN [input EXCEPT !.at = "top", !.data = Tail(@)]
         ELSE [input EXCEPT !.at = "frame", !.data = Tail(@)]
  /\ OnlyInput /\ UNCHANGED <<activity_vars, broken>>

\* The predicate was false: the thread gives up the mutex and waits.
InputBlocks ==
  /\ input.at = "tested"
  /\ input' = [input EXCEPT !.at = "blocked"]
  /\ OnlyInput /\ UNCHANGED <<activity_vars, broken>>

\* The frame is silence, or it is voice: the user is active, and the packet is
\* made.  The user's id is read of the auth module.
InputProcesses ==
  /\ input.at = "frame"
  /\ \/ /\ input' = [input EXCEPT !.at = "top"]
        /\ UNCHANGED <<activity_vars, broken>>
     \/ /\ user
        /\ ActivateVoice(Me)
        /\ input' = [input EXCEPT !.at = "built"]
        /\ UNCHANGED broken
     \/ /\ ~user
        /\ broken' = "no_user"
        /\ UNCHANGED <<input, activity_vars>>
  /\ OnlyInput

\* A send that fails ends the thread.
InputSends ==
  /\ input.at = "built"
  /\ \/ /\ socket_open
        /\ input' = [input EXCEPT !.at = "top"]
     \/ /\ ~socket_open \/ May("net")
        /\ input' = [input EXCEPT !.at = "ended"]
  /\ OnlyInput /\ UNCHANGED <<activity_vars, broken>>

Input == \/ InputLoops \/ InputTests \/ InputBlocks \/ InputProcesses
         \/ InputSends

(***************************************************************************)
(* The thread of the output                                                *)
(***************************************************************************)

OnlyOutput == UNCHANGED <<manager_vars, socket_open, stream, input, reporter,
                          call_vars, broken, world>>

OutputLoops ==
  /\ output.at = "top"
  /\ \/ /\ stop_threads
        /\ output' = [output EXCEPT !.at = "ended"]
     \/ /\ ~stop_threads /\ output.enabled
        /\ output' = [output EXCEPT !.at = "receive"]
  /\ OnlyOutput /\ UNCHANGED <<buffer, activity_vars>>

\* receive_from blocks until there is a datagram or the socket fails.
OutputReceives ==
  /\ output.at = "receive"
  /\ \/ /\ socket_open /\ buffer # <<>>
        /\ output' = [output EXCEPT !.at = "datagram", !.frame = Head(buffer)]
        /\ buffer' = Tail(buffer)
     \/ /\ ~socket_open \/ May("net")
        /\ output' = [output EXCEPT !.at = "ended"]
        /\ UNCHANGED buffer
  /\ OnlyOutput /\ UNCHANGED activity_vars

\* Only what the keys of the manager decrypt is voice.
OutputDecrypts ==
  /\ output.at = "datagram"
  /\ IF output.frame.call = session /\ session # NoCall
     THEN /\ ActivateVoice(output.frame.user)
          /\ output' = [output EXCEPT !.at = "voice", !.frame = NoDatagram]
     ELSE /\ output' = [output EXCEPT !.at = "top", !.frame = NoDatagram]
          /\ UNCHANGED activity_vars
  /\ OnlyOutput /\ UNCHANGED buffer

OutputQueues ==
  /\ output.at = "voice"
  /\ output' =
       [output EXCEPT !.at = "top",
                      !.data = IF output.deafen THEN @ ELSE @ + 1]
  /\ OnlyOutput /\ UNCHANGED <<buffer, activity_vars>>

Output == OutputLoops \/ OutputReceives \/ OutputDecrypts \/ OutputQueues

(***************************************************************************)
(* The audio library and the network                                       *)
(***************************************************************************)

\* The input thread holds _data_mutex.
InputLocked == input.at \in {"tested", "frame", "built"}

\* rt_callback: a recorded frame to the queue of the input, which is notified,
\* and a frame to play from the queue of the output.
Callback ==
  /\ stream = "running"
  /\ \/ /\ ~input.exists \/ ~output.exists
        /\ broken' = IF input.exists THEN "no_output" ELSE "no_input"
        /\ UNCHANGED <<input, output>>
     \/ /\ input.exists /\ output.exists
        /\ ~InputLocked
        /\ Len(input.data) < MaxQueue
        /\ input' = [input EXCEPT !.data = Append(@, session),
                                  !.at = IF @ = "blocked" THEN "wait" ELSE @]
        /\ output' = [output EXCEPT !.data = IF @ = 0 THEN 0 ELSE @ - 1]
        /\ UNCHANGED broken
  /\ UNCHANGED <<manager_vars, sound_vars, activity_vars, reporter, call_vars,
                 world>>

\* A datagram comes to the socket: of the session, or one its keys do not
\* decrypt.  MaxQueue bounds what has come and is not played.
Unplayed == Len(buffer) + output.data
            + (IF output.at \in {"datagram", "voice"} THEN 1 ELSE 0)
Arrives ==
  /\ socket_open /\ Unplayed < MaxQueue
  /\ session # NoCall
  /\ \E u \in Users \ {Me}, c \in {session, NoCall} :
       /\ c = session => May("speech")
       /\ c = NoCall => May("late")
       /\ buffer' = Append(buffer, [user |-> u, call |-> c])
  /\ UNCHANGED <<manager_vars, socket_open, stream, input, output,
                 activity_vars, reporter, call_vars, broken, world>>

(***************************************************************************)
(* What the workers and the cleaning thread share                          *)
(***************************************************************************)

\* A step that uses the manager, or an object of it, that is gone.
Gone(t) == t \in Workers /\ pc["cleaner"] = "gone"
NoInput(t) == ~input.exists
              /\ pc[t] \in {"enable_input", "disable_input", "set_state"}
NoOutput(t) == ~output.exists
               /\ pc[t] \in {"enable_output", "disable_output", "set_state"}
Runs(t, stage) == At(t, stage) /\ ~Gone(t) /\ ~NoInput(t) /\ ~NoOutput(t)
OnlyManager == UNCHANGED <<sound_vars, input, output, activity_vars, reporter,
                           broken, world>>
OnlyParts == UNCHANGED <<session, stop_threads, user, sound_vars, activity_vars,
                         reporter, broken, world>>

UsesNothing(w) ==
  /\ pc[w] # "idle"
  /\ \/ Gone(w) /\ broken' = "freed"
     \/ NoInput(w) /\ ~Gone(w) /\ broken' = "no_input"
     \/ NoOutput(w) /\ ~Gone(w) /\ broken' = "no_output"
  /\ UNCHANGED <<manager_vars, sound_vars, input, output, activity_vars,
                 reporter, call_vars, world>>

\* auth()->logged_out() comes before voice()->logged_out().
AuthOut(t) ==
  /\ Runs(t, "auth_out")
  /\ user' = FALSE
  /\ Goes(t, "disable")
  /\ UNCHANGED <<enabled, session, stop_threads>>
  /\ OnlyManager

\* The end of disable; logged_out resets the mute state then.
Disabled(t) == IF t = "cleaner" \/ (t \in Workers /\ op[t] = "logout")
               THEN Goes(t, "set_state") ELSE Ends(t)

Disable(t) ==
  /\ Runs(t, "disable")
  /\ IF enabled THEN Goes(t, "disable_manager") ELSE Disabled(t)
  /\ UNCHANGED manager_vars /\ OnlyManager

DisableManager(t) ==
  /\ Runs(t, "disable_manager")
  /\ enabled' = FALSE
  /\ Goes(t, "disable_input")
  /\ UNCHANGED <<session, stop_threads, user>> /\ OnlyManager

DisableInput(t) ==
  /\ Runs(t, "disable_input")
  /\ input' = [input EXCEPT !.enabled = FALSE]
  /\ Goes(t, "disable_output")
  /\ UNCHANGED <<enabled, output>> /\ OnlyParts

DisableOutput(t) ==
  /\ Runs(t, "disable_output")
  /\ output' = [output EXCEPT !.enabled = FALSE]
  /\ Goes(t, "stop_stream")
  /\ UNCHANGED <<enabled, input>> /\ OnlyParts

\* A slip of StopStream: the stream is left running.
StreamLeftRunning(t) ==
  /\ Runs(t, "stop_stream")
  /\ Disabled(t)
  /\ UNCHANGED manager_vars /\ OnlyManager

\* stopStream: a stream that does not run is an error, and swallowed.
StopStream(t) ==
  /\ Runs(t, "stop_stream")
  /\ stream' = IF stream = "running" THEN "stopped" ELSE stream
  /\ Disabled(t)
  /\ UNCHANGED <<manager_vars, socket_open, buffer, input, output,
                 activity_vars, reporter, broken, world>>

\* set_state, of logged_out or of the user's set_voice_state.
SetState(t, mute, deafen) ==
  /\ Runs(t, "set_state")
  /\ \/ ~mute /\ ~deafen
     \/ t \in Workers /\ op[t] = "state"
  /\ input' = [input EXCEPT !.muted = mute]
  /\ output' = [output EXCEPT !.deafen = deafen]
  /\ IF t = "cleaner" THEN Goes(t, "stop") ELSE Ends(t)
  /\ UNCHANGED enabled /\ OnlyParts

Shared(t) == \/ AuthOut(t) \/ Disable(t) \/ DisableManager(t)
             \/ DisableInput(t) \/ DisableOutput(t) \/ StopStream(t)
             \/ \E mute, deafen \in BOOLEAN : SetState(t, mute, deafen)

(***************************************************************************)
(* The workers                                                             *)
(***************************************************************************)

\* Nothing of the program keeps a worker from running beside the others.
Free(w) == At(w, "idle") /\ (May("together") \/ \A v \in Workers : At(v, "idle"))

\* The user's request is granted, and the worker comes to the manager.  Once the
\* connection is being cleaned there is no request; only the choice of a device
\* asks for none.
Begin(w, o) ==
  /\ Free(w) /\ ~At("cleaner", "gone")
  /\ At("cleaner", "idle") \/ (o = "device" /\ May("overlap"))
  /\ o \in {"call", "leave", "logout"} =>
       user /\ \A v \in Workers : ~At(v, "auth_out")
  /\ CASE o = "call" -> /\ calls < MaxCalls
                        /\ calls > 0 => May("again")
                        /\ joined => May("switch")
       [] o = "leave" -> joined
       [] OTHER -> May(o)
  /\ joined' = (o = "call" \/ (joined /\ o \in {"state", "device"}))
  /\ calls' = IF o = "call" THEN calls + 1 ELSE calls
  /\ op' = [op EXCEPT ![w] = o]
  /\ call' = [call EXCEPT ![w] = IF o = "call" THEN calls + 1 ELSE NoCall]
  /\ pc' = [pc EXCEPT ![w] =
              CASE o = "call" -> IF buffer = <<>> THEN "otp" ELSE "flush"
                [] o = "leave" -> "disable"
                [] o = "logout" -> "auth_out"
                [] o = "state" -> "set_state"
                [] o = "device" -> "close_stream"]
  /\ UNCHANGED manager_vars /\ OnlyManager

LogsIn ==
  /\ ~user /\ At("cleaner", "idle")
  /\ \E w \in Workers : Free(w)
  /\ user' = TRUE
  /\ UNCHANGED <<enabled, session, stop_threads, call_vars>> /\ OnlyManager

\* enable, 1: the socket held something, and one datagram is received.
Flush(w) ==
  /\ Runs(w, "flush")
  /\ \/ /\ socket_open /\ buffer # <<>>
        /\ buffer' = Tail(buffer)
        /\ Goes(w, "otp")
     \/ /\ ~socket_open
        /\ Ends(w)
        /\ UNCHANGED buffer
  /\ UNCHANGED <<manager_vars, socket_open, stream, input, output,
                 activity_vars, reporter, broken, world>>

\* enable, 2: the OTP is sent unless the voice is enabled; the session and its
\* keys are set.
TakeSession(w) ==
  /\ Runs(w, "otp")
  /\ IF socket_open \/ enabled
     THEN session' = call[w] /\ Goes(w, "start_stream")
     ELSE Ends(w) /\ UNCHANGED session
  /\ UNCHANGED <<enabled, stop_threads, user>> /\ OnlyManager

\* startStream: a running stream stays so, one that is closed throws.
Starts(w, next) ==
  /\ \/ /\ stream # "closed"
        /\ stream' = "running"
        /\ IF next = "idle" THEN Ends(w) ELSE Goes(w, next)
     \/ /\ stream = "closed" \/ May("audio")
        /\ Ends(w)
        /\ UNCHANGED stream
  /\ UNCHANGED <<manager_vars, socket_open, buffer, input, output,
                 activity_vars, reporter, broken, world>>

\* enable, 3.
StartStream(w) == Runs(w, "start_stream") /\ Starts(w, "enable")

\* enable, 4.
Enable(w) ==
  /\ Runs(w, "enable")
  /\ enabled' = TRUE
  /\ Goes(w, "enable_input")
  /\ UNCHANGED <<session, stop_threads, user>> /\ OnlyManager

\* A slip of EnableInput: the queue keeps what it held.
EnableKeepsQueue(w) ==
  /\ Runs(w, "enable_input")
  /\ input' = [input EXCEPT !.enabled = TRUE]
  /\ Goes(w, "enable_output")
  /\ UNCHANGED <<enabled, output>> /\ OnlyParts

\* enable, 5 and 6: each part is enabled with an empty queue.  The queues are
\* swapped without their mutexes: one that is being used may be left in any
\* state.
QueueInUse(w) ==
  /\ Runs(w, "enable_input") \/ Runs(w, "enable_output")
  /\ stream = "running" \/ input.enabled \/ output.enabled
  /\ broken' = "queue"
  /\ UNCHANGED <<manager_vars, sound_vars, input, output, activity_vars,
                 reporter, call_vars, world>>

EnableInput(w) ==
  /\ Runs(w, "enable_input")
  /\ input' = [input EXCEPT !.enabled = TRUE, !.data = <<>>]
  /\ Goes(w, "enable_output")
  /\ UNCHANGED <<enabled, output>> /\ OnlyParts

EnableOutput(w) ==
  /\ Runs(w, "enable_output")
  /\ output' = [output EXCEPT !.enabled = TRUE, !.data = 0]
  /\ Ends(w)
  /\ UNCHANGED <<enabled, input>> /\ OnlyParts

\* init_stream for another device: the stream is closed, opened, and started
\* if the voice is enabled by then.
CloseStream(w) ==
  /\ Runs(w, "close_stream")
  /\ stream' = "closed"
  /\ Goes(w, "open_stream")
  /\ UNCHANGED <<manager_vars, socket_open, buffer, input, output,
                 activity_vars, reporter, broken, world>>

\* A stream that is open already is an error too.
OpenStream(w) ==
  /\ Runs(w, "open_stream")
  /\ \/ /\ stream = "closed"
        /\ stream' = "stopped"
        /\ Goes(w, "restart_stream")
     \/ /\ stream # "closed" \/ May("audio")
        /\ Ends(w)
        /\ UNCHANGED stream
  /\ UNCHANGED <<manager_vars, socket_open, buffer, input, output,
                 activity_vars, reporter, broken, world>>

\* A slip of RestartStream: it does not ask whether the voice is enabled.
StartForAnyDevice(w) ==
  /\ Runs(w, "restart_stream")
  /\ Goes(w, "start_again")
  /\ UNCHANGED manager_vars /\ OnlyManager

RestartStream(w) ==
  /\ Runs(w, "restart_stream")
  /\ IF enabled THEN Goes(w, "start_again") ELSE Ends(w)
  /\ UNCHANGED manager_vars /\ OnlyManager

StartAgain(w) == Runs(w, "start_again") /\ Starts(w, "idle")

WorkerRuns(w) ==
  \/ Flush(w) \/ TakeSession(w) \/ StartStream(w) \/ Enable(w)
  \/ EnableInput(w) \/ EnableOutput(w) \/ CloseStream(w) \/ OpenStream(w)
  \/ RestartStream(w) \/ StartAgain(w)

(***************************************************************************)
(* The thread that cleans the connection                                   *)
(***************************************************************************)

\* The connection is lost or left: client::clean_connection.
Clean ==
  /\ At("cleaner", "idle")
  /\ (\A w \in Workers : At(w, "idle")) \/ May("overlap")
  /\ Goes("cleaner", IF user THEN "auth_out" ELSE "stop")
  /\ UNCHANGED manager_vars /\ OnlyManager

StopThreads ==
  /\ At("cleaner", "stop")
  /\ stop_threads' = TRUE
  /\ Goes("cleaner", "join_reporter")
  /\ UNCHANGED <<enabled, session, user>> /\ OnlyManager

JoinReporter ==
  /\ At("cleaner", "join_reporter") /\ ~reporter
  /\ Goes("cleaner", "close_socket")
  /\ UNCHANGED manager_vars /\ OnlyManager

\* A slip of CloseSocket: the socket is left to the destructor.
CloseSocketLater ==
  /\ At("cleaner", "close_socket")
  /\ Goes("cleaner", "wake_input")
  /\ UNCHANGED manager_vars /\ OnlyManager

CloseSocket ==
  /\ At("cleaner", "close_socket")
  /\ socket_open' = FALSE
  /\ buffer' = <<>>
  /\ Goes("cleaner", "wake_input")
  /\ UNCHANGED <<manager_vars, stream, input, output, activity_vars, reporter,
                 broken, world>>

\* _input = nullptr: ~input notifies its thread once, without the mutex.
WakeInput ==
  /\ At("cleaner", "wake_input")
  /\ input' = [input EXCEPT !.exists = FALSE,
                            !.at = IF @ = "blocked" THEN "wait" ELSE @]
  /\ Goes("cleaner", "join_input")
  /\ UNCHANGED <<manager_vars, sound_vars, output, activity_vars, reporter,
                 broken, world>>

\* Then _output = nullptr.
JoinInput ==
  /\ At("cleaner", "join_input") /\ input.at = "ended"
  /\ output' = [output EXCEPT !.exists = FALSE]
  /\ Goes("cleaner", "join_output")
  /\ UNCHANGED <<manager_vars, sound_vars, input, activity_vars, reporter,
                 broken, world>>

JoinOutput ==
  /\ At("cleaner", "join_output") /\ output.at = "ended"
  /\ Goes("cleaner", "close")
  /\ UNCHANGED manager_vars /\ OnlyManager

\* The stream is closed and the manager freed.
Close ==
  /\ At("cleaner", "close")
  /\ stream' = "closed"
  /\ Goes("cleaner", "gone")
  /\ UNCHANGED <<manager_vars, socket_open, buffer, input, output,
                 activity_vars, reporter, broken, world>>

Cleans == StopThreads \/ JoinReporter \/ CloseSocket \/ WakeInput \/ JoinInput
          \/ JoinOutput \/ Close

Next ==
  /\ broken = "no"
  /\ \/ \E u \in Users : Ages(u)
     \/ Report \/ ReporterEnds \/ Input \/ Output \/ Callback \/ Arrives
     \/ \E w \in Workers : UsesNothing(w) \/ QueueInUse(w) \/ WorkerRuns(w)
     \/ \E t \in Threads : Shared(t)
     \/ \E w \in Workers, o \in Operations \ {"none"} : Begin(w, o)
     \/ LogsIn \/ Clean \/ Cleans

\* The threads of the manager and the cleaning thread run; nothing else need
\* happen.
Fairness ==
  /\ WF_vars(broken = "no" /\ Report)
  /\ WF_vars(broken = "no" /\ ReporterEnds)
  /\ WF_vars(broken = "no" /\ Input)
  /\ WF_vars(broken = "no" /\ Output)
  /\ WF_vars(broken = "no" /\ Shared("cleaner"))
  /\ WF_vars(broken = "no" /\ Cleans)

Spec == Init /\ [][Next]_vars /\ Fairness

-----------------------------------------------------------------------------
(***************************************************************************)
(* Properties                                                              *)
(***************************************************************************)

\* What the microphone recorded in one call does not wait in the queue of the
\* next: once every enable has returned, the frames to send are of the session
\* the manager has, whichever of overlapping calls took it last.  Not so when
\* the stream cannot be started after the session was taken: the library refuses
\* it, or a device is being changed meanwhile.
Enabling == \E w \in Workers : pc[w] \in {"start_stream", "enable", "enable_input"}
Refusing == May("audio") \/ (May("together") /\ May("device"))
QueueIsOfThisCall ==
  ~Enabling /\ ~Refusing
  => \A i \in 1..Len(input.data) : input.data[i] = session

\* The interface shows as speaking exactly the users the activation map has as
\* active, but for the changes that wait to be reported: over all the calls, and
\* whatever the three threads do meanwhile.
ActivityTracks ==
  \A u \in Users :
    IF u \in changed THEN activation[u] # "off" /\ u \notin ui
                     ELSE activation[u] # "off" <=> u \in ui

\* Destroying the manager is safe when no call of the user's runs meanwhile: the
\* callback meets no input or output that was destroyed, because whoever cleans
\* the connection has stopped the stream first.  So it is however calls that are
\* made, left and switched overlap each other; it is not when a device is changed,
\* or the user logs out, while another call runs.
Clashing == \/ May("overlap")
            \/ May("together") /\ (May("device") \/ May("logout"))
SafeTeardown == ~Clashing => broken \in {"no", "no_user", "queue"}

\* The microphone does not record for nobody: when no call of the user's runs, the
\* stream runs only with the voice enabled.  So it is whatever calls overlapped, some
\* of them refused by the library, but for the clashes above (enable, disable and
\* init_stream, which share _enabled and the stream without a mutex).
MicrophoneOff ==
  (~Clashing /\ \A t \in Threads : At(t, "idle"))
  => (stream = "running" => enabled)

\* Whoever stops speaking is shown so, as long as the voice stays enabled.
VoiceGoesQuiet ==
  \A u \in Users :
    (u \in ui /\ activation[u] = "old")
    ~> (u \notin ui \/ activation[u] = "fresh" \/ ~enabled \/ stop_threads
        \/ broken # "no")

\* The wake-up of ~input came between the test and the wait of its thread, and
\* no callback will wake it any more.
WakeupLost == At("cleaner", "join_input") /\ input.at = "blocked"

\* destroy joins the three threads and returns, whatever they were doing and
\* whatever the user does, but for the wake-up that can be lost.
DestroyReturns ==
  ~At("cleaner", "idle")
  ~> (At("cleaner", "gone") \/ WakeupLost \/ broken # "no")
=============================================================================
