------------------------------- MODULE Runner -------------------------------
(* One conversation with the SDK, in the relay's process or in a container,  *)
(* and the host that reads its frames: the pre-run commands, the pairing of  *)
(* permission requests with tool blocks, the guards on what the CLI reports, *)
(* how the runner ends, which frames are stored and which status is recorded.*)
EXTENDS Naturals, Sequences, FiniteSets, SequencesExt

CONSTANTS Backends,      \* of {"inprocess", "wire"}: the ones considered
          KindOf,        \* tool name and input of the n-th tool use, a sequence
          HitlKinds,     \* the kinds ToolPolicy sends to a person
          RetryBudget,   \* api_retry_budget; 0 turns the guard off
          OutputLimit,   \* PRE_RUN_OUTPUT_LIMIT_BYTES, in read chunks
          HookBase,      \* first sequence number of a hook frame
          MaxInFlight,   \* bound: frames written and not read
          MaxCmds,       \* bound: pre-run commands
          MaxMisc,       \* bound: messages that carry no tool
          MaxAcks        \* bound: pause and resume directives; hook events

VARIABLES backend,
          rpc,           \* where the runner is
          rexc,          \* the exception it ends with
          cmds,          \* pre-run commands left
          pr,            \* the running command and its process
          emitted,       \* bytes_emitted
          seq,           \* the runner's counter
          ackSeq, hookSeq,
          chan,          \* the frames written and not read yet
          transport,     \* between runner and host: "up" or "gone"
          verdicts,      \* which of session.end and error have been written
          perms,         \* pending_perms
          blocks,        \* pending_use_blocks
          reqOf,         \* use_id_to_req_id
          asked, shown, answered, resulted,
          synthetic,     \* last_synthetic_text is set
          retries, misc,
          kept,          \* numbers of the frames stored, or buffered to be
          lost,          \* types of the frames the table refused
          bus,           \* "due": a durable frame is buffered; "refused": publish raised
          host,          \* where the host is
          endStatus
hostVars == <<kept, lost, bus, host, endStatus>>
pairVars == <<perms, blocks, reqOf, asked, shown, answered, resulted>>
preVars == <<cmds, pr, emitted>>
msgVars == <<synthetic, retries, misc>>
runnerVars == <<backend, rpc, rexc, preVars, seq, ackSeq, hookSeq, chan, transport, verdicts, pairVars, msgVars, hostVars>>

ASSUME RunnerAssumption ==
    /\ Backends \subseteq {"inprocess", "wire"}
    /\ {Len(KindOf), OutputLimit, HookBase, MaxCmds} \subseteq Nat

Uses == 1..Len(KindOf)
NoReq == 0
Frame(t, n) == [type |-> t, seq |-> n, use |-> NoReq, req |-> NoReq]

\* transport.send, for one or more frames, over a transport that stands.
Write(fs) ==
    /\ transport = "up" /\ Len(chan) < MaxInFlight
    /\ chan' = chan \o fs
    /\ verdicts' = verdicts \cup ({f.type : f \in Range(fs)} \cap {"session.end", "error"})
Send(f) == Write(<<f>>)

RunnerInit ==
    /\ backend \in Backends
    /\ rpc = "start" /\ rexc = "none"
    /\ cmds \in (IF backend = "wire" THEN 0..MaxCmds ELSE {0})
    /\ pr = "idle" /\ emitted = 0
    /\ seq = 0 /\ ackSeq = 0 /\ hookSeq = HookBase
    /\ chan = << >> /\ transport = "up" /\ verdicts = {}
    /\ perms = << >> /\ blocks = << >> /\ reqOf = [u \in Uses |-> NoReq]
    /\ asked = {} /\ shown = {} /\ answered = {} /\ resulted = {}
    /\ synthetic = FALSE /\ retries = 0 /\ misc = 0
    /\ kept = {} /\ lost = {} /\ bus = "quiet" /\ host = "drain" /\ endStatus = "none"

-----------------------------------------------------------------------------
(* Pre-run commands.  A frame takes its number before it is written; the     *)
(* number is only used up when the write has drained.                        *)

\* install.done is the first frame in process; the container's image has its
\* plugins built in.
StartRunner ==
    /\ rpc = "start"
    /\ rpc' = "prerun"
    /\ IF backend = "inprocess"
       THEN Send(Frame("install.done", seq)) /\ seq' = seq + 1
       ELSE UNCHANGED <<chan, verdicts, seq>>
    /\ UNCHANGED <<backend, rexc, preVars, ackSeq, hookSeq, pairVars, msgVars, transport, hostVars>>

\* The process of a command runs from its spawn to its exit: while its output
\* is streamed, while _terminate_proc waits for it, and when that wait was cut.
Streaming == {"running", "sending", "marking"}
ProcAlive == pr \in Streaming \cup {"expiring", "stopping", "left"}
\* A command that was cut off: the frame it was sending may not have its number.
CutOff == pr \in {"expiring", "stopping", "left", "ended"}

SpawnCommand ==
    /\ rpc = "prerun" /\ pr = "idle" /\ cmds > 0
    /\ pr' = "running"
    /\ UNCHANGED <<backend, rpc, rexc, cmds, emitted, seq, ackSeq, hookSeq, chan, verdicts, pairVars, msgVars, transport, hostVars>>

\* Mutant: the cap is tested after the chunk is forwarded whole.
WholeChunk(n) == n

\* What is forwarded of a chunk of n bytes.
Forwarded(n) == IF n < OutputLimit - emitted THEN n ELSE OutputLimit - emitted

\* _stream_proc_output: one read.  Beyond the cap chunks are read and dropped.
Output(n) ==
    /\ rpc = "prerun" /\ pr = "running" /\ emitted < OutputLimit
    /\ emitted' = emitted + Forwarded(n)
    /\ Send(Frame("pre_run", seq))
    /\ pr' = "sending"
    /\ UNCHANGED <<backend, rpc, rexc, cmds, seq, ackSeq, hookSeq, pairVars, msgVars, transport, hostVars>>

\* The write drains; the chunk that reaches the cap is followed by a marker.
Drained ==
    /\ rpc = "prerun" /\ pr \in {"sending", "marking"}
    /\ seq' = seq + 1
    /\ IF pr = "sending" /\ emitted >= OutputLimit
       THEN pr' = "marking" /\ Send(Frame("truncated", seq + 1))
       ELSE pr' = "running" /\ UNCHANGED <<chan, verdicts>>
    /\ UNCHANGED <<backend, rpc, rexc, cmds, emitted, ackSeq, hookSeq, pairVars, msgVars, transport, hostVars>>

CommandDone ==
    /\ rpc = "prerun" /\ pr = "running"
    /\ pr' = "idle" /\ cmds' = cmds - 1
    /\ UNCHANGED <<backend, rpc, rexc, emitted, seq, ackSeq, hookSeq, chan, verdicts, pairVars, msgVars, transport, hostVars>>

\* A command that cannot be spawned or exits with an error: _emit_error starts.
CommandFails ==
    /\ rpc = "prerun" /\ cmds > 0 /\ pr \in {"idle", "running"}
    /\ pr' = "reporting"
    /\ Send(Frame("error", seq))
    /\ UNCHANGED <<backend, rpc, rexc, cmds, emitted, seq, ackSeq, hookSeq, pairVars, msgVars, transport, hostVars>>

ErrorDrained ==
    /\ rpc = "prerun" /\ pr = "reporting"
    /\ pr' = "idle" /\ seq' = seq + 1 /\ rpc' = "unwind" /\ rexc' = "error"
    /\ UNCHANGED <<backend, cmds, emitted, ackSeq, hookSeq, chan, verdicts, pairVars, msgVars, transport, hostVars>>

\* except TimeoutError: the error frame, and RuntimeError; TransportClosed
\* instead of both when the host is gone.
EndsInError ==
    /\ rpc' = "unwind" /\ rexc' = "error"
    /\ IF transport = "up" THEN Send(Frame("error", seq)) /\ seq' = seq + 1
                 ELSE UNCHANGED <<seq, chan, verdicts>>
EndsInCancel == rpc' = "unwind" /\ rexc' = "cancel" /\ UNCHANGED <<seq, chan, verdicts>>

\* asyncio.timeout, of the command or in total, cancels what is being awaited.
\* _terminate_proc signals the process and waits for it; one that expires in
\* that grace period cuts the wait, and the kill is skipped.
PreRunTimeout ==
    /\ rpc = "prerun"
    /\ \/ pr \in Streaming /\ pr' = "expiring" /\ UNCHANGED <<rpc, rexc, seq, chan, verdicts>>
       \/ pr = "reporting" /\ pr' = "ended" /\ EndsInError
       \/ pr = "expiring" /\ pr' = "left" /\ EndsInError
       \/ pr = "stopping" /\ pr' = "left" /\ EndsInCancel
    /\ UNCHANGED <<backend, cmds, emitted, ackSeq, hookSeq, pairVars, msgVars, transport, hostVars>>

\* The process has exited, or is killed at the end of the grace period.
TerminateProc ==
    /\ rpc = "prerun" /\ pr' = "ended"
    /\ \/ pr = "expiring" /\ EndsInError
       \/ pr = "stopping" /\ EndsInCancel
    /\ UNCHANGED <<backend, cmds, emitted, ackSeq, hookSeq, pairVars, msgVars, transport, hostVars>>

PreRun == \/ SpawnCommand \/ Drained \/ CommandDone \/ CommandFails \/ ErrorDrained \/ PreRunTimeout \/ TerminateProc
          \/ \E n \in 1..2 : Output(n)

-----------------------------------------------------------------------------
(* The conversation.                                                         *)

\* except BaseException: the error frame goes out before the exception does; a
\* send that fails is suppressed.
Raise(fs) ==
    /\ IF transport = "up" THEN Write(fs \o <<Frame("error", seq + Len(fs) + 1)>>) ELSE UNCHANGED <<chan, verdicts>>
    /\ seq' = seq + Len(fs) + 1
    /\ rpc' = "unwind" /\ rexc' = "error"

\* connect and query: the SDK may refuse.
Connect ==
    /\ rpc = "prerun" /\ pr = "idle" /\ cmds = 0
    /\ \/ rpc' = "loop" /\ UNCHANGED <<rexc, seq, chan, verdicts>>
       \/ Raise(<< >>)
    /\ UNCHANGED <<backend, preVars, ackSeq, hookSeq, pairVars, msgVars, transport, hostVars>>

\* The container's policy asks about every tool: the host decides.
NeedsHitl(u) == backend = "wire" \/ KindOf[u] \in HitlKinds

\* Mutant: the last match in the queue instead of the first.
LastMatch(q, u) == LET I == {i \in DOMAIN q : KindOf[q[i]] = KindOf[u]}
                   IN  IF I = {} THEN 0 ELSE CHOOSE i \in I : \A j \in I : j <= i

\* _pair_perm_with_block and _pair_block_with_perm: the first entry with the
\* same tool name and the same input.
FirstMatch(q, u) == SelectInSeq(q, LAMBDA v : KindOf[v] = KindOf[u])

\* A message of the loop that is passed on as it is.
Chunk == Send(Frame("msg.chunk", seq + 1)) /\ seq' = seq + 1

\* nonlocal seq; seq += 1 in can_use_tool.
TakeSeq == seq' = seq + 1

\* can_use_tool.  The request is known to the code by its kind only; the model
\* names it by its tool use.  The CLI asks in the order of its tool uses.
CanUseTool(u) ==
    /\ rpc = "loop" /\ u \notin asked
    /\ \A v \in 1..(u - 1) : KindOf[v] = KindOf[u] => v \in asked
    /\ asked' = asked \cup {u}
    /\ IF NeedsHitl(u)
       THEN /\ TakeSeq
            /\ Send([Frame("tool.request", seq') EXCEPT !.use = u, !.req = u])
            /\ LET i == FirstMatch(blocks, u) IN
               IF i # 0
               THEN /\ reqOf' = [reqOf EXCEPT ![blocks[i]] = u]
                    /\ blocks' = RemoveAt(blocks, i)
                    /\ UNCHANGED perms
               ELSE perms' = Append(perms, u) /\ UNCHANGED <<blocks, reqOf>>
            /\ UNCHANGED answered
       ELSE answered' = answered \cup {u} /\ UNCHANGED <<seq, chan, verdicts, perms, blocks, reqOf>>
    /\ UNCHANGED <<backend, rpc, rexc, preVars, ackSeq, hookSeq, shown, resulted, msgVars, transport, hostVars>>

\* The coordinator (or the proxy) answers; the SDK is told.
Answered(u) ==
    /\ rpc = "loop" /\ u \in asked \ answered
    /\ answered' = answered \cup {u}
    /\ UNCHANGED <<backend, rpc, rexc, preVars, seq, ackSeq, hookSeq, chan, verdicts, perms, blocks, reqOf,
                   asked, shown, resulted, msgVars, transport, hostVars>>

\* An AssistantMessage with a ToolUseBlock.
ToolBlock(u) ==
    /\ rpc = "loop" /\ u \notin shown /\ 1..(u - 1) \subseteq shown
    /\ shown' = shown \cup {u}
    /\ LET i == FirstMatch(perms, u) IN
       IF i # 0
       THEN /\ reqOf' = [reqOf EXCEPT ![u] = perms[i]]
            /\ perms' = RemoveAt(perms, i)
            /\ UNCHANGED blocks
       ELSE blocks' = Append(blocks, u) /\ UNCHANGED <<perms, reqOf>>
    /\ Chunk
    /\ synthetic' = FALSE
    /\ UNCHANGED <<backend, rpc, rexc, preVars, ackSeq, hookSeq, asked, answered, resulted, retries, misc, transport, hostVars>>

\* A UserMessage with a ToolResultBlock: the CLI has run the tool, or was told
\* not to, and reports it after the block.
ToolResult(u) ==
    /\ rpc = "loop" /\ u \in (answered \cap shown) \ resulted
    /\ resulted' = resulted \cup {u}
    /\ Send([Frame("tool.result", seq + 2) EXCEPT !.use = u, !.req = reqOf[u]])
    /\ seq' = seq + 2
    /\ reqOf' = [reqOf EXCEPT ![u] = NoReq]
    /\ UNCHANGED <<backend, rpc, rexc, preVars, ackSeq, hookSeq, perms, blocks, asked, shown, answered, msgVars, transport, hostVars>>

\* An AssistantMessage without a tool: real, or the CLI's own.
Says(fake) ==
    /\ rpc = "loop" /\ misc < MaxMisc
    /\ misc' = misc + 1 /\ synthetic' = fake
    /\ Chunk
    /\ UNCHANGED <<backend, rpc, rexc, preVars, ackSeq, hookSeq, pairVars, retries, transport, hostVars>>

\* SystemMessage(api_retry): over the budget the runner gives up.
ApiRetry ==
    /\ rpc = "loop" /\ misc < MaxMisc
    /\ misc' = misc + 1 /\ retries' = retries + 1
    /\ IF RetryBudget > 0 /\ retries' > RetryBudget
       THEN Raise(<<Frame("msg.chunk", seq + 1)>>)
       ELSE Chunk /\ UNCHANGED <<rpc, rexc>>
    /\ UNCHANGED <<backend, preVars, ackSeq, hookSeq, pairVars, synthetic, transport, hostVars>>

\* Mutant: the synthetic message is only looked for when the budget is off.
GuardBOff == synthetic /\ RetryBudget = 0

\* Runtime guard B: the CLI gave up and reports a completion of its own.
FakeCompletion == synthetic

\* ResultMessage.
Finish ==
    /\ rpc = "loop"
    /\ IF FakeCompletion
       THEN Raise(<< >>)
       ELSE /\ Send(Frame("session.end", seq + 2))
            /\ seq' = seq + 2
            /\ rpc' = "unwind" /\ UNCHANGED rexc
    /\ UNCHANGED <<backend, preVars, ackSeq, hookSeq, pairVars, msgVars, transport, hostVars>>

\* receive_messages raises, or ends without a ResultMessage.
StreamBreaks ==
    /\ rpc = "loop"
    /\ \/ Raise(<< >>)
       \/ rpc' = "unwind" /\ UNCHANGED <<rexc, seq, chan, verdicts>>
    /\ UNCHANGED <<backend, preVars, ackSeq, hookSeq, pairVars, msgVars, transport, hostVars>>

\* TransportClosed from a send.  A pre-run command whose output or failure is
\* being sent is not terminated: only CancelledError is caught there, and no
\* error frame is tried.  In the loop the one that is tried fails as well.  (A
\* callback that cannot send has the SDK told of an error, and sends nothing.)
SendFails ==
    /\ transport = "gone"
    /\ \/ rpc = "loop" /\ UNCHANGED pr
       \/ rpc = "prerun" /\ pr \in Streaming /\ (pr = "running" => emitted < OutputLimit) /\ pr' = "left"
       \/ rpc = "prerun" /\ cmds > 0 /\ pr \in {"idle", "running", "reporting"} /\ pr' = "idle"
    /\ rpc' = "unwind" /\ rexc' = "error"
    /\ UNCHANGED <<backend, cmds, emitted, seq, ackSeq, hookSeq, chan, verdicts, pairVars, msgVars, transport, hostVars>>

\* The container's stop signal cancels the runner once, also in the finally
\* chain, without a frame; in the grace period of a timeout it cuts the wait.
Sigterm ==
    /\ backend = "wire" /\ rpc \in {"start", "prerun", "loop", "unwind"}
    /\ IF pr \in Streaming
       THEN pr' = "stopping" /\ UNCHANGED <<rpc, rexc>>
       ELSE /\ pr # "stopping"
            /\ pr' = (CASE pr = "expiring" -> "left" [] pr = "reporting" -> "idle" [] OTHER -> pr)
            /\ rpc' = "unwind" /\ rexc' = "cancel"
    /\ UNCHANGED <<backend, cmds, emitted, seq, ackSeq, hookSeq, chan, verdicts, pairVars, msgVars, transport, hostVars>>

\* finally: the control task ends, the client disconnects, the transport is
\* closed and a container exits, with every process left in it.
Unwind ==
    /\ rpc = "unwind"
    /\ rpc' = "done"
    /\ pr' = IF pr = "left" THEN "ended" ELSE pr
    /\ UNCHANGED <<backend, rexc, cmds, emitted, seq, ackSeq, hookSeq, chan, verdicts, pairVars, msgVars, transport, hostVars>>

\* WireCoordinatorProxy.send_ack: an acknowledgement has a counter of its own.
SendAck ==
    /\ backend = "wire" /\ rpc = "loop" /\ ackSeq < MaxAcks
    /\ ackSeq' = ackSeq + 1
    /\ Send(Frame("pause.ack", ackSeq'))
    /\ UNCHANGED <<backend, rpc, rexc, preVars, seq, hookSeq, pairVars, msgVars, transport, hostVars>>

\* HookRelay._emit, with a counter far from the runner's.
EmitHook ==
    /\ rpc = "loop" /\ hookSeq < HookBase + MaxAcks
    /\ hookSeq' = hookSeq + 1
    /\ Send(Frame("hook", hookSeq))
    /\ UNCHANGED <<backend, rpc, rexc, preVars, seq, ackSeq, pairVars, msgVars, transport, hostVars>>

Converse ==
    \/ Connect \/ ApiRetry \/ Finish \/ StreamBreaks \/ SendFails \/ SendAck \/ EmitHook
    \/ \E u \in Uses : CanUseTool(u) \/ Answered(u) \/ ToolBlock(u) \/ ToolResult(u)
    \/ \E fake \in BOOLEAN : Says(fake)

-----------------------------------------------------------------------------
(* The host: _drive_session and what _run records.                           *)

\* append_frame under the UNIQUE (session_id, seq) constraint; a frame whose
\* number is taken is counted as dropped.  In process a frame is stored as it
\* comes; the bridge of a wire session buffers it, in order, and the buffer is
\* stored when the bridge is done.
PersistFrame(f) ==
    /\ kept' = kept \cup {f.seq}
    /\ lost' = IF f.seq \in kept THEN lost \cup {f.type} ELSE lost

\* WireBridge.run hands a tool.request to the coordinator and keeps it nowhere.
Passes(f) == backend = "wire" /\ f.type = "tool.request"

\* Frames that frame_to_event makes durable events of: their publish raises
\* DurableEventDropError when the event cannot be stored.
Durable == {"error", "tool.request", "tool.result", "session.end", "hook"}

\* _persist_frame ends in that publish and nothing catches what it raises: in
\* process the drain ends there, and _run records a failure.
Refused(f) ==
    /\ backend = "inprocess" /\ f.type \in Durable
    /\ bus' = "refused" /\ host' = "ended" /\ endStatus' = "failed"
    /\ UNCHANGED transport

\* The end of a host loop.  The bridge's shutdown closes the connection, then
\* its buffer is stored: in a finally, so that a refused publish replaces even
\* a cancellation, and the rest of the buffer is not stored.
Ends(status, buffered) ==
    /\ host' = "ended" /\ transport' = IF backend = "wire" THEN "gone" ELSE transport
    /\ \/ endStatus' = status /\ bus' = buffered
       \/ backend = "wire" /\ buffered = "due" /\ endStatus' = "failed" /\ bus' = "refused"

\* One recv; session.end is the last frame either host loop reads.
HostReads ==
    /\ host = "drain" /\ chan # << >>
    /\ chan' = Tail(chan)
    /\ IF Passes(Head(chan)) THEN UNCHANGED <<kept, lost>> ELSE PersistFrame(Head(chan))
    /\ LET f == Head(chan)
           buffered == IF backend = "wire" /\ f.type \in Durable /\ ~Passes(f) THEN "due" ELSE bus
       IN  \/ f.type # "session.end" /\ bus' = buffered /\ UNCHANGED <<host, endStatus, transport>>
           \/ f.type = "session.end" /\ Ends("completed", buffered)
           \/ Refused(f)
    /\ UNCHANGED <<backend, rpc, rexc, preVars, seq, ackSeq, hookSeq, verdicts, pairVars, msgVars>>

\* _drive_session at the end of the stream: in process the exception of the
\* runner's task is raised again; nobody reads a container's exit code.
StatusAtClose == IF backend = "inprocess" /\ rexc = "error" THEN "failed" ELSE "completed"

\* TransportClosed: the runner closed the transport, or the connection is gone.
\* In process the runner's task is done by then (_drive_session asks): after
\* the sentinel its wrapper does not give up control any more.
HostSeesClose ==
    /\ host = "drain" /\ chan = << >> /\ (rpc = "done" \/ transport = "gone")
    /\ Ends(StatusAtClose, bus)
    /\ UNCHANGED <<backend, rpc, rexc, preVars, seq, ackSeq, hookSeq, chan, verdicts, pairVars, msgVars, kept, lost>>

\* The session's timeout or a cancellation.
HostGivesUp ==
    /\ host = "drain"
    /\ Ends("cancelled", bus)
    /\ chan' = << >>
    /\ UNCHANGED <<backend, rpc, rexc, preVars, seq, ackSeq, hookSeq, verdicts, pairVars, msgVars, kept, lost>>

\* executor.stop, in the finally around _drive_session.
ExecutorStops ==
    /\ host = "ended" /\ rpc \notin {"done", "stopped"}
    /\ rpc' = "stopped" /\ pr' = (IF pr = "idle" THEN pr ELSE "ended") /\ chan' = << >>
    /\ UNCHANGED <<backend, rexc, cmds, emitted, seq, ackSeq, hookSeq, transport, verdicts, pairVars, msgVars, hostVars>>

\* The connection to a container breaks; what the host has not received by
\* then is lost.
LinkBreaks ==
    /\ backend = "wire" /\ transport = "up" /\ transport' = "gone"
    /\ \E n \in 0..Len(chan) : chan' = SubSeq(chan, 1, n)
    /\ UNCHANGED <<backend, rpc, rexc, preVars, seq, ackSeq, hookSeq, verdicts, pairVars, msgVars, hostVars>>

HostStep == HostReads \/ HostSeesClose \/ HostGivesUp \/ ExecutorStops

RunnerNext == StartRunner \/ PreRun \/ Converse \/ Sigterm \/ Unwind \/ HostStep \/ LinkBreaks

RunnerSpec == RunnerInit /\ [][RunnerNext]_runnerVars

-----------------------------------------------------------------------------
(* Properties.                                                               *)

\* The runner's variables have their shapes (client.py, wire_runner.py).
RunnerTypeOK ==
    /\ rpc \in {"start", "prerun", "loop", "unwind", "done", "stopped"}
    /\ rexc \in {"none", "error", "cancel"}
    /\ pr \in Streaming \cup {"idle", "reporting", "expiring", "stopping", "left", "ended"}
    /\ bus \in {"quiet", "due", "refused"} /\ transport \in {"up", "gone"}
    /\ host \in {"drain", "ended"}
    /\ endStatus \in {"none", "completed", "failed", "cancelled"}
    /\ Range(perms) \subseteq asked /\ Range(blocks) \subseteq shown

\* The result of a tool use is sent under the id of the request that was made
\* for this very use, whichever of the permission request and the tool block
\* arrived first and however many uses look alike; a use nobody was asked
\* about has no id (the two queues of _make_runner_core).
ResultsNameTheirRequest ==
    \A f \in Range(chan) : f.type = "tool.result" => f.req = (IF NeedsHitl(f.use) THEN f.use ELSE NoReq)

\* What the runner says agrees with how it ended: an exception has been
\* reported by an error frame before the transport closes, as long as the
\* connection stands; session.end and error are never both sent, and no
\* completion the CLI made up is reported as one (RunnerFn contract, guard B).
VerdictMatchesOutcome ==
    /\ rpc = "done" /\ rexc = "error" /\ transport = "up" => "error" \in verdicts
    /\ "session.end" \in verdicts => rexc # "error" /\ ~synthetic /\ "error" \notin verdicts

\* Every frame the host keeps becomes a row of the frames table: the numbers of
\* messages, permission requests and hooks, which are drawn by concurrent
\* callbacks, never collide (uq_frames_session_seq).  Wire sessions lose frames
\* when they were paused, when their pre-run commands ran out of time, and when
\* the event bus refuses one of the buffer.
FramesKept == backend = "inprocess" \/ (ackSeq = 0 /\ ~CutOff /\ bus # "refused") => lost = {}

\* In process a session that was not cancelled is recorded as failed if its
\* runner failed or the event bus refused one of its frames, and only then:
\* the runner of a failed session may have completed, and one recorded as
\* completed has not failed.
InProcessFailureIsRecorded ==
    backend = "inprocess" /\ host = "ended" /\ endStatus # "cancelled" =>
        (endStatus = "failed" <=> rexc = "error" \/ bus = "refused")

\* Pre-run output stays within its cap and is cut where the cap is reached and
\* nowhere else.  No command runs beside the conversation; one that outlives
\* the pre-run phase is left behind by a runner that fails or is cancelled, and
\* not beyond its container.
PreRunBounded ==
    /\ emitted <= OutputLimit
    /\ pr = "marking" => emitted = OutputLimit
    /\ ProcAlive => rpc = "prerun" \/ (rpc = "unwind" /\ rexc # "none")

\* How a runner ends is told and recorded as it was, and its pre-run commands
\* end with it.
RunnerInv == RunnerTypeOK /\ VerdictMatchesOutcome /\ InProcessFailureIsRecorded /\ PreRunBounded

\* What callbacks and stream send concurrently arrives whole and under the right
\* request.
ConversationInv == ResultsNameTheirRequest /\ FramesKept

\* Refuted for wire sessions: "so DockerExecutor / k8s_job can map the container
\* outcome to a failed session".
FailureIsRecorded ==
    host = "ended" /\ endStatus # "cancelled" /\ rexc = "error" => endStatus = "failed"

\* Refuted for wire sessions: acknowledgements are buffered for persistence,
\* which "keeps the wire-frame audit log complete".
AuditLogComplete == "pause.ack" \notin lost

=============================================================================
