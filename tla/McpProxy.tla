------------------------------- MODULE McpProxy -------------------------------
(***************************************************************************)
(* The SSE proxy.  `wksc mcp proxy start` runs it in the background and     *)
(* finds it again by the pid in mcp-proxy.pid.  Every GET /sse starts an    *)
(* MCP server of its own and relays between its pipes and the client; the   *)
(* POSTs of that session go to the process's stdin.  Handlers are           *)
(* coroutines: what stands between two awaits is one step.                  *)
(*                                                                         *)
(* Source: src/wks/mcp/sse_proxy.py, src/wks/mcp/server.py.                 *)
(***************************************************************************)
EXTENDS Naturals, Sequences, FiniteSets

CONSTANTS Proxies,   \* pids of proxy processes, each used once
          Sessions,  \* session ids, each used once
          NoPid,
          MaxMoves   \* bound: what clients, operators and crashes do

ASSUME ProxyAssumption == NoPid \notin Proxies /\ Proxies # {} /\ MaxMoves \in Nat

VARIABLES proxy,     \* [Proxies -> where the proxy is]
          pidFile,   \* mcp-proxy.pid
          command,   \* the command the operator has given
          session,   \* [Sessions -> the handler of GET /sse]
          listed,    \* app["sessions"]
          child,     \* [Sessions -> the MCP server of the session]
          stdin,     \* [Sessions -> what has been written to it and not read]
          answers,   \* [Sessions -> lines in its stdout not relayed yet]
          ending,    \* [Proxies -> on_shutdown: the sessions to come, and the one awaited]
          moves,     \* what clients, operators and crashes have done so far
          unnamed,   \* auxiliary: proxies whose pid another process has taken away
          spoken     \* auxiliary: [Sessions -> requests accepted and not answered]

names    == <<pidFile, command, unnamed>>
pipes    == <<child, stdin, answers, spoken>>
handlers == <<session, listed, ending>>
proxyVars == <<proxy, names, handlers, pipes, moves>>

NoSession == [at |-> "none", of |-> NoPid, client |-> FALSE]
NoCommand == [kind |-> "none", pid |-> NoPid]
NoEnding  == [todo |-> {}, on |-> {}]

Alive(p)   == proxy[p] \notin {"none", "gone"}
Serving(p) == proxy[p] = "serving"
Of(p)      == {s \in Sessions : session[s].of = p}
Lives(s)   == child[s] \in {"idle", "busy"}
Handled(s) == session[s].at \notin {"none", "broken", "done"}
\* The loop of the proxy still runs the session's coroutines.
Runs(s) == session[s].of # NoPid /\ proxy[session[s].of] \in {"serving", "closing", "cancelling"}

Move == moves < MaxMoves /\ moves' = moves + 1

\* Before the first start, or with a proxy that serves.
ProxyInit ==
    /\ pidFile \in {NoPid, CHOOSE p \in Proxies : TRUE}
    /\ proxy = [p \in Proxies |-> IF p = pidFile THEN "serving" ELSE "none"]
    /\ command = NoCommand
    /\ session = [s \in Sessions |-> NoSession]
    /\ listed = {}
    /\ child = [s \in Sessions |-> "none"]
    /\ stdin = [s \in Sessions |-> <<>>]
    /\ answers = [s \in Sessions |-> 0]
    /\ ending = [p \in Proxies |-> NoEnding]
    /\ moves = 0
    /\ unnamed = {}
    /\ spoken = [s \in Sessions |-> 0]

-----------------------------------------------------------------------------
(* start, stop: the operator's commands *)

\* _read_pid: the pid in the file, if such a process is there.
ReadPid == IF pidFile # NoPid /\ Alive(pidFile) THEN pidFile ELSE NoPid

\* start_background looks before it starts; `start --blocking` does not.
Start(blocking) ==
    /\ blocking \/ ReadPid = NoPid
    /\ Move
    /\ \E p \in Proxies :
         /\ proxy[p] = "none"
         /\ proxy' = [proxy EXCEPT ![p] = "spawned"]
    /\ UNCHANGED <<names, handlers, pipes>>

\* _write_pid: over whatever another proxy has written there.
WritePid(p) ==
    /\ proxy[p] = "spawned"
    /\ proxy' = [proxy EXCEPT ![p] = "named"]
    /\ pidFile' = p
    /\ unnamed' = IF pidFile \in Proxies /\ Alive(pidFile) THEN unnamed \cup {pidFile} ELSE unnamed
    /\ UNCHANGED <<command, handlers, pipes, moves>>

\* run_app binds the port; if it cannot, _remove_pid follows.
Bind(p) ==
    /\ proxy[p] = "named"
    /\ proxy' = [proxy EXCEPT ![p] = IF \E q \in Proxies : Serving(q) THEN "last" ELSE "serving"]
    /\ UNCHANGED <<names, handlers, pipes, moves>>

\* _remove_pid, in the finally of run_server: whoever's pid is there.
Last(p) ==
    /\ proxy[p] = "last"
    /\ proxy' = [proxy EXCEPT ![p] = "gone"]
    /\ pidFile' = NoPid
    /\ unnamed' = IF pidFile \in Proxies \ {p} THEN unnamed \cup {pidFile} ELSE unnamed
    /\ UNCHANGED <<command, handlers, pipes, moves>>

StopRead ==
    /\ command = NoCommand
    /\ ReadPid # NoPid
    /\ Move
    /\ command' = [kind |-> "kill", pid |-> ReadPid]
    /\ UNCHANGED <<proxy, pidFile, unnamed, handlers, pipes>>

\* Mutant: the handler of the event loop does not end the server.
SignalledInVain(p) == IF proxy[p] \in {"spawned", "named"} THEN "gone" ELSE proxy[p]

\* SIGTERM: before the event loop runs it ends the process at once.
Signalled(p) ==
    CASE proxy[p] \in {"spawned", "named"} -> "gone"
      [] proxy[p] = "serving"              -> "closing"
      [] OTHER                             -> proxy[p]

StopKill ==
    /\ command.kind = "kill"
    /\ LET p == command.pid IN
         /\ proxy' = [proxy EXCEPT ![p] = Signalled(p)]
         /\ ending' = IF Serving(p) THEN [ending EXCEPT ![p].todo = listed \cap Of(p)]
                      ELSE ending
    /\ command' = [command EXCEPT !.kind = "remove"]
    /\ UNCHANGED <<pidFile, unnamed, session, listed, pipes, moves>>

StopRemove ==
    /\ command.kind = "remove"
    /\ unnamed' = IF pidFile \in Proxies \ {command.pid} THEN unnamed \cup {pidFile} ELSE unnamed
    /\ pidFile' = NoPid
    /\ command' = NoCommand
    /\ UNCHANGED <<proxy, handlers, pipes, moves>>

\* The proxy is killed, or the machine goes down with it.
ProxyDies(p) ==
    /\ Alive(p)
    /\ Move
    /\ proxy' = [proxy EXCEPT ![p] = "gone"]
    /\ UNCHANGED <<names, handlers, pipes>>

-----------------------------------------------------------------------------
(* handle_sse *)

Goto(s, where) == session' = [session EXCEPT ![s].at = where]

\* The client's GET: the response is prepared.
Connects(s) ==
    /\ session[s] = NoSession
    /\ Move
    /\ \E p \in Proxies :
         /\ Serving(p)
         /\ session' = [session EXCEPT ![s] = [at |-> "spawn", of |-> p, client |-> TRUE]]
    /\ UNCHANGED <<proxy, names, listed, ending, pipes>>

Disconnects(s) ==
    /\ session[s].client
    /\ Move
    /\ session' = [session EXCEPT ![s].client = FALSE]
    /\ UNCHANGED <<proxy, names, listed, ending, pipes>>

\* create_subprocess_exec has made the process ...
Spawns(s) ==
    /\ session[s].at = "spawn" /\ Runs(s)
    /\ child' = [child EXCEPT ![s] = "idle"]
    /\ Goto(s, "register")
    /\ UNCHANGED <<proxy, names, listed, ending, stdin, answers, spoken, moves>>

\* ... and later returns to the handler, which enters the session.
Registers(s) ==
    /\ session[s].at = "register" /\ Runs(s)
    /\ listed' = listed \cup {s}
    /\ Goto(s, "endpoint")
    /\ UNCHANGED <<proxy, names, ending, pipes, moves>>

\* The first write stands outside the try: if the client has gone the handler ends
\* there, and the session stays.
Announces(s) ==
    /\ session[s].at = "endpoint" /\ Runs(s)
    /\ Goto(s, IF session[s].client THEN "relay" ELSE "broken")
    /\ UNCHANGED <<proxy, names, listed, ending, pipes, moves>>

\* _read_stdout: a line for the client, who may have gone.
Relays(s) ==
    /\ session[s].at = "relay" /\ Runs(s)
    /\ answers[s] > 0
    /\ answers' = [answers EXCEPT ![s] = @ - 1]
    /\ Goto(s, IF session[s].client THEN "relay" ELSE "cleanup")
    /\ UNCHANGED <<proxy, names, listed, ending, child, stdin, spoken, moves>>

\* _read_stdout: the process has closed its stdout.
SeesEnd(s) ==
    /\ session[s].at = "relay" /\ Runs(s)
    /\ ~Lives(s) /\ answers[s] = 0
    /\ Goto(s, "cleanup")
    /\ UNCHANGED <<proxy, names, listed, ending, pipes, moves>>

\* Mutant: a failing heartbeat ends only itself.
HeartbeatAlone(s) ==
    /\ session[s].at = "relay" /\ Runs(s)
    /\ ~session[s].client
    /\ UNCHANGED proxyVars

\* _heartbeat: a write every 15 seconds; if it fails the reading is cancelled.
Heartbeat(s) ==
    /\ session[s].at = "relay" /\ Runs(s)
    /\ ~session[s].client
    /\ Goto(s, "cleanup")
    /\ UNCHANGED <<proxy, names, listed, ending, pipes, moves>>

\* A signal to the process: a Python that handles none dies of it.
Killed(s) == child' = [child EXCEPT ![s] = IF Lives(s) THEN "exited" ELSE @]

\* The finally: terminate() raises if the loop has already closed the transport of
\* a process that has exited; then the rest is skipped and the session stays.
CleansUp(s) ==
    /\ session[s].at = "cleanup" /\ Runs(s)
    /\ IF child[s] = "reaped"
         THEN Goto(s, "broken") /\ UNCHANGED child
         ELSE Goto(s, "wait") /\ Killed(s)
    /\ UNCHANGED <<proxy, names, listed, ending, stdin, answers, spoken, moves>>

\* process.wait() returns.
Ends(s) ==
    /\ session[s].at = "wait" /\ Runs(s)
    /\ child[s] = "reaped"
    /\ listed' = listed \ {s}
    /\ Goto(s, "done")
    /\ UNCHANGED <<proxy, names, ending, pipes, moves>>

-----------------------------------------------------------------------------
(* Shutdown *)

\* on_shutdown, a session of the copied list: terminate() raises for a process that
\* is gone, and the others are not reached.
ShutdownNext(p) ==
    /\ proxy[p] = "closing" /\ ending[p].on = {}
    /\ \E s \in ending[p].todo :
         IF child[s] = "reaped"
           THEN /\ proxy' = [proxy EXCEPT ![p] = "cancelling"]
                /\ ending' = [ending EXCEPT ![p] = NoEnding]
                /\ UNCHANGED child
           ELSE /\ ending' = [ending EXCEPT ![p] = [todo |-> @.todo \ {s}, on |-> {s}]]
                /\ Killed(s)
                /\ UNCHANGED proxy
    /\ UNCHANGED <<names, session, listed, stdin, answers, spoken, moves>>

\* process.wait() returns.
ShutdownWaited(p) ==
    /\ proxy[p] = "closing"
    /\ \E s \in ending[p].on : child[s] = "reaped"
    /\ ending' = [ending EXCEPT ![p].on = {}]
    /\ UNCHANGED <<proxy, names, session, listed, pipes, moves>>

\* sessions.clear(); aiohttp then waits for the handlers, for a time.
ShutdownEnds(p) ==
    /\ proxy[p] = "closing" /\ ending[p] = NoEnding
    /\ listed' = listed \ Of(p)
    /\ proxy' = [proxy EXCEPT ![p] = "cancelling"]
    /\ UNCHANGED <<names, session, ending, pipes, moves>>

\* run_app cancels the handlers that are left.  Only the reading stands in the try;
\* asyncio itself kills a process whose creation is cancelled.
Cancelled(s) ==
    /\ session[s].of # NoPid /\ proxy[session[s].of] = "cancelling"
    /\ Handled(s) /\ session[s].at # "cleanup"
    /\ Goto(s, IF session[s].at = "relay" THEN "cleanup" ELSE "broken")
    /\ IF session[s].at = "register" THEN Killed(s) ELSE UNCHANGED child
    /\ UNCHANGED <<proxy, names, listed, ending, stdin, answers, spoken, moves>>

LoopEnds(p) ==
    /\ proxy[p] = "cancelling"
    /\ \A s \in Of(p) : ~Handled(s)
    /\ proxy' = [proxy EXCEPT ![p] = "last"]
    /\ UNCHANGED <<names, handlers, pipes, moves>>

-----------------------------------------------------------------------------
(* handle_message, and the MCP server behind it *)

\* 202 for a session that is listed, whatever has become of its process.  A body of
\* more than one line is more than one line for the server.
Posts(s, body) ==
    /\ s \in listed /\ proxy[session[s].of] = "serving"
    /\ Move
    /\ IF Lives(s)
         THEN /\ stdin' = [stdin EXCEPT ![s] = Append(@, body)]
              /\ spoken' = [spoken EXCEPT ![s] = @ + IF body = "call" THEN 1 ELSE 0]
         ELSE UNCHANGED <<stdin, spoken>>
    /\ UNCHANGED <<proxy, names, handlers, child, answers>>

\* Mutant: a notification is answered like a request.
TakesAll(s) ==
    /\ child[s] = "idle" /\ stdin[s] # <<>> /\ Head(stdin[s]) # "garbage"
    /\ stdin' = [stdin EXCEPT ![s] = Tail(@)]
    /\ child' = [child EXCEPT ![s] = "busy"]
    /\ UNCHANGED <<proxy, names, handlers, answers, spoken, moves>>

\* read_message: a request, or a notification, which gets no answer.
Takes(s) ==
    /\ child[s] = "idle" /\ stdin[s] # <<>> /\ Head(stdin[s]) # "garbage"
    /\ stdin' = [stdin EXCEPT ![s] = Tail(@)]
    /\ child' = [child EXCEPT ![s] = IF Head(stdin[s]) = "call" THEN "busy" ELSE @]
    /\ UNCHANGED <<proxy, names, handlers, answers, spoken, moves>>

\* handle_request answers, also when the tool raises.
Answers(s) ==
    /\ child[s] = "busy"
    /\ child' = [child EXCEPT ![s] = "idle"]
    /\ answers' = [answers EXCEPT ![s] = @ + 1]
    /\ spoken' = [spoken EXCEPT ![s] = @ - 1]
    /\ UNCHANGED <<proxy, names, handlers, stdin, moves>>

\* stdin is closed when the proxy's process is gone.
Closed(s) == session[s].of # NoPid /\ proxy[session[s].of] = "gone"

\* read_message returns None at the end of the input and for a line that is no
\* JSON, and run ends.
GivesUp(s) ==
    /\ child[s] = "idle"
    /\ \/ stdin[s] # <<>> /\ Head(stdin[s]) = "garbage"
       \/ stdin[s] = <<>> /\ Closed(s)
    /\ child' = [child EXCEPT ![s] = "exited"]
    /\ UNCHANGED <<proxy, names, handlers, stdin, answers, spoken, moves>>

\* The loop (or, after the proxy, init) notices that the process is gone.
Reaps(s) ==
    /\ child[s] = "exited"
    /\ child' = [child EXCEPT ![s] = "reaped"]
    /\ UNCHANGED <<proxy, names, handlers, stdin, answers, spoken, moves>>
=============================================================================
