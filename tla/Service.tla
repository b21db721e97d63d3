------------------------------ MODULE Service -------------------------------
(***************************************************************************)
(* The threads of RegistryService: the owner that starts, stops and        *)
(* destroys it, the runner that accepts connections, and one detached      *)
(* worker for each of them, which decodes frames, keeps the session's      *)
(* rules and answers.  They share stopping_, the listener, hub_ with its   *)
(* ConnectionHub, and the session table.                                   *)
(*                                                                         *)
(* What a request does to the registry is Registry's matter; here it is    *)
(* answered, refused, or refused as foreign to the session.                *)
(***************************************************************************)
EXTENDS Framing, FiniteSets

CONSTANTS
  Conns,         \* connections, each opened at most once
  Scripts,       \* what the clients may send, a set of [Conns -> Seq(Frame)]
  MaxSessions    \* RegistryConfig::max_sessions

ASSUME ServiceAssumption ==
  /\ Scripts \subseteq [Conns -> Seq(Frame)]
  /\ {"runner", "owner"} \cap Conns = {}
  /\ MaxSessions \in Nat

Threads == Conns \cup {"runner", "owner"}

VARIABLES
  pc,        \* where each thread is
  stopping,  \* RegistryService::stopping_
  phase,     \* RegistryService::phase_
  listener,  \* "open"; "stopping", its flag is set; "closed"
  hubRef,    \* RegistryService::hub_ is set
  hub,       \* ConnectionHub: [stopping, live, active]
  victims,   \* begin_stop's snapshot, by the thread that took it
  inHand,    \* the connection the runner has accepted and not yet registered
  backlog,   \* connections made and not yet accepted
  conn,      \* each connection and its worker's locals: see Idle
  sessions,  \* sessions_
  nextSession

vars == <<pc, stopping, phase, listener, hubRef, hub, victims, inHand, backlog, conn,
          sessions, nextSession>>

\* A connection that was made to send this script.
Idle(script) ==
  [script |-> script,
   wire |-> Stream(script),   \* parts the client has sent and nobody has read
   peer |-> "open",           \* "stalled": reads no answers; "closed"
   shut |-> FALSE,            \* Socket::shutdown was called on our side
   decoder |-> NewDecoder,
   frames |-> <<>>,           \* decoded, to be handled
   fresh |-> FALSE,           \* history: the next frame is the first of its chunk
   bound |-> 0,               \* SessionBinding::session
   last |-> 0,                \* SessionBinding::last_request
   stop |-> FALSE,            \* stop_connection
   log |-> <<>>]              \* history: [frame, result, fresh] of each frame handled

Goto(t, l) == pc' = [pc EXCEPT ![t] = l]

-----------------------------------------------------------------------------
(* Listener::stop, called by any thread: the first one sets the flag, then    *)
(* wakes the accept and closes the socket; the others return at once.         *)

AfterListener(t) == IF t = "owner" THEN "hub" ELSE IF t = "runner" THEN "begin" ELSE "leave"

StopListener(t) ==
  /\ pc[t] = "listener"
  /\ IF listener = "open"
     THEN listener' = "stopping" /\ Goto(t, "close")
     ELSE UNCHANGED listener /\ Goto(t, AfterListener(t))
  /\ UNCHANGED <<stopping, phase, hubRef, hub, victims, inHand, backlog, conn, sessions, nextSession>>

CloseListener(t) ==
  /\ pc[t] = "close"
  /\ listener' = "closed"
  /\ Goto(t, AfterListener(t))
  /\ UNCHANGED <<stopping, phase, hubRef, hub, victims, inHand, backlog, conn, sessions, nextSession>>

-----------------------------------------------------------------------------
(* ConnectionHub *)

\* Mutant of Registered: the connection is not counted.
RegisteredUncounted(h, c) == [h EXCEPT !.live = @ \cup {c}]

\* add: registered and counted under the lock, and told whether to shut down.
Registered(h, c) == [h EXCEPT !.live = @ \cup {c}, !.active = @ + 1]

\* remove
Removed(h, c) == [h EXCEPT !.live = @ \ {c}, !.active = IF @ > 0 THEN @ - 1 ELSE 0]

AfterBegin(t) == IF t = "owner" THEN "join" ELSE "drain"

\* begin_stop: the flag and the snapshot under the lock.
BeginStop(t) ==
  /\ pc[t] = "begin"
  /\ IF hub.stopping
     THEN UNCHANGED <<hub, victims>> /\ Goto(t, AfterBegin(t))
     ELSE /\ hub' = [hub EXCEPT !.stopping = TRUE]
          /\ victims' = [victims EXCEPT ![t] = hub.live]
          /\ Goto(t, "shut")
  /\ UNCHANGED <<stopping, phase, listener, hubRef, inHand, backlog, conn, sessions, nextSession>>

\* Mutant of ShutVictims: the sockets are left alone.
ShutVictimsNone(t) ==
  /\ pc[t] = "shut"
  /\ victims' = [victims EXCEPT ![t] = {}]
  /\ Goto(t, AfterBegin(t))
  /\ UNCHANGED <<stopping, phase, listener, hubRef, hub, inHand, backlog, conn, sessions, nextSession>>

\* ... and then the sockets, outside it.
ShutVictims(t) ==
  /\ pc[t] = "shut"
  /\ conn' = [c \in Conns |-> IF c \in victims[t] THEN [conn[c] EXCEPT !.shut = TRUE] ELSE conn[c]]
  /\ victims' = [victims EXCEPT ![t] = {}]
  /\ Goto(t, AfterBegin(t))
  /\ UNCHANGED <<stopping, phase, listener, hubRef, hub, inHand, backlog, sessions, nextSession>>

-----------------------------------------------------------------------------
(* The runner: RegistryService::run. *)

Publish ==
  /\ pc["runner"] = "publish"
  /\ hubRef' = TRUE
  /\ Goto("runner", "loop")
  /\ UNCHANGED <<stopping, phase, listener, hub, victims, inHand, backlog, conn, sessions, nextSession>>

Loop ==
  /\ pc["runner"] = "loop"
  /\ Goto("runner", IF stopping THEN "ending" ELSE "accept")
  /\ UNCHANGED <<stopping, phase, listener, hubRef, hub, victims, inHand, backlog, conn, sessions,
                 nextSession>>

\* Listener::accept.  It blocks while nobody connects and the listener stands.
Accept ==
  /\ pc["runner"] = "accept"
  /\ \/ /\ listener = "open"
        /\ \E c \in backlog : inHand' = {c} /\ backlog' = backlog \ {c}
        /\ Goto("runner", "recheck")
     \/ /\ listener = "stopping" /\ backlog # {}   \* accepted and closed again
        /\ \E c \in backlog : backlog' = backlog \ {c}
        /\ Goto("runner", "ending")
        /\ UNCHANGED inHand
     \/ /\ listener = "closed"
        /\ Goto("runner", "ending")
        /\ UNCHANGED <<inHand, backlog>>
     \/ /\ listener = "open" /\ backlog # {}       \* any other error
        /\ Goto("runner", "loop")
        /\ UNCHANGED <<inHand, backlog>>
  /\ UNCHANGED <<stopping, phase, listener, hubRef, hub, victims, conn, sessions, nextSession>>

Recheck ==
  /\ pc["runner"] = "recheck"
  /\ IF stopping
     THEN inHand' = {} /\ Goto("runner", "ending")
     ELSE UNCHANGED inHand /\ Goto("runner", "add")
  /\ UNCHANGED <<stopping, phase, listener, hubRef, hub, victims, backlog, conn, sessions, nextSession>>

\* hub->add, and the worker is started.
Add ==
  /\ pc["runner"] = "add"
  /\ \E c \in inHand :
       /\ hub' = Registered(hub, c)
       /\ conn' = [conn EXCEPT ![c].shut = hub.stopping]
       /\ pc' = [pc EXCEPT !["runner"] = "loop", ![c] = "check"]
  /\ inHand' = {}
  /\ UNCHANGED <<stopping, phase, listener, hubRef, victims, backlog, sessions, nextSession>>

Ending ==
  /\ pc["runner"] = "ending"
  /\ Goto("runner", IF stopping THEN "listener" ELSE "begin")
  /\ UNCHANGED <<stopping, phase, listener, hubRef, hub, victims, inHand, backlog, conn, sessions,
                 nextSession>>

\* wait_drained, and the runner is done.
Drained ==
  /\ pc["runner"] = "drain"
  /\ hub.active = 0
  /\ hub' = [hub EXCEPT !.live = {}]
  /\ phase' = "Stopped"
  /\ Goto("runner", "done")
  /\ UNCHANGED <<stopping, listener, hubRef, victims, inHand, backlog, conn, sessions, nextSession>>

-----------------------------------------------------------------------------
(* The owner: it stops the service on a signal or once it sees it stopped,    *)
(* joins it and destroys it.                                                  *)

Stop ==
  /\ pc["owner"] = "serving"
  /\ stopping' = TRUE
  /\ Goto("owner", IF stopping THEN "join" ELSE "listener")
  /\ UNCHANGED <<phase, listener, hubRef, hub, victims, inHand, backlog, conn, sessions, nextSession>>

\* hub_ is read without the lock under which it is published.
ReadHub ==
  /\ pc["owner"] = "hub"
  /\ phase' = "Draining"
  /\ Goto("owner", IF hubRef THEN "begin" ELSE "join")
  /\ UNCHANGED <<stopping, listener, hubRef, hub, victims, inHand, backlog, conn, sessions, nextSession>>

Join ==
  /\ pc["owner"] = "join"
  /\ pc["runner"] = "done"
  /\ phase' = "Stopped"
  /\ Goto("owner", "done")
  /\ UNCHANGED <<stopping, listener, hubRef, hub, victims, inHand, backlog, conn, sessions, nextSession>>

-----------------------------------------------------------------------------
(* A worker. *)

CheckStop(c) ==
  /\ pc[c] = "check"
  /\ Goto(c, IF hub.stopping THEN "leave" ELSE "read")
  /\ UNCHANGED <<stopping, phase, listener, hubRef, hub, victims, inHand, backlog, conn, sessions,
                 nextSession>>

\* Mutant of AfterBatch: stop_connection is not looked at.
AfterBatchGoesOn(k) == IF stopping THEN "leave" ELSE "check"

\* Where a worker whose connection is k goes when its frames are handled.
AfterBatch(k) == IF k.stop \/ stopping THEN "leave" ELSE "check"

\* Mutant of Dead: the end of the stream passes for silence.
DeadIfShut(c) == conn[c].shut

\* The socket reads as ended, or fails.
Dead(c) == conn[c].shut \/ conn[c].peer = "closed"

\* wait_readable finds nothing within its 25 ms.
Silent(c) == ~Dead(c) /\ conn[c].wire = <<>>

\* wait_readable, read_some and push.
Read(c) ==
  /\ pc[c] = "read"
  /\ \/ \E n \in 1..Len(conn[c].wire) :
          LET got == Push(conn[c].decoder, SubSeq(conn[c].wire, 1, n))
              k == [conn[c] EXCEPT !.wire = SubSeq(@, n + 1, Len(@)), !.decoder = got.decoder,
                                   !.frames = IF got.decoder.poisoned THEN <<>> ELSE got.frames,
                                   !.fresh = TRUE, !.stop = FALSE]
          IN  /\ conn' = [conn EXCEPT ![c] = k]
              /\ Goto(c, IF got.decoder.poisoned THEN "leave"
                         ELSE IF k.frames # <<>> THEN "handle" ELSE AfterBatch(k))
     \/ /\ Dead(c)
        /\ Goto(c, "leave")
        /\ UNCHANGED conn
     \/ /\ Silent(c)
        /\ Goto(c, "check")
        /\ UNCHANGED conn
  /\ UNCHANGED <<stopping, phase, listener, hubRef, hub, victims, inHand, backlog, sessions, nextSession>>

\* closes_connection: the kinds of frame whose refusal ends the connection, one whose
\* envelope is not the session's and one of a type a bound session may not send.
Closing == {"foreign", "hello"}

\* What becomes of frame f on connection k: the session's rules, then handle_frame.
Result(k, f) ==
  IF k.bound = 0
  THEN IF f.kind # "hello" \/ Cardinality(sessions) >= MaxSessions THEN "violation" ELSE "bound"
  ELSE IF f.id =< k.last \/ f.kind \in Closing THEN "violation"
  ELSE IF f.kind = "refused" THEN "refused" ELSE "ok"

\* The next frame, up to its answer.  A refusal assigns stop_connection, a success
\* leaves it as it is.
Handle(c) ==
  /\ pc[c] = "handle"
  /\ LET k == conn[c]
         f == Head(k.frames)
         r == Result(k, f)
     IN  /\ conn' = [conn EXCEPT ![c] =
              [k EXCEPT !.last = IF k.bound # 0 /\ f.id > @ THEN f.id ELSE @,
                        !.stop = (@ \/ r = "violation") /\ r # "refused",
                        !.bound = IF r = "bound" THEN nextSession + 1 ELSE @,
                        !.fresh = FALSE,
                        !.log = Append(@, [frame |-> f, result |-> r, fresh |-> k.fresh])]]
         /\ sessions' = IF r = "bound" THEN sessions \cup {nextSession + 1} ELSE sessions
         /\ nextSession' = IF r = "bound" THEN nextSession + 1 ELSE nextSession
  /\ Goto(c, "reply")
  /\ UNCHANGED <<stopping, phase, listener, hubRef, hub, victims, inHand, backlog>>

\* write_all.  It blocks on a client that reads nothing until the socket is shut.
Reply(c) ==
  LET f == Head(conn[c].frames)
      k == [conn[c] EXCEPT !.frames = Tail(@)]
      shutdown == f.kind = "shutdown" /\ conn[c].log[Len(conn[c].log)].result = "ok"
  IN  /\ pc[c] = "reply"
      /\ conn' = [conn EXCEPT ![c] = k]
      /\ \/ /\ ~conn[c].shut /\ conn[c].peer # "stalled"
            /\ Goto(c, IF shutdown THEN "shutdown"
                       ELSE IF k.frames # <<>> THEN "handle" ELSE AfterBatch(k))
         \/ /\ Dead(c)
            /\ Goto(c, "leave")
      /\ UNCHANGED <<stopping, phase, listener, hubRef, hub, victims, inHand, backlog, sessions,
                     nextSession>>

\* A shutdown request was answered.
Shutdown(c) ==
  /\ pc[c] = "shutdown"
  /\ stopping' = TRUE
  /\ Goto(c, "listener")
  /\ UNCHANGED <<phase, listener, hubRef, hub, victims, inHand, backlog, conn, sessions, nextSession>>

\* A worker that leaves uses none of its locals again, and its history is judged.
Left == [Idle(<<>>) EXCEPT !.shut = TRUE]

\* Mutant of Leave: the session of a poisoned connection is not released.
LeaveUnlessPoisoned(c) ==
  /\ pc[c] = "leave"
  /\ sessions' = IF conn[c].decoder.poisoned THEN sessions ELSE sessions \ {conn[c].bound}
  /\ conn' = [conn EXCEPT ![c] = Left]
  /\ Goto(c, "remove")
  /\ UNCHANGED <<stopping, phase, listener, hubRef, hub, victims, inHand, backlog, nextSession>>

\* release_session, and the socket is shut down and closed.
Leave(c) ==
  /\ pc[c] = "leave"
  /\ sessions' = sessions \ {conn[c].bound}
  /\ conn' = [conn EXCEPT ![c] = Left]
  /\ Goto(c, "remove")
  /\ UNCHANGED <<stopping, phase, listener, hubRef, hub, victims, inHand, backlog, nextSession>>

\* The hub is told, the worker's last act.
Remove(c) ==
  /\ pc[c] = "remove"
  /\ hub' = Removed(hub, c)
  /\ Goto(c, "gone")
  /\ UNCHANGED <<stopping, phase, listener, hubRef, victims, inHand, backlog, conn, sessions, nextSession>>

-----------------------------------------------------------------------------
(* The clients. *)

\* A client with nothing to send never comes.
Connect(c) ==
  /\ pc[c] = "none"
  /\ conn[c].script # <<>>
  /\ c \notin backlog \cup inHand
  /\ listener = "open"
  /\ backlog' = backlog \cup {c}
  /\ UNCHANGED <<pc, stopping, phase, listener, hubRef, hub, victims, inHand, conn, sessions, nextSession>>

\* A client is found stalled or gone where the worker uses the socket.
Stall(c) ==
  /\ pc[c] = "reply"
  /\ conn[c].peer = "open"
  /\ conn' = [conn EXCEPT ![c].peer = "stalled"]
  /\ UNCHANGED <<pc, stopping, phase, listener, hubRef, hub, victims, inHand, backlog, sessions, nextSession>>

Hangup(c) ==
  /\ pc[c] \in {"read", "reply"}
  /\ conn[c].peer # "closed"
  /\ conn' = [conn EXCEPT ![c].peer = "closed"]
  /\ UNCHANGED <<pc, stopping, phase, listener, hubRef, hub, victims, inHand, backlog, sessions, nextSession>>

-----------------------------------------------------------------------------
Init ==
  /\ pc = [t \in Threads |-> IF t = "owner" THEN "serving"
                             ELSE IF t = "runner" THEN "publish" ELSE "none"]
  /\ stopping = FALSE
  /\ phase = "Ready"
  /\ listener = "open"
  /\ hubRef = FALSE
  /\ hub = [stopping |-> FALSE, live |-> {}, active |-> 0]
  /\ victims = [t \in {"owner", "runner"} |-> {}]
  /\ inHand = {}
  /\ backlog = {}
  /\ conn \in {[c \in Conns |-> Idle(script[c])] : script \in Scripts}
  /\ sessions = {}
  /\ nextSession = 0

Runner ==
  \/ Publish \/ Loop \/ Accept \/ Recheck \/ Add \/ Ending \/ Drained
  \/ StopListener("runner") \/ CloseListener("runner")
  \/ BeginStop("runner") \/ ShutVictims("runner")

\* The owner once it is stopping.
Owner ==
  \/ ReadHub \/ Join
  \/ StopListener("owner") \/ CloseListener("owner")
  \/ BeginStop("owner") \/ ShutVictims("owner")

Worker(c) ==
  \/ CheckStop(c) \/ Read(c) \/ Handle(c) \/ Reply(c) \/ Shutdown(c)
  \/ StopListener(c) \/ CloseListener(c) \/ Leave(c) \/ Remove(c)

Client(c) == Connect(c) \/ Stall(c) \/ Hangup(c)

Next == Runner \/ Owner \/ Stop \/ \E c \in Conns : Worker(c) \/ Client(c)

\* Threads are scheduled; an owner that waits for phase_ to become Stopped polls it.
\* A client need not do anything, and no signal need arrive.
FairSpec ==
  /\ Init /\ [][Next]_vars
  /\ WF_vars(Runner) /\ WF_vars(Owner) /\ WF_vars(phase = "Stopped" /\ Stop)
  /\ \A c \in Conns : WF_vars(Worker(c))

-----------------------------------------------------------------------------
(* Properties. *)

Started == {c \in Conns : pc[c] # "none"}

\* Once join() has returned, and the service may be destroyed, no detached worker
\* will touch it again, no session is left and the listener is closed, whoever
\* asked for the stop and whoever was being accepted.
NothingOutlivesJoin ==
  pc["owner"] = "done" =>
    /\ \A c \in Started : pc[c] = "gone"
    /\ sessions = {}
    /\ listener = "closed"

\* The session table holds exactly the sessions of the workers that have not left:
\* none is lost while in use and none stays behind, however the connection ended.
SessionsMatchWorkers ==
  /\ sessions = {conn[c].bound : c \in {c \in Started : pc[c] \notin {"remove", "gone"}}} \ {0}
  /\ \A c, d \in Conns : c # d /\ conn[c].bound = conn[d].bound => conn[c].bound = 0
  /\ Cardinality(sessions) =< MaxSessions

\* However the stream is cut into chunks, the frames a worker handles are the
\* frames sent, each once and in order, it has every one that was read whole, and
\* it gives up only on a flaw.
DecodedAsSent ==
  \A c \in Conns :
    LET k == conn[c]
        handled == [i \in DOMAIN k.log |-> k.log[i].frame]
        read == SubSeq(Stream(k.script), 1, Len(Stream(k.script)) - Len(k.wire))
        waiting == IF pc[c] = "reply" THEN Tail(k.frames) ELSE k.frames
    IN  /\ IF k.decoder.poisoned
           THEN Unsound(read) # {} /\ handled = SubSeq(k.script, 1, Len(handled))
           ELSE handled \o waiting = SubSeq(k.script, 1, Len(read) \div 2)
        /\ \A i \in DOMAIN handled : handled[i].flaw = "none"

\* No frame that arrives after a violation of the session's rules is handled: not
\* one of a later chunk, unless a request in the violation's own chunk was refused
\* after it for a reason that keeps the connection.
ViolationsEndConnections ==
  \A c \in Conns :
    LET log == conn[c].log
    IN  \A i, j \in DOMAIN log :
          /\ i < j /\ log[i].result = "violation"
          /\ \E n \in (i + 1)..j : log[n].fresh
          => \E n \in (i + 1)..j : /\ log[n].result = "refused"
                                   /\ \A m \in (i + 1)..n : ~log[m].fresh

\* A service that was told to stop, by its owner or by a shutdown request, ends:
\* also when it was not yet running, when a connection is being accepted, and when
\* clients stall in the middle of an answer.
StopEnds == stopping ~> pc["owner"] = "done"

\* A client that goes away gives its session back.
HangupsFreeSessions ==
  \A c \in Conns : conn[c].peer = "closed" ~> pc[c] = "gone"

=============================================================================
