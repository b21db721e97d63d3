---------------------------- MODULE ServiceProofs ---------------------------
(***************************************************************************)
(* The threads of RegistryService, for any number of connections and any   *)
(* scripts their clients may send: what join() may rely on, and that the   *)
(* session table is that of the workers.                                   *)
(***************************************************************************)
EXTENDS Service, FiniteSetTheorems, TLAPS

-----------------------------------------------------------------------------
(* The inductive invariant. *)

RunnerAt == {"publish", "loop", "accept", "recheck", "add", "ending", "listener", "close",
             "begin", "shut", "drain", "done"}
OwnerAt  == {"serving", "listener", "close", "hub", "begin", "shut", "join", "done"}
WorkerAt == {"none", "check", "read", "handle", "reply", "shutdown", "listener", "close",
             "leave", "remove", "gone"}

\* A connection as far as its fields go.
Fields == {"script", "wire", "peer", "shut", "decoder", "frames", "fresh", "bound", "last",
           "stop", "log"}

Shaped(k) == k = [x \in Fields |-> k[x]]

\* ... and the hub.
HubShaped(h) == h = [x \in {"stopping", "live", "active"} |-> h[x]]

PlaceInv ==
  /\ pc \in [Threads -> RunnerAt \cup OwnerAt \cup WorkerAt]
  /\ pc["runner"] \in RunnerAt /\ pc["owner"] \in OwnerAt
  /\ \A c \in Conns : pc[c] \in WorkerAt

ConnInv ==
  /\ conn = [c \in Conns |-> conn[c]]
  /\ \A c \in Conns : Shaped(conn[c])

SharedInv ==
  /\ listener \in {"open", "stopping", "closed"}
  /\ HubShaped(hub)
  /\ inHand \subseteq Conns /\ backlog \subseteq Conns
  /\ nextSession \in Nat

TypeInv == PlaceInv /\ ConnInv /\ SharedInv

\* The workers that run.
Running == {c \in Conns : pc[c] \notin {"none", "gone"}}

\* The hub counts them, and a connection that waits has no worker yet.
CountInv ==
  /\ IsFiniteSet(Running)
  /\ hub.active = Cardinality(Running)
  /\ inHand \cap backlog = {} /\ \A c \in inHand \cup backlog : pc[c] = "none"
  /\ pc["runner"] = "done" => Running = {}

\* The listener is only ever stopped in a service that is stopping, the thread that
\* set its flag is about to close it, and the runner drains the hub after it.
StopInv ==
  /\ listener # "open" => stopping
  /\ \A t \in Threads : pc[t] \in {"listener", "close"} => stopping
  /\ pc["runner"] = "ending" => stopping
  /\ pc["runner"] \in {"close", "begin", "shut", "drain", "done"} => listener # "open"
  /\ listener = "stopping" => \E t \in Threads : pc[t] = "close"
  /\ pc["owner"] = "done" => pc["runner"] = "done"

\* The session table is the sessions of the connections, each its own.
SessionInv ==
  /\ \A c \in Conns : conn[c].bound \in 0..nextSession
  /\ \A c \in Conns : pc[c] \in {"none", "remove", "gone"} => conn[c].bound = 0
  /\ sessions = {conn[c].bound : c \in Conns} \ {0}
  /\ \A c, d \in Conns : c # d /\ conn[c].bound = conn[d].bound => conn[c].bound = 0
  /\ IsFiniteSet(sessions) /\ Cardinality(sessions) =< MaxSessions

-----------------------------------------------------------------------------
\* No connection is taken for the runner or the owner.
LEMMA ConnsApart ==
  /\ "runner" \in Threads /\ "owner" \in Threads /\ Conns \subseteq Threads
  /\ \A c \in Conns : c # "runner" /\ c # "owner"
  BY ServiceAssumption DEF Threads

\* A worker in its loop.
Serves(c) == CheckStop(c) \/ Read(c) \/ Handle(c) \/ Reply(c)

\* A worker in its loop stays there or leaves, and changes no shared state.
LEMMA ServesOn ==
  ASSUME NEW c \in Conns, Serves(c)
  PROVE  /\ pc[c] \in {"check", "read", "handle", "reply"}
         /\ \E l \in {"check", "read", "handle", "reply", "shutdown", "leave"} : Goto(c, l)
         /\ UNCHANGED <<stopping, listener, hub, inHand, backlog>>
PROOF
<1>1. \A k : AfterBatch(k) \in {"leave", "check"}
  BY DEF AfterBatch
<1>2. CASE CheckStop(c)
  BY <1>2 DEF CheckStop
<1>3. CASE Read(c)
  BY <1>1, <1>3 DEF Read
<1>4. CASE Handle(c)
  BY <1>4 DEF Handle
<1>5. CASE Reply(c)
  BY <1>1, <1>5 DEF Reply
<1> QED
  BY <1>2, <1>3, <1>4, <1>5 DEF Serves

-----------------------------------------------------------------------------
(* Types. *)

\* Shutting a connection down keeps its session and its history.
LEMMA ShutShaped ==
  ASSUME NEW k, Shaped(k), NEW x
  PROVE  /\ Shaped([k EXCEPT !.shut = x])
         /\ [k EXCEPT !.shut = x].bound = k.bound /\ [k EXCEPT !.shut = x].log = k.log
  BY DEF Shaped, Fields

\* So does what its client does.
LEMMA PeerShaped ==
  ASSUME NEW k, Shaped(k), NEW x
  PROVE  /\ Shaped([k EXCEPT !.peer = x])
         /\ [k EXCEPT !.peer = x].bound = k.bound /\ [k EXCEPT !.peer = x].log = k.log
  BY DEF Shaped, Fields

\* Handling a frame sets the fields it names.
LEMMA HandleShaped ==
  ASSUME NEW k, Shaped(k), NEW l, NEW y, NEW b, NEW x, NEW g
  PROVE  LET n == [k EXCEPT !.last = l, !.stop = y, !.bound = b, !.fresh = x, !.log = g]
         IN  Shaped(n) /\ n.bound = b /\ n.log = g
  BY DEF Shaped, Fields

\* A connection that was left has no session and no history.
LEMMA LeftShaped == Shaped(Left) /\ Left.bound = 0 /\ Left.log = <<>>
PROOF
<1>1. Shaped(Idle(<<>>)) /\ Idle(<<>>).bound = 0 /\ Idle(<<>>).log = <<>>
  BY DEF Idle, Shaped, Fields
<1> QED
  BY <1>1, ShutShaped DEF Left

\* The service starts with every thread and every record of its kind.
LEMMA TypeInit == Init => TypeInv
PROOF
<1> SUFFICES ASSUME Init PROVE TypeInv
  OBVIOUS
<1>1. PlaceInv
  BY ConnsApart DEF Init, PlaceInv, RunnerAt, OwnerAt, WorkerAt
<1>2. PICK script \in Scripts : conn = [c \in Conns |-> Idle(script[c])]
  BY DEF Init
<1>3. \A x : Shaped(Idle(x))
  BY DEF Shaped, Fields, Idle
<1>4. ConnInv
  BY <1>2, <1>3 DEF ConnInv
<1> QED
  BY <1>1, <1>4 DEF Init, TypeInv, SharedInv, HubShaped

\* A thread goes to one of its own places.
LEMMA GotoPlace ==
  ASSUME PlaceInv, NEW t \in Threads, NEW l, Goto(t, l),
         t = "runner" => l \in RunnerAt, t = "owner" => l \in OwnerAt,
         t \in Conns => l \in WorkerAt
  PROVE  PlaceInv'
  BY ConnsApart DEF PlaceInv, Goto, Threads

\* One connection changes to another of its kind.
LEMMA ConnChange ==
  ASSUME ConnInv, NEW c \in Conns, NEW k, Shaped(k), conn' = [conn EXCEPT ![c] = k]
  PROVE  ConnInv' /\ conn'[c] = k /\ \A d \in Conns : d # c => conn'[d] = conn[d]
  BY DEF ConnInv

\* A step takes every thread to one of its own places.
LEMMA PlaceNext == TypeInv /\ [Next]_vars => PlaceInv'
PROOF
<1> SUFFICES ASSUME TypeInv, PlaceInv, [Next]_vars PROVE PlaceInv'
  BY DEF TypeInv
<1> USE ConnsApart DEF RunnerAt, OwnerAt, WorkerAt
<1>1. ASSUME NEW t \in Threads, StopListener(t) PROVE PlaceInv'
  <2>1. Goto(t, "close") \/ Goto(t, AfterListener(t))
    BY <1>1 DEF StopListener
  <2> QED
    BY <2>1, GotoPlace DEF AfterListener
<1>2. ASSUME NEW t \in Threads, CloseListener(t) PROVE PlaceInv'
  <2>1. Goto(t, AfterListener(t))
    BY <1>2 DEF CloseListener
  <2> QED
    BY <2>1, GotoPlace DEF AfterListener
<1>3. ASSUME NEW t \in {"owner", "runner"}, BeginStop(t) \/ ShutVictims(t) PROVE PlaceInv'
  <2>1. Goto(t, "shut") \/ Goto(t, AfterBegin(t))
    BY <1>3 DEF BeginStop, ShutVictims
  <2> QED
    BY <2>1, GotoPlace DEF AfterBegin
<1>4. CASE Publish \/ Loop \/ Accept \/ Recheck \/ Ending \/ Drained
  <2>1. \E l \in RunnerAt : Goto("runner", l)
    BY <1>4 DEF Publish, Loop, Accept, Recheck, Ending, Drained
  <2> QED
    BY <2>1, GotoPlace
<1>5. CASE Add
  <2>1. PICK c \in inHand : pc' = [pc EXCEPT !["runner"] = "loop", ![c] = "check"]
    BY <1>5 DEF Add
  <2> QED
    BY <2>1 DEF PlaceInv, TypeInv, SharedInv, Threads
<1>6. CASE Stop \/ ReadHub \/ Join
  <2>1. \E l \in OwnerAt : Goto("owner", l)
    BY <1>6 DEF Stop, ReadHub, Join
  <2> QED
    BY <2>1, GotoPlace
<1>7. ASSUME NEW c \in Conns,
             \/ CheckStop(c) \/ Read(c) \/ Handle(c) \/ Reply(c) \/ Shutdown(c)
             \/ Leave(c) \/ Remove(c)
      PROVE  PlaceInv'
  <2>1. \A k : AfterBatch(k) \in WorkerAt
    BY DEF AfterBatch
  <2>2. \E l \in WorkerAt : Goto(c, l)
    BY <1>7, <2>1 DEF CheckStop, Read, Handle, Reply, Shutdown, Leave, Remove
  <2> QED
    BY <2>2, GotoPlace
<1>8. ASSUME NEW c \in Conns, Client(c) PROVE PlaceInv'
  BY <1>8 DEF Client, Connect, Stall, Hangup, PlaceInv
<1>9. CASE UNCHANGED vars
  BY <1>9 DEF vars, PlaceInv
<1> QED
  BY <1>1, <1>2, <1>3, <1>4, <1>5, <1>6, <1>7, <1>8, <1>9 DEF Next, Runner, Owner, Worker

\* What a step makes of a connection: its session number stays, or a worker that has
\* none is given the next one, or the connection is left.
LEMMA ConnNext ==
  ASSUME TypeInv, [Next]_vars
  PROVE  /\ ConnInv'
         /\ \/ \A d \in Conns : conn'[d].bound = conn[d].bound
            \/ \E c \in Conns : Handle(c) \/ Leave(c)
PROOF
<1> USE DEF TypeInv
<1>1. ASSUME NEW t \in {"owner", "runner"}, ShutVictims(t)
      PROVE  ConnInv' /\ \A d \in Conns : conn'[d].bound = conn[d].bound
  <2> DEFINE k(c) == IF c \in victims[t] THEN [conn[c] EXCEPT !.shut = TRUE] ELSE conn[c]
  <2>1. conn' = [c \in Conns |-> k(c)]
    BY <1>1 DEF ShutVictims
  <2>2. \A c \in Conns : Shaped(k(c)) /\ k(c).bound = conn[c].bound
    BY ShutShaped DEF ConnInv
  <2> HIDE DEF k
  <2> QED
    BY <2>1, <2>2 DEF ConnInv
<1>2. CASE Add
  <2>1. PICK c \in Conns : conn' = [conn EXCEPT ![c] = [conn[c] EXCEPT !.shut = hub.stopping]]
    BY <1>2 DEF Add, SharedInv
  <2>2. /\ Shaped([conn[c] EXCEPT !.shut = hub.stopping])
        /\ [conn[c] EXCEPT !.shut = hub.stopping].bound = conn[c].bound
    BY ShutShaped DEF ConnInv
  <2> QED
    BY <2>1, <2>2, ConnChange
<1>3. ASSUME NEW c \in Conns, Stall(c) \/ Hangup(c)
      PROVE  ConnInv' /\ \A d \in Conns : conn'[d].bound = conn[d].bound
  <2>1. PICK x : conn' = [conn EXCEPT ![c] = [conn[c] EXCEPT !.peer = x]]
    BY <1>3 DEF Stall, Hangup
  <2>2. Shaped([conn[c] EXCEPT !.peer = x]) /\ [conn[c] EXCEPT !.peer = x].bound = conn[c].bound
    BY PeerShaped DEF ConnInv
  <2> QED
    BY <2>1, <2>2, ConnChange
<1>4. ASSUME NEW c \in Conns, Read(c)
      PROVE  ConnInv' /\ \A d \in Conns : conn'[d].bound = conn[d].bound
  <2>1. CASE conn' = conn
    BY <2>1 DEF ConnInv
  <2>2. CASE conn' # conn
    <3>1. PICK n \in 1..Len(conn[c].wire) :
            LET got == Push(conn[c].decoder, SubSeq(conn[c].wire, 1, n))
                k == [conn[c] EXCEPT !.wire = SubSeq(@, n + 1, Len(@)), !.decoder = got.decoder,
                                     !.frames = IF got.decoder.poisoned THEN <<>> ELSE got.frames,
                                     !.fresh = TRUE, !.stop = FALSE]
            IN  conn' = [conn EXCEPT ![c] = k]
      BY <1>4, <2>2, Zenon DEF Read
    <3>2. PICK w, d, f, x, y :
            conn' = [conn EXCEPT ![c] = [conn[c] EXCEPT !.wire = w, !.decoder = d, !.frames = f,
                                                        !.fresh = x, !.stop = y]]
      BY <3>1, Zenon
    <3> DEFINE k == [conn[c] EXCEPT !.wire = w, !.decoder = d, !.frames = f,
                                    !.fresh = x, !.stop = y]
    <3>3. Shaped(conn[c])
      BY DEF ConnInv
    <3>4. Shaped(k) /\ k.bound = conn[c].bound
      BY <3>3 DEF Shaped, Fields
    <3>5. conn' = [conn EXCEPT ![c] = k]
      BY <3>2
    <3> HIDE DEF k
    <3> QED
      BY <3>4, <3>5, ConnChange
  <2> QED
    BY <2>1, <2>2
<1>5. ASSUME NEW c \in Conns, Reply(c)
      PROVE  ConnInv' /\ \A d \in Conns : conn'[d].bound = conn[d].bound
  <2>1. PICK f : conn' = [conn EXCEPT ![c] = [conn[c] EXCEPT !.frames = f]]
    BY <1>5 DEF Reply
  <2>2. /\ Shaped([conn[c] EXCEPT !.frames = f])
        /\ [conn[c] EXCEPT !.frames = f].bound = conn[c].bound
    BY DEF ConnInv, Shaped, Fields
  <2> QED
    BY <2>1, <2>2, ConnChange
<1>6. ASSUME NEW c \in Conns, Handle(c) PROVE ConnInv'
  <2>1. PICK l, y, b, x, g :
          conn' = [conn EXCEPT ![c] = [conn[c] EXCEPT !.last = l, !.stop = y, !.bound = b,
                                                      !.fresh = x, !.log = g]]
    BY <1>6, Zenon DEF Handle
  <2> DEFINE k == [conn[c] EXCEPT !.last = l, !.stop = y, !.bound = b, !.fresh = x, !.log = g]
  <2>2. Shaped(k)
    BY HandleShaped DEF ConnInv
  <2> HIDE DEF k
  <2> QED
    BY <2>1, <2>2, ConnChange DEF k
<1>7. ASSUME NEW c \in Conns, Leave(c) PROVE ConnInv'
  BY <1>7, LeftShaped, ConnChange DEF Leave
<1>8. CASE conn' = conn
  BY <1>8 DEF ConnInv
<1>9. ASSUME NEW t \in Threads, StopListener(t) \/ CloseListener(t) PROVE conn' = conn
  BY <1>9 DEF StopListener, CloseListener
<1>10. ASSUME NEW t \in {"owner", "runner"}, BeginStop(t) PROVE conn' = conn
  BY <1>10 DEF BeginStop
<1>11. CASE \/ Publish \/ Loop \/ Accept \/ Recheck \/ Ending \/ Drained
            \/ Stop \/ ReadHub \/ Join \/ UNCHANGED vars
  BY <1>8, <1>11 DEF Publish, Loop, Accept, Recheck, Ending, Drained, Stop, ReadHub, Join, vars
<1>12. ASSUME NEW c \in Conns, CheckStop(c) \/ Shutdown(c) \/ Remove(c) \/ Connect(c)
       PROVE  conn' = conn
  BY <1>12 DEF CheckStop, Shutdown, Remove, Connect
<1> QED
  BY <1>1, <1>2, <1>3, <1>4, <1>5, <1>6, <1>7, <1>8, <1>9, <1>10, <1>11, <1>12, ConnsApart
     DEF Next, Runner, Owner, Worker, Client

\* Every step preserves TypeInv.
LEMMA TypeNext == TypeInv /\ [Next]_vars => TypeInv'
PROOF
<1> SUFFICES ASSUME TypeInv, [Next]_vars PROVE TypeInv'
  OBVIOUS
<1> SUFFICES SharedInv'
  BY PlaceNext, ConnNext DEF TypeInv
<1>2. SharedInv
  BY DEF TypeInv
<1>3. ASSUME NEW t \in Threads, StopListener(t) \/ CloseListener(t) PROVE SharedInv'
  BY <1>2, <1>3 DEF StopListener, CloseListener, SharedInv
<1>4. ASSUME NEW t \in {"owner", "runner"}, BeginStop(t) \/ ShutVictims(t) PROVE SharedInv'
  <2>1. HubShaped(hub')
    BY <1>2, <1>4 DEF BeginStop, ShutVictims, SharedInv, HubShaped
  <2> QED
    BY <1>2, <1>4, <2>1 DEF BeginStop, ShutVictims, SharedInv
<1>5. CASE Accept
  <2>1. /\ UNCHANGED <<listener, hub, nextSession>>
        /\ backlog' \subseteq backlog /\ inHand' \subseteq inHand \cup backlog
    BY <1>5 DEF Accept
  <2> QED
    BY <1>2, <2>1 DEF SharedInv
<1>6. CASE Publish \/ Loop \/ Recheck \/ Ending \/ Stop \/ ReadHub \/ Join \/ UNCHANGED vars
  <2>1. UNCHANGED <<listener, hub, nextSession, backlog>> /\ inHand' \subseteq inHand
    BY <1>6 DEF Publish, Loop, Recheck, Ending, Stop, ReadHub, Join, vars
  <2> QED
    BY <1>2, <2>1 DEF SharedInv
<1>7. CASE Add
  <2>1. PICK c \in inHand : hub' = Registered(hub, c)
    BY <1>7 DEF Add
  <2>2. HubShaped(hub')
    BY <1>2, <2>1 DEF Registered, SharedInv, HubShaped
  <2> QED
    BY <1>2, <1>7, <2>2 DEF Add, SharedInv
<1>8. CASE Drained
  <2>1. HubShaped(hub')
    BY <1>2, <1>8 DEF Drained, SharedInv, HubShaped
  <2> QED
    BY <1>2, <1>8, <2>1 DEF Drained, SharedInv
<1>9. ASSUME NEW c \in Conns,
             \/ CheckStop(c) \/ Read(c) \/ Reply(c) \/ Shutdown(c) \/ Leave(c)
             \/ Stall(c) \/ Hangup(c) \/ Connect(c)
      PROVE  SharedInv'
  <2>1. UNCHANGED <<listener, hub, nextSession, inHand>> /\ backlog' \subseteq backlog \cup {c}
    BY <1>9 DEF CheckStop, Read, Reply, Shutdown, Leave, Stall, Hangup, Connect
  <2> QED
    BY <1>2, <2>1 DEF SharedInv
<1>10. ASSUME NEW c \in Conns, Handle(c) PROVE SharedInv'
  <2>1. UNCHANGED <<listener, hub, inHand, backlog>>
    BY <1>10 DEF Handle
  <2>2. nextSession' = nextSession + 1 \/ nextSession' = nextSession
    BY <1>10, Zenon DEF Handle
  <2> QED
    BY <1>2, <2>1, <2>2 DEF SharedInv
<1>11. ASSUME NEW c \in Conns, Remove(c) PROVE SharedInv'
  <2>1. HubShaped(hub')
    BY <1>2, <1>11 DEF Remove, Removed, SharedInv, HubShaped
  <2> QED
    BY <1>2, <1>11, <2>1 DEF Remove, SharedInv
<1>12. CASE Runner
  BY <1>3, <1>4, <1>5, <1>6, <1>7, <1>8, <1>12, ConnsApart, Zenon DEF Runner
<1>13. CASE Owner
  BY <1>3, <1>4, <1>6, <1>13, ConnsApart, Zenon DEF Owner
<1>14. ASSUME NEW c \in Conns, Worker(c) \/ Client(c) PROVE SharedInv'
  <2>1. c \in Threads
    BY ConnsApart
  <2> QED
    BY <1>3, <1>9, <1>10, <1>11, <1>14, <2>1, Zenon DEF Worker, Client
<1> QED
  BY <1>6, <1>12, <1>13, <1>14 DEF Next

-----------------------------------------------------------------------------
(* The hub's count. *)

\* A thread that neither starts nor ends leaves the count as it was.
LEMMA CountKept ==
  ASSUME TypeInv, CountInv, NEW t \in Threads, NEW l, Goto(t, l),
         t \in Conns => pc[t] \notin {"none", "gone"} /\ l \notin {"none", "gone"},
         t = "runner" => l # "done",
         hub'.active = hub.active, inHand' \cup backlog' \subseteq inHand \cup backlog,
         inHand' \cap backlog' = {}
  PROVE  CountInv'
PROOF
<1>1. \A c \in Conns : c # t => pc'[c] = pc[c]
  BY ConnsApart DEF Goto, TypeInv, PlaceInv
<1>2. t \in Conns => pc'[t] = l
  BY DEF Goto, TypeInv, PlaceInv
<1>3. Running' = Running
  BY <1>1, <1>2 DEF Running
<1>4. \A c \in inHand' \cup backlog' : pc'[c] = "none"
  <2> SUFFICES ASSUME NEW c \in inHand' \cup backlog' PROVE pc'[c] = "none"
    OBVIOUS
  <2>1. c \in Conns /\ pc[c] = "none"
    BY DEF CountInv, TypeInv, SharedInv
  <2> QED
    BY <2>1, <1>1
<1>5. pc'["runner"] = "done" => pc["runner"] = "done"
  BY ConnsApart DEF Goto, TypeInv, PlaceInv
<1> QED
  BY <1>3, <1>4, <1>5 DEF CountInv

\* Every step preserves CountInv: add counts the worker it starts, remove the one that ends.
LEMMA CountNext == TypeInv /\ CountInv /\ [Next]_vars => CountInv'
PROOF
<1> SUFFICES ASSUME TypeInv, CountInv, [Next]_vars PROVE CountInv'
  OBVIOUS
<1> USE ConnsApart
<1>1. ASSUME NEW t \in Threads, StopListener(t) \/ CloseListener(t) PROVE CountInv'
  <2>1. /\ pc[t] \notin {"none", "gone"} /\ UNCHANGED <<hub, inHand, backlog>>
        /\ inHand \cap backlog = {}
    BY <1>1 DEF StopListener, CloseListener, CountInv
  <2>2. Goto(t, "close") \/ Goto(t, AfterListener(t))
    BY <1>1 DEF StopListener, CloseListener
  <2>3. AfterListener(t) \notin {"none", "gone", "done"}
    BY DEF AfterListener
  <2> QED
    BY <2>1, <2>2, <2>3, CountKept
<1>2. ASSUME NEW t \in {"owner", "runner"}, BeginStop(t) \/ ShutVictims(t) PROVE CountInv'
  <2>1. hub'.active = hub.active
    BY <1>2 DEF BeginStop, ShutVictims, TypeInv, SharedInv, HubShaped
  <2>2. Goto(t, "shut") \/ Goto(t, AfterBegin(t))
    BY <1>2 DEF BeginStop, ShutVictims
  <2>3. UNCHANGED <<inHand, backlog>> /\ inHand \cap backlog = {}
    BY <1>2 DEF BeginStop, ShutVictims, CountInv
  <2>4. AfterBegin(t) # "done"
    BY DEF AfterBegin
  <2> QED
    BY <2>1, <2>2, <2>3, <2>4, CountKept
<1>3. CASE Publish \/ Loop \/ Accept \/ Recheck \/ Ending
  <2>1. \E l : Goto("runner", l) /\ l # "done"
    BY <1>3 DEF Publish, Loop, Accept, Recheck, Ending
  <2>2. hub' = hub /\ inHand' \cup backlog' \subseteq inHand \cup backlog
    BY <1>3 DEF Publish, Loop, Accept, Recheck, Ending
  <2>3. inHand' \cap backlog' = {}
    BY <1>3 DEF Publish, Loop, Accept, Recheck, Ending, CountInv
  <2> QED
    BY <2>1, <2>2, <2>3, CountKept
<1>4. CASE Stop \/ ReadHub \/ Join
  <2>1. \E l : Goto("owner", l)
    BY <1>4 DEF Stop, ReadHub, Join
  <2>2. UNCHANGED <<hub, inHand, backlog>> /\ inHand \cap backlog = {}
    BY <1>4 DEF Stop, ReadHub, Join, CountInv
  <2> QED
    BY <2>1, <2>2, CountKept
<1>5. CASE Drained
  <2>1. Goto("runner", "done") /\ UNCHANGED <<inHand, backlog>>
    BY <1>5 DEF Drained
  <2>2. hub'.active = hub.active /\ hub.active = 0
    BY <1>5 DEF Drained, TypeInv, SharedInv, HubShaped
  <2>3. \A c \in Conns : pc'[c] = pc[c]
    BY <2>1 DEF Goto, TypeInv, PlaceInv
  <2>4. Running' = Running
    BY <2>3 DEF Running
  <2>5. Running = {}
    BY <2>2, FS_EmptySet DEF CountInv
  <2> QED
    BY <2>1, <2>2, <2>3, <2>4, <2>5 DEF CountInv, TypeInv, SharedInv
<1>6. CASE Add
  <2>1. PICK c \in inHand : /\ hub' = Registered(hub, c)
                            /\ pc' = [pc EXCEPT !["runner"] = "loop", ![c] = "check"]
    BY <1>6 DEF Add
  <2>2. c \in Conns /\ pc[c] = "none"
    BY DEF TypeInv, SharedInv, CountInv
  <2>3. /\ pc'[c] = "check" /\ pc'["runner"] = "loop"
        /\ \A d \in Conns : d # c => pc'[d] = pc[d]
    BY <2>1, <2>2 DEF TypeInv, PlaceInv
  <2>4. Running' = Running \cup {c} /\ c \notin Running
    BY <2>2, <2>3 DEF Running
  <2>5. hub'.active = hub.active + 1
    BY <2>1 DEF Registered, TypeInv, SharedInv, HubShaped
  <2>6. IsFiniteSet(Running) /\ hub.active = Cardinality(Running)
    BY DEF CountInv
  <2>7. IsFiniteSet(Running \cup {c}) /\ Cardinality(Running \cup {c}) = Cardinality(Running) + 1
    BY <2>4, <2>6, FS_AddElement
  <2>8. IsFiniteSet(Running') /\ hub'.active = Cardinality(Running')
    BY <2>4, <2>5, <2>6, <2>7
  <2>9. inHand' = {} /\ backlog' = backlog
    BY <1>6 DEF Add
  <2>10. ASSUME NEW d \in backlog PROVE pc'[d] = "none"
    BY <2>2, <2>3 DEF CountInv, TypeInv, SharedInv
  <2> QED
    BY <2>3, <2>8, <2>9, <2>10 DEF CountInv
<1>7. ASSUME NEW c \in Conns, Serves(c) \/ Shutdown(c) \/ Leave(c) PROVE CountInv'
  <2>1. \E l : Goto(c, l) /\ l \notin {"none", "gone"}
    BY <1>7, ServesOn DEF Shutdown, Leave
  <2>2. pc[c] \notin {"none", "gone"} /\ UNCHANGED <<hub, inHand, backlog>>
    BY <1>7, ServesOn DEF Shutdown, Leave
  <2>3. inHand \cap backlog = {}
    BY DEF CountInv
  <2> QED
    BY <2>1, <2>2, <2>3, CountKept
<1>8. ASSUME NEW c \in Conns, Remove(c) PROVE CountInv'
  <2>1. /\ pc[c] = "remove" /\ hub' = Removed(hub, c) /\ pc' = [pc EXCEPT ![c] = "gone"]
        /\ UNCHANGED <<inHand, backlog>>
    BY <1>8 DEF Remove, Goto
  <2>2. /\ pc'[c] = "gone" /\ pc'["runner"] = pc["runner"]
        /\ \A d \in Conns : d # c => pc'[d] = pc[d]
    BY <2>1 DEF TypeInv, PlaceInv
  <2>3. c \in Running /\ Running' = Running \ {c}
    BY <2>1, <2>2 DEF Running
  <2>4. IsFiniteSet(Running) /\ hub.active = Cardinality(Running)
    BY DEF CountInv
  <2>5. IsFiniteSet(Running \ {c}) /\ Cardinality(Running \ {c}) = Cardinality(Running) - 1
    BY <2>3, <2>4, FS_RemoveElement
  <2>6. Cardinality(Running) \in Nat /\ Cardinality(Running) # 0
    BY <2>3, <2>4, FS_EmptySet, FS_CardinalityType
  <2>7. hub'.active = hub.active - 1
    BY <2>1, <2>4, <2>6 DEF Removed, TypeInv, SharedInv, HubShaped
  <2>8. IsFiniteSet(Running') /\ hub'.active = Cardinality(Running')
    BY <2>3, <2>4, <2>5, <2>7
  <2>9. \A d \in inHand \cup backlog : d \in Conns /\ pc'[d] = "none"
    BY <2>1, <2>2 DEF CountInv, TypeInv, SharedInv
  <2>10. inHand \cap backlog = {} /\ pc["runner"] # "done"
    BY <2>3 DEF CountInv
  <2> QED
    BY <2>1, <2>2, <2>8, <2>9, <2>10 DEF CountInv
<1>9. ASSUME NEW c \in Conns, Connect(c) PROVE CountInv'
  <2>1. /\ pc[c] = "none" /\ UNCHANGED <<pc, hub, inHand>> /\ backlog' = backlog \cup {c}
        /\ c \notin inHand
    BY <1>9 DEF Connect
  <2> QED
    BY <2>1 DEF CountInv, Running
<1>10. ASSUME UNCHANGED <<pc, hub, inHand, backlog>> PROVE CountInv'
  BY <1>10 DEF CountInv, Running
<1>11. CASE Runner
  BY <1>1, <1>2, <1>3, <1>5, <1>6, <1>11, Zenon DEF Runner
<1>12. CASE Owner
  BY <1>1, <1>2, <1>4, <1>12, Zenon DEF Owner
<1>13. ASSUME NEW c \in Conns, Worker(c) PROVE CountInv'
  <2>1. c \in Threads
    OBVIOUS
  <2> QED
    BY <1>1, <1>7, <1>8, <1>13, <2>1, Zenon DEF Worker, Serves
<1>14. ASSUME NEW c \in Conns, Client(c) PROVE CountInv'
  <2>1. CASE Connect(c)
    BY <1>9, <2>1
  <2>2. CASE Stall(c) \/ Hangup(c)
    BY <1>10, <2>2 DEF Stall, Hangup
  <2> QED
    BY <1>14, <2>1, <2>2 DEF Client
<1>15. CASE UNCHANGED vars
  BY <1>10, <1>15 DEF vars
<1> QED
  BY <1>4, <1>11, <1>12, <1>13, <1>14, <1>15 DEF Next

-----------------------------------------------------------------------------
(* The stop. *)

\* A step that leaves the listener alone, by a thread that is not closing it.
LEMMA StopKept ==
  ASSUME TypeInv, StopInv, NEW t \in Threads, NEW l, Goto(t, l), pc[t] # "close",
         listener' = listener, stopping => stopping',
         l \in {"listener", "close"} => stopping',
         t = "runner" => /\ pc[t] # "done" /\ (l = "ending" => stopping)
                         /\ l \in {"close", "begin", "shut", "drain", "done"} => listener # "open",
         t = "owner" /\ l = "done" => pc["runner"] = "done"
  PROVE  StopInv'
PROOF
<1>1. pc'[t] = l /\ \A u \in Threads : u # t => pc'[u] = pc[u]
  BY DEF Goto, TypeInv, PlaceInv
<1>2. /\ listener' # "open" => stopping'
      /\ \A u \in Threads : pc'[u] \in {"listener", "close"} => stopping'
  BY <1>1 DEF StopInv
<1>3. /\ pc'["runner"] = "ending" => stopping'
      /\ pc'["runner"] \in {"close", "begin", "shut", "drain", "done"} => listener' # "open"
  BY <1>1, ConnsApart DEF StopInv
<1>4. listener' = "stopping" => \E u \in Threads : pc'[u] = "close"
  BY <1>1 DEF StopInv
<1>5. pc'["owner"] = "done" => pc'["runner"] = "done"
  BY <1>1, ConnsApart DEF StopInv
<1> QED
  BY <1>2, <1>3, <1>4, <1>5 DEF StopInv

\* Every step preserves StopInv.
LEMMA StopNext == TypeInv /\ CountInv /\ StopInv /\ [Next]_vars => StopInv'
PROOF
<1> SUFFICES ASSUME TypeInv, CountInv, StopInv, [Next]_vars PROVE StopInv'
  OBVIOUS
<1> USE ConnsApart
<1>1. ASSUME NEW t \in Threads, StopListener(t) PROVE StopInv'
  <2>1. pc[t] = "listener" /\ stopping /\ stopping' = stopping
    BY <1>1 DEF StopListener, StopInv
  <2>2. CASE listener = "open"
    <3>1. listener' = "stopping" /\ Goto(t, "close")
      BY <1>1, <2>2 DEF StopListener
    <3>2. pc'[t] = "close" /\ \A u \in Threads : u # t => pc'[u] = pc[u]
      BY <3>1 DEF Goto, TypeInv, PlaceInv
    <3> QED
      BY <2>1, <3>1, <3>2 DEF StopInv
  <2>3. CASE listener # "open"
    <3>1. listener' = listener /\ Goto(t, AfterListener(t))
      BY <1>1, <2>3 DEF StopListener
    <3>2. /\ AfterListener(t) \notin {"done", "listener"}
          /\ AfterListener(t) \notin {"close", "ending"}
      BY DEF AfterListener
    <3> QED
      BY <2>1, <2>3, <3>1, <3>2, StopKept
  <2> QED
    BY <2>2, <2>3
<1>2. ASSUME NEW t \in Threads, CloseListener(t) PROVE StopInv'
  <2>1. /\ pc[t] = "close" /\ listener' = "closed" /\ stopping' = stopping
        /\ Goto(t, AfterListener(t))
    BY <1>2 DEF CloseListener
  <2>2. pc'[t] = AfterListener(t) /\ \A u \in Threads : u # t => pc'[u] = pc[u]
    BY <2>1 DEF Goto, TypeInv, PlaceInv
  <2>3. AfterListener(t) \notin {"done", "listener", "ending"}
    BY DEF AfterListener
  <2>4. stopping
    BY <2>1 DEF StopInv
  <2> QED
    BY <2>1, <2>2, <2>3, <2>4 DEF StopInv
<1>3. ASSUME NEW t \in {"owner", "runner"}, BeginStop(t) \/ ShutVictims(t) PROVE StopInv'
  <2>1. Goto(t, "shut") \/ Goto(t, AfterBegin(t))
    BY <1>3 DEF BeginStop, ShutVictims
  <2>2. pc[t] \in {"begin", "shut"} /\ UNCHANGED <<listener, stopping>>
    BY <1>3 DEF BeginStop, ShutVictims
  <2>3. AfterBegin(t) \notin {"listener", "close", "ending", "done"}
    BY DEF AfterBegin
  <2>4. t = "runner" => listener # "open"
    BY <2>2 DEF StopInv
  <2> QED
    BY <2>1, <2>2, <2>3, <2>4, StopKept
<1>4. CASE Publish \/ Loop \/ Accept \/ Recheck \/ Ending
  <2>1. UNCHANGED <<listener, stopping>>
    BY <1>4 DEF Publish, Loop, Accept, Recheck, Ending
  <2>2. pc["runner"] \in {"publish", "loop", "accept", "recheck", "ending"}
    BY <1>4 DEF Publish, Loop, Accept, Recheck, Ending
  <2>3. \E l \in {"loop", "ending", "accept", "recheck", "add", "listener"} :
          Goto("runner", l) /\ (l \in {"ending", "listener"} => stopping)
    BY <1>4 DEF Publish, Loop, Accept, Recheck, Ending, StopInv
  <2> QED
    BY <2>1, <2>2, <2>3, StopKept
<1>5. CASE Drained
  <2>1. /\ pc["runner"] = "drain" /\ Goto("runner", "done") /\ UNCHANGED <<listener, stopping>>
    BY <1>5 DEF Drained
  <2>2. listener # "open"
    BY <2>1 DEF StopInv
  <2> QED
    BY <2>1, <2>2, StopKept
<1>6. CASE Add
  <2>1. PICK c \in inHand : pc' = [pc EXCEPT !["runner"] = "loop", ![c] = "check"]
    BY <1>6 DEF Add
  <2>2. /\ c \in Conns /\ pc[c] = "none" /\ pc["runner"] = "add"
        /\ UNCHANGED <<listener, stopping>>
    BY <1>6 DEF Add, TypeInv, SharedInv, CountInv
  <2>3. /\ pc'[c] = "check" /\ pc'["runner"] = "loop"
        /\ \A u \in Threads : u # c /\ u # "runner" => pc'[u] = pc[u]
    BY <2>1, <2>2 DEF TypeInv, PlaceInv
  <2>4. listener' = "stopping" => \E u \in Threads : pc'[u] = "close"
    BY <2>2, <2>3 DEF StopInv
  <2> QED
    BY <2>2, <2>3, <2>4 DEF StopInv
<1>7. CASE Stop \/ ReadHub \/ Join
  <2>1. listener' = listener /\ (stopping => stopping') /\ pc["owner"] # "close"
    BY <1>7 DEF Stop, ReadHub, Join
  <2>2. \E l : /\ Goto("owner", l) /\ (l \in {"listener", "close"} => stopping')
               /\ l = "done" => pc["runner"] = "done"
    BY <1>7 DEF Stop, ReadHub, Join
  <2> QED
    BY <2>1, <2>2, StopKept
<1>8. ASSUME NEW c \in Conns, Serves(c) \/ Shutdown(c) \/ Leave(c) \/ Remove(c)
      PROVE  StopInv'
  <2>1. \E l : Goto(c, l) /\ (l \in {"listener", "close"} => stopping')
    BY <1>8, ServesOn DEF Shutdown, Leave, Remove
  <2>2. pc[c] # "close" /\ listener' = listener /\ (stopping => stopping')
    BY <1>8, ServesOn DEF Shutdown, Leave, Remove
  <2> QED
    BY <2>1, <2>2, StopKept
<1>9. ASSUME UNCHANGED <<pc, listener, stopping>> PROVE StopInv'
  BY <1>9 DEF StopInv
<1>10. CASE Runner
  BY <1>1, <1>2, <1>3, <1>4, <1>5, <1>6, <1>10, Zenon DEF Runner
<1>11. CASE Owner
  BY <1>1, <1>2, <1>3, <1>7, <1>11, Zenon DEF Owner
<1>12. ASSUME NEW c \in Conns, Worker(c) PROVE StopInv'
  <2>1. c \in Threads
    OBVIOUS
  <2> QED
    BY <1>1, <1>2, <1>8, <1>12, <2>1, Zenon DEF Worker, Serves
<1>13. ASSUME NEW c \in Conns, Client(c) PROVE StopInv'
  BY <1>9, <1>13 DEF Client, Connect, Stall, Hangup
<1>14. CASE UNCHANGED vars
  BY <1>9, <1>14 DEF vars
<1> QED
  BY <1>7, <1>10, <1>11, <1>12, <1>13, <1>14 DEF Next

-----------------------------------------------------------------------------
(* The session table. *)

\* A step that binds no connection and leaves none.
LEMMA SessionsKept ==
  ASSUME SessionInv, UNCHANGED <<sessions, nextSession>>,
         \A c \in Conns : conn'[c].bound = conn[c].bound,
         \A c \in Conns : pc'[c] \in {"none", "remove", "gone"}
                            => pc[c] \in {"none", "remove", "gone"}
  PROVE  SessionInv'
  BY DEF SessionInv

\* Only a worker that leaves comes to where it has no session.
LEMMA LeavesOnce ==
  ASSUME TypeInv, CountInv, [Next]_vars, NEW c \in Conns, ~Leave(c),
         pc'[c] \in {"none", "remove", "gone"}
  PROVE  pc[c] \in {"none", "remove", "gone"}
PROOF
<1> SUFFICES ASSUME pc[c] \notin {"none", "remove", "gone"} PROVE FALSE
  OBVIOUS
<1> USE ConnsApart
<1>1. ASSUME NEW t \in Threads, NEW l, Goto(t, l), t = c => l \notin {"none", "remove", "gone"}
      PROVE  FALSE
  BY <1>1 DEF Goto, TypeInv, PlaceInv
<1>2. ASSUME NEW t \in Threads, StopListener(t) \/ CloseListener(t) PROVE FALSE
  <2>1. Goto(t, "close") \/ Goto(t, AfterListener(t))
    BY <1>2 DEF StopListener, CloseListener
  <2> QED
    BY <1>1, <2>1 DEF AfterListener
<1>3. ASSUME NEW t \in {"owner", "runner"}, BeginStop(t) \/ ShutVictims(t) PROVE FALSE
  <2>1. \E l : Goto(t, l)
    BY <1>3 DEF BeginStop, ShutVictims
  <2> QED
    BY <1>1, <2>1
<1>4. ASSUME Publish \/ Loop \/ Accept \/ Recheck \/ Ending \/ Drained PROVE FALSE
  <2>1. \E l : Goto("runner", l)
    BY <1>4 DEF Publish, Loop, Accept, Recheck, Ending, Drained
  <2> QED
    BY <1>1, <2>1
<1>5. ASSUME Stop \/ ReadHub \/ Join PROVE FALSE
  <2>1. \E l : Goto("owner", l)
    BY <1>5 DEF Stop, ReadHub, Join
  <2> QED
    BY <1>1, <2>1
<1>6. ASSUME Add PROVE FALSE
  <2>1. PICK d \in Conns : pc' = [pc EXCEPT !["runner"] = "loop", ![d] = "check"]
    BY <1>6 DEF Add, TypeInv, SharedInv
  <2> QED
    BY <2>1 DEF TypeInv, PlaceInv
<1>7. ASSUME NEW d \in Conns, Serves(d) \/ Shutdown(d) \/ Leave(d) \/ Remove(d) PROVE FALSE
  <2>1. \E l : Goto(d, l) /\ (d = c => l \notin {"none", "remove", "gone"})
    BY <1>7, ServesOn DEF Shutdown, Leave, Remove
  <2> QED
    BY <1>1, <2>1
<1>8. ASSUME pc' = pc PROVE FALSE
  BY <1>8
<1>9. ASSUME NEW d \in Conns, Client(d) PROVE FALSE
  BY <1>8, <1>9 DEF Client, Connect, Stall, Hangup
<1>10. ASSUME UNCHANGED vars PROVE FALSE
  BY <1>8, <1>10 DEF vars
<1>11. ASSUME NEW d \in Conns, Worker(d) PROVE FALSE
  <2>1. d \in Threads
    OBVIOUS
  <2> QED
    BY <1>2, <1>7, <1>11, <2>1, Zenon DEF Worker, Serves
<1>12. ASSUME Runner PROVE FALSE
  BY <1>2, <1>3, <1>4, <1>6, <1>12, Zenon DEF Runner
<1>13. ASSUME Owner PROVE FALSE
  BY <1>2, <1>3, <1>5, <1>13, Zenon DEF Owner
<1> QED
  BY <1>5, <1>9, <1>10, <1>11, <1>12, <1>13 DEF Next

\* Only a frame that is handled and a worker that leaves touch the session table.
LEMMA SessionsElse ==
  ASSUME [Next]_vars, ~ \E c \in Conns : Handle(c) \/ Leave(c)
  PROVE  UNCHANGED <<sessions, nextSession>>
PROOF
<1>1. ASSUME NEW t, StopListener(t) \/ CloseListener(t) \/ BeginStop(t) \/ ShutVictims(t)
      PROVE  UNCHANGED <<sessions, nextSession>>
  BY <1>1 DEF StopListener, CloseListener, BeginStop, ShutVictims
<1>2. CASE Publish \/ Loop \/ Accept \/ Recheck \/ Add \/ Ending \/ Drained
  BY <1>2 DEF Publish, Loop, Accept, Recheck, Add, Ending, Drained
<1>3. CASE ReadHub \/ Join \/ Stop \/ UNCHANGED vars
  BY <1>3 DEF ReadHub, Join, Stop, vars
<1>4. ASSUME NEW c \in Conns,
             CheckStop(c) \/ Read(c) \/ Reply(c) \/ Shutdown(c) \/ Remove(c) \/ Client(c)
      PROVE  UNCHANGED <<sessions, nextSession>>
  BY <1>4 DEF CheckStop, Read, Reply, Shutdown, Remove, Client, Connect, Stall, Hangup
<1> QED
  BY <1>1, <1>2, <1>3, <1>4, Zenon DEF Next, Runner, Owner, Worker

\* A hello takes the next number, and only while the table has room.
LEMMA HandleBinds ==
  ASSUME TypeInv, SessionInv, NEW c \in Conns, Handle(c)
  PROVE  /\ \A d \in Conns : d # c => conn'[d] = conn[d]
         /\ \/ /\ conn'[c].bound = conn[c].bound
               /\ UNCHANGED <<sessions, nextSession>>
            \/ /\ conn[c].bound = 0 /\ conn'[c].bound = nextSession + 1
               /\ ~(Cardinality(sessions) >= MaxSessions)
               /\ sessions' = sessions \cup {nextSession + 1} /\ nextSession' = nextSession + 1
PROOF
<1> DEFINE f == Head(conn[c].frames)
           b == IF Result(conn[c], f) = "bound" THEN nextSession + 1 ELSE conn[c].bound
<1>1. PICK l, y, x, g :
        conn' = [conn EXCEPT ![c] = [conn[c] EXCEPT !.last = l, !.stop = y, !.bound = b,
                                                    !.fresh = x, !.log = g]]
  BY Zenon DEF Handle
<1>2. /\ sessions' = IF Result(conn[c], f) = "bound" THEN sessions \cup {nextSession + 1}
                                                     ELSE sessions
      /\ nextSession' = IF Result(conn[c], f) = "bound" THEN nextSession + 1 ELSE nextSession
  BY Zenon DEF Handle
<1>3. Result(conn[c], f) = "bound" => conn[c].bound = 0 /\ ~(Cardinality(sessions) >= MaxSessions)
  BY DEF Result
<1>4. Shaped(conn[c]) /\ conn = [d \in Conns |-> conn[d]]
  BY DEF TypeInv, ConnInv
<1>5. b = nextSession + 1 \/ b = conn[c].bound
  OBVIOUS
<1>6. conn'[c].bound = b /\ \A d \in Conns : d # c => conn'[d] = conn[d]
  <2> HIDE DEF b
  <2> QED
    BY <1>1, <1>4 DEF Shaped, Fields
<1> QED
  BY <1>2, <1>3, <1>6, Zenon

\* Every step preserves SessionInv.
LEMMA SessionNext == TypeInv /\ CountInv /\ SessionInv /\ [Next]_vars => SessionInv'
PROOF
<1> SUFFICES ASSUME TypeInv, CountInv, SessionInv, [Next]_vars PROVE SessionInv'
  OBVIOUS
<1>1. nextSession \in Nat /\ MaxSessions \in Nat
  BY ServiceAssumption DEF TypeInv, SharedInv
<1>2. ASSUME NEW c \in Conns, Handle(c) PROVE SessionInv'
  <2>1. pc[c] = "handle" /\ pc' = [pc EXCEPT ![c] = "reply"]
    BY <1>2 DEF Handle, Goto
  <2>2. \A d \in Conns : pc'[d] \in {"none", "remove", "gone"} => d # c /\ pc'[d] = pc[d]
    BY <2>1, ConnsApart DEF TypeInv, PlaceInv
  <2>3. \A d \in Conns : d # c => conn'[d] = conn[d]
    BY <1>2, HandleBinds
  <2>4. CASE conn'[c].bound = conn[c].bound /\ UNCHANGED <<sessions, nextSession>>
    <3>1. \A d \in Conns : conn'[d].bound = conn[d].bound
      BY <2>3, <2>4
    <3> QED
      BY <2>2, <2>4, <3>1, SessionsKept
  <2>5. CASE /\ conn[c].bound = 0 /\ conn'[c].bound = nextSession + 1
             /\ ~(Cardinality(sessions) >= MaxSessions)
             /\ sessions' = sessions \cup {nextSession + 1} /\ nextSession' = nextSession + 1
    <3>1. \A d \in Conns : conn'[d].bound \in 0..nextSession'
      BY <1>1, <2>3, <2>5 DEF SessionInv
    <3>2. \A d \in Conns : pc'[d] \in {"none", "remove", "gone"} => conn'[d].bound = 0
      BY <2>2, <2>3 DEF SessionInv
    <3>3. \A d \in Conns : conn[d].bound # nextSession + 1
      BY <1>1 DEF SessionInv
    <3>4. nextSession + 1 # 0 /\ nextSession + 1 \notin sessions
      BY <1>1, <3>3 DEF SessionInv
    <3>5. sessions' = {conn'[d].bound : d \in Conns} \ {0}
      <4>1. sessions = {conn[d].bound : d \in Conns} \ {0}
        BY DEF SessionInv
      <4> DEFINE z == nextSession + 1
      <4>2. conn[c].bound = 0 /\ conn'[c].bound = z /\ z # 0 /\ sessions' = sessions \cup {z}
        BY <2>5, <3>4
      <4> HIDE DEF z
      <4> QED
        BY <2>3, <4>1, <4>2
    <3>6. \A d, e \in Conns : d # e /\ conn'[d].bound = conn'[e].bound => conn'[d].bound = 0
      BY <2>3, <2>5, <3>3 DEF SessionInv
    <3>7. /\ IsFiniteSet(sessions) /\ Cardinality(sessions) \in Nat
          /\ IsFiniteSet(sessions \cup {nextSession + 1})
          /\ Cardinality(sessions \cup {nextSession + 1}) = Cardinality(sessions) + 1
      BY <3>4, FS_AddElement, FS_CardinalityType DEF SessionInv
    <3>8. IsFiniteSet(sessions') /\ Cardinality(sessions') =< MaxSessions
      BY <1>1, <2>5, <3>7
    <3> QED
      BY <3>1, <3>2, <3>5, <3>6, <3>8 DEF SessionInv
  <2> QED
    BY <1>2, <2>4, <2>5, HandleBinds
<1>3. ASSUME NEW c \in Conns, Leave(c) PROVE SessionInv'
  <2>1. /\ sessions' = sessions \ {conn[c].bound} /\ nextSession' = nextSession
        /\ conn' = [conn EXCEPT ![c] = Left] /\ pc' = [pc EXCEPT ![c] = "remove"]
    BY <1>3 DEF Leave, Goto
  <2>2. conn'[c].bound = 0 /\ \A d \in Conns : d # c => conn'[d] = conn[d]
    BY <2>1, LeftShaped DEF TypeInv, ConnInv
  <2>3. \A d \in Conns : d # c => pc'[d] = pc[d]
    BY <2>1, ConnsApart DEF TypeInv, PlaceInv
  <2>4. \A d \in Conns : conn'[d].bound \in 0..nextSession'
    BY <1>1, <2>1, <2>2 DEF SessionInv
  <2>5. \A d \in Conns : pc'[d] \in {"none", "remove", "gone"} => conn'[d].bound = 0
    BY <2>2, <2>3 DEF SessionInv
  <2>6. sessions' = {conn'[d].bound : d \in Conns} \ {0}
    <3>1. sessions = {conn[d].bound : d \in Conns} \ {0}
      BY DEF SessionInv
    <3>2. \A d \in Conns : d # c /\ conn[d].bound = conn[c].bound => conn[d].bound = 0
      BY DEF SessionInv
    <3> QED
      BY <2>1, <2>2, <3>1, <3>2
  <2>7. \A d, e \in Conns : d # e /\ conn'[d].bound = conn'[e].bound => conn'[d].bound = 0
    BY <2>2 DEF SessionInv
  <2>8. /\ IsFiniteSet(sessions') /\ Cardinality(sessions') =< Cardinality(sessions)
        /\ Cardinality(sessions') \in Nat /\ Cardinality(sessions) \in Nat
        /\ Cardinality(sessions) =< MaxSessions
    BY <2>1, FS_Subset, FS_CardinalityType DEF SessionInv
  <2>9. IsFiniteSet(sessions') /\ Cardinality(sessions') =< MaxSessions
    BY <1>1, <2>8
  <2> QED
    BY <2>4, <2>5, <2>6, <2>7, <2>9 DEF SessionInv
<1>4. CASE ~ \E c \in Conns : Handle(c) \/ Leave(c)
  <2>1. \A d \in Conns : conn'[d].bound = conn[d].bound
    BY <1>4, ConnNext
  <2>2. UNCHANGED <<sessions, nextSession>>
    BY <1>4, SessionsElse
  <2>3. \A c \in Conns : pc'[c] \in {"none", "remove", "gone"} => pc[c] \in {"none", "remove", "gone"}
    BY <1>4, LeavesOnce
  <2> QED
    BY <2>1, <2>2, <2>3, SessionsKept
<1> QED
  BY <1>2, <1>3, <1>4

-----------------------------------------------------------------------------
(* The theorems. *)

ServiceInv == TypeInv /\ CountInv /\ StopInv /\ SessionInv

\* A service that starts satisfies the invariant.
LEMMA ServiceInit == Init => ServiceInv
PROOF
<1> SUFFICES ASSUME Init PROVE ServiceInv
  OBVIOUS
<1>1. TypeInv
  BY TypeInit
<1>2. /\ \A c \in Conns : pc[c] = "none"
      /\ pc["runner"] = "publish" /\ pc["owner"] = "serving"
      /\ inHand = {} /\ backlog = {} /\ listener = "open" /\ sessions = {} /\ nextSession = 0
      /\ hub.active = 0
  BY ConnsApart DEF Init
<1>3. Running = {}
  BY <1>2 DEF Running
<1>4. CountInv
  BY <1>2, <1>3, FS_EmptySet DEF CountInv
<1>5. StopInv
  BY <1>2 DEF StopInv, Threads
<1>6. PICK script \in Scripts : conn = [c \in Conns |-> Idle(script[c])]
  BY DEF Init
<1>7. \A x : Idle(x).bound = 0
  BY DEF Idle
<1>8. \A c \in Conns : conn[c].bound = 0
  BY <1>6, <1>7
<1>9. IsFiniteSet({}) /\ Cardinality({}) = 0 /\ 0 =< MaxSessions
  BY FS_EmptySet, ServiceAssumption
<1>10. SessionInv
  BY <1>2, <1>8, <1>9 DEF SessionInv
<1> QED
  BY <1>1, <1>4, <1>5, <1>10 DEF ServiceInv

\* Every state of a service satisfies ServiceInv: the hub counts the workers that
\* run, the listener is stopped by a service that stops and is closed by the thread
\* that stopped it, and the session table is that of the connections.
THEOREM Serving == FairSpec => []ServiceInv
PROOF
<1>1. ServiceInv /\ [Next]_vars => ServiceInv'
  BY TypeNext, CountNext, StopNext, SessionNext DEF ServiceInv
<1> QED
  BY <1>1, ServiceInit, PTL DEF FairSpec

\* NothingOutlivesJoin, for any number of connections, any scripts and any limit on
\* the sessions: what RegistryService's destructor relies on when it has joined the
\* runner, although the workers are detached threads.
THEOREM JoinIsSafe == FairSpec => []NothingOutlivesJoin
PROOF
<1>1. ServiceInv => NothingOutlivesJoin
  <2> SUFFICES ASSUME ServiceInv, pc["owner"] = "done"
               PROVE  /\ \A c \in Started : pc[c] = "gone"
                      /\ sessions = {} /\ listener = "closed"
    BY DEF NothingOutlivesJoin
  <2>1. pc["runner"] = "done" /\ Running = {}
    BY DEF ServiceInv, StopInv, CountInv
  <2>2. \A c \in Conns : pc[c] \in {"none", "gone"}
    BY <2>1 DEF Running
  <2>3. sessions = {}
    BY <2>2 DEF ServiceInv, SessionInv
  <2>4. \A t \in Threads : pc[t] # "close"
    BY <2>1, <2>2 DEF Threads
  <2>5. listener = "closed"
    BY <2>1, <2>4 DEF ServiceInv, StopInv, TypeInv, SharedInv
  <2> QED
    BY <2>2, <2>3, <2>5 DEF Started
<1> QED
  BY <1>1, Serving, PTL

\* SessionsMatchWorkers, for any number of connections and any limit: however a
\* connection ends, release_session takes its session and no other out of the table.
THEOREM SessionsReleased == FairSpec => []SessionsMatchWorkers
PROOF
<1>1. ServiceInv => SessionsMatchWorkers
  <2> SUFFICES ASSUME SessionInv PROVE SessionsMatchWorkers
    BY DEF ServiceInv
  <2> DEFINE W == {c \in Started : pc[c] \notin {"remove", "gone"}}
  <2>1. W = {c \in Conns : pc[c] \notin {"none", "remove", "gone"}}
    BY DEF Started
  <2>2. \A c \in Conns \ W : conn[c].bound = 0
    BY <2>1 DEF SessionInv
  <2>3. sessions = {conn[c].bound : c \in Conns} \ {0}
    BY DEF SessionInv
  <2>4. W \subseteq Conns
    BY <2>1
  <2>5. sessions = {conn[c].bound : c \in W} \ {0}
    <3> HIDE DEF W
    <3> QED
      BY <2>2, <2>3, <2>4
  <2> QED
    BY <2>5 DEF SessionInv, SessionsMatchWorkers
<1> QED
  BY <1>1, Serving, PTL

-----------------------------------------------------------------------------
(* Violations. *)

IsLog(g) == \E S : g \in Seq(S)

\* A violation whose stop was taken back by a refusal in its own chunk.
Pardoned(g, i) ==
  \E n \in (i + 1)..Len(g) : g[n].result = "refused" /\ \A m \in (i + 1)..n : ~g[m].fresh

\* Every other violation still stops its worker, which is at l: nothing of a later
\* chunk was handled since, and it does not read again.
Judged(k, l) ==
  \A i \in 1..Len(k.log) :
    k.log[i].result = "violation" =>
      \/ Pardoned(k.log, i)
      \/ /\ \A m \in (i + 1)..Len(k.log) : ~k.log[m].fresh
         /\ k.stop /\ ~k.fresh /\ l \notin {"none", "check", "read"}

LogInv == \A c \in Conns : IsLog(conn[c].log) /\ Judged(conn[c], pc[c])

\* What Judged looks at in a connection.
SameTrail(k, n) == n.log = k.log /\ n.stop = k.stop /\ n.fresh = k.fresh

\* Other fields of a connection may change.
LEMMA TrailKept ==
  ASSUME NEW k, Shaped(k), NEW x
  PROVE  /\ SameTrail(k, [k EXCEPT !.shut = x]) /\ SameTrail(k, [k EXCEPT !.peer = x])
         /\ SameTrail(k, [k EXCEPT !.frames = x])
  BY DEF Shaped, Fields, SameTrail

\* A step of the others leaves what is judged of a connection as it was.
LEMMA OthersKeepTrail ==
  ASSUME TypeInv, CountInv, [Next]_vars, NEW d \in Conns,
         ~Read(d), ~Handle(d), ~Reply(d), ~Leave(d)
  PROVE  /\ SameTrail(conn[d], conn'[d])
         /\ pc'[d] \in {"none", "check", "read"} => pc[d] \in {"none", "check", "read"}
PROOF
<1> DEFINE Early == {"none", "check", "read"}
           Goal == SameTrail(conn[d], conn'[d]) /\ (pc'[d] \in Early => pc[d] \in Early)
<1> USE ConnsApart
<1>1. \A k : SameTrail(k, k)
  BY DEF SameTrail
<1>2. \A c \in Conns : Shaped(conn[c])
  BY DEF TypeInv, ConnInv
<1>3. ASSUME NEW t \in Threads, NEW l, Goto(t, l), t = d => l \notin Early \/ pc[d] \in Early
      PROVE  pc'[d] \in Early => pc[d] \in Early
  BY <1>3 DEF Goto, TypeInv, PlaceInv
<1>4. ASSUME NEW c \in Conns, c # d, NEW k, conn' = [conn EXCEPT ![c] = k]
      PROVE  SameTrail(conn[d], conn'[d])
  BY <1>1, <1>4 DEF TypeInv, ConnInv
<1>5. ASSUME NEW t \in Threads, StopListener(t) \/ CloseListener(t) PROVE Goal
  <2>1. conn' = conn /\ (Goto(t, "close") \/ Goto(t, AfterListener(t)))
    BY <1>5 DEF StopListener, CloseListener
  <2> QED
    BY <1>1, <1>3, <2>1 DEF AfterListener
<1>6. ASSUME NEW t \in {"owner", "runner"}, BeginStop(t) PROVE Goal
  <2>1. conn' = conn /\ \E l : Goto(t, l)
    BY <1>6 DEF BeginStop
  <2> QED
    BY <1>1, <1>3, <2>1
<1>7. ASSUME NEW t \in {"owner", "runner"}, ShutVictims(t) PROVE Goal
  <2>1. Goto(t, AfterBegin(t)) /\ conn'[d] \in {conn[d], [conn[d] EXCEPT !.shut = TRUE]}
    BY <1>7 DEF ShutVictims
  <2>2. SameTrail(conn[d], [conn[d] EXCEPT !.shut = TRUE])
    BY <1>2, TrailKept
  <2> QED
    BY <1>1, <1>3, <2>1, <2>2
<1>8. ASSUME Publish \/ Loop \/ Accept \/ Recheck \/ Ending \/ Drained PROVE Goal
  <2>1. conn' = conn /\ \E l : Goto("runner", l)
    BY <1>8 DEF Publish, Loop, Accept, Recheck, Ending, Drained
  <2> QED
    BY <1>1, <1>3, <2>1
<1>9. ASSUME Stop \/ ReadHub \/ Join PROVE Goal
  <2>1. conn' = conn /\ \E l : Goto("owner", l)
    BY <1>9 DEF Stop, ReadHub, Join
  <2> QED
    BY <1>1, <1>3, <2>1
<1>10. ASSUME Add PROVE Goal
  <2>1. PICK c \in inHand :
          /\ pc' = [pc EXCEPT !["runner"] = "loop", ![c] = "check"]
          /\ conn' = [conn EXCEPT ![c] = [conn[c] EXCEPT !.shut = hub.stopping]]
    BY <1>10 DEF Add
  <2>2. c \in Conns /\ pc[c] = "none"
    BY DEF TypeInv, SharedInv, CountInv
  <2>3. pc'[d] \in Early => pc[d] \in Early
    BY <2>1, <2>2 DEF TypeInv, PlaceInv
  <2>4. SameTrail(conn[d], [conn[d] EXCEPT !.shut = hub.stopping])
    BY <1>2, TrailKept
  <2>5. c = d => conn'[d] = [conn[d] EXCEPT !.shut = hub.stopping]
    BY <2>1, <2>2 DEF TypeInv, ConnInv
  <2>6. c # d => SameTrail(conn[d], conn'[d])
    BY <1>4, <2>1, <2>2
  <2> QED
    BY <2>3, <2>4, <2>5, <2>6
<1>11. ASSUME NEW c \in Conns, CheckStop(c) \/ Shutdown(c) \/ Remove(c) PROVE Goal
  <2>1. conn' = conn /\ \E l : Goto(c, l) /\ (l \notin Early \/ pc[c] \in Early)
    BY <1>11 DEF CheckStop, Shutdown, Remove
  <2> QED
    BY <1>1, <1>3, <2>1
<1>12. ASSUME NEW c \in Conns, c # d, Read(c) \/ Handle(c) \/ Reply(c) \/ Leave(c) PROVE Goal
  <2>1. \E l : Goto(c, l)
    BY <1>12, ServesOn DEF Leave, Serves
  <2>2. conn' = conn \/ \E k : conn' = [conn EXCEPT ![c] = k]
    <3>1. CASE Read(c)
      BY <3>1, Zenon DEF Read
    <3>2. CASE Handle(c)
      BY <3>2, Zenon DEF Handle
    <3>3. CASE Reply(c)
      BY <3>3, Zenon DEF Reply
    <3>4. CASE Leave(c)
      BY <3>4, Zenon DEF Leave
    <3> QED
      BY <1>12, <3>1, <3>2, <3>3, <3>4
  <2> QED
    BY <1>1, <1>3, <1>4, <1>12, <2>1, <2>2
<1>13. ASSUME NEW c \in Conns, Stall(c) \/ Hangup(c) PROVE Goal
  <2>1. pc' = pc
    BY <1>13 DEF Stall, Hangup
  <2>2. PICK x : conn' = [conn EXCEPT ![c] = [conn[c] EXCEPT !.peer = x]]
    BY <1>13 DEF Stall, Hangup
  <2>3. SameTrail(conn[d], [conn[d] EXCEPT !.peer = x])
    BY <1>2, TrailKept
  <2>4. c = d => conn'[d] = [conn[d] EXCEPT !.peer = x]
    BY <2>2 DEF TypeInv, ConnInv
  <2>5. c # d => SameTrail(conn[d], conn'[d])
    BY <1>4, <2>2
  <2> QED
    BY <2>1, <2>3, <2>4, <2>5
<1>14. ASSUME UNCHANGED <<pc, conn>> PROVE Goal
  BY <1>1, <1>14
<1>15. ASSUME NEW c \in Conns, Client(c) PROVE Goal
  BY <1>13, <1>14, <1>15 DEF Client, Connect
<1>16. ASSUME NEW c \in Conns, Worker(c) PROVE Goal
  <2>1. c \in Threads
    OBVIOUS
  <2> HIDE DEF Goal
  <2> QED
    BY <1>5, <1>11, <1>12, <1>16, <2>1, Zenon DEF Worker
<1>17. ASSUME UNCHANGED vars PROVE Goal
  BY <1>14, <1>17 DEF vars
<1> HIDE DEF Goal
<1>18. ASSUME Runner PROVE Goal
  BY <1>5, <1>6, <1>7, <1>8, <1>10, <1>18, Zenon DEF Runner
<1>19. ASSUME Owner PROVE Goal
  BY <1>5, <1>6, <1>7, <1>9, <1>19, Zenon DEF Owner
<1>20. Goal
  BY <1>9, <1>15, <1>16, <1>17, <1>18, <1>19 DEF Next
<1> QED
  BY <1>20 DEF Goal

\* A log with one more entry.
LEMMA LogAppend ==
  ASSUME NEW g, IsLog(g), NEW e
  PROVE  /\ IsLog(Append(g, e)) /\ Len(g) \in Nat /\ Len(Append(g, e)) = Len(g) + 1
         /\ \A i \in 1..Len(g) : Append(g, e)[i] = g[i]
         /\ Append(g, e)[Len(g) + 1] = e
PROOF
<1>1. PICK S : g \in Seq(S)
  BY DEF IsLog
<1> DEFINE T == S \cup {e}
<1>2. g \in Seq(T)
  BY <1>1
<1>3. e \in T
  OBVIOUS
<1> HIDE DEF T
<1>4. Append(g, e) \in Seq(T)
  BY <1>2, <1>3
<1> QED
  BY <1>2, <1>3, <1>4 DEF IsLog

\* The next frame is handled: with a violation the worker stops, with a refusal it
\* does not.
LEMMA JudgedOn ==
  ASSUME NEW k, NEW n, NEW e, IsLog(k.log), n.log = Append(k.log, e), Judged(k, "handle"),
         e.fresh = k.fresh, ~n.fresh,
         n.stop <=> (k.stop \/ e.result = "violation") /\ e.result # "refused"
  PROVE  Judged(n, "reply")
PROOF
<1> DEFINE L == Len(k.log)
           g == n.log
<1>1. /\ L \in Nat /\ Len(g) = L + 1 /\ \A i \in 1..L : g[i] = k.log[i]
      /\ g[L + 1] = e
  BY LogAppend
<1> HIDE DEF g
<1> SUFFICES ASSUME NEW i \in 1..(L + 1), g[i].result = "violation"
             PROVE  \/ Pardoned(g, i)
                    \/ (\A m \in (i + 1)..Len(g) : ~g[m].fresh) /\ n.stop /\ ~n.fresh
  BY <1>1 DEF Judged, g
<1>2. CASE i = L + 1
  <2>1. e.result = "violation" /\ n.stop
    BY <1>1, <1>2
  <2>2. \A m \in (i + 1)..Len(g) : ~g[m].fresh
    BY <1>1, <1>2
  <2> QED
    BY <2>1, <2>2
<1>3. CASE i \in 1..L
  <2>1. k.log[i].result = "violation"
    BY <1>1, <1>3
  <2>2. CASE Pardoned(k.log, i)
    <3>1. PICK p \in (i + 1)..L :
            k.log[p].result = "refused" /\ \A m \in (i + 1)..p : ~k.log[m].fresh
      BY <2>2 DEF Pardoned
    <3>2. p \in (i + 1)..Len(g) /\ g[p].result = "refused"
      BY <1>1, <1>3, <3>1
    <3>3. \A m \in (i + 1)..p : ~g[m].fresh
      BY <1>1, <1>3, <3>1
    <3> QED
      BY <3>2, <3>3 DEF Pardoned
  <2>3. CASE (\A m \in (i + 1)..L : ~k.log[m].fresh) /\ k.stop /\ ~k.fresh
    <3>1. \A m \in (i + 1)..(L + 1) : ~g[m].fresh
      BY <1>1, <1>3, <2>3
    <3>2. CASE e.result = "refused"
      <4>1. L + 1 \in (i + 1)..Len(g) /\ g[L + 1].result = "refused"
        BY <1>1, <1>3, <3>2
      <4> QED
        BY <3>1, <4>1 DEF Pardoned
    <3>3. CASE e.result # "refused"
      BY <1>1, <2>3, <3>1, <3>3
    <3> QED
      BY <3>2, <3>3
  <2> QED
    BY <1>3, <2>1, <2>2, <2>3 DEF Judged
<1> QED
  BY <1>1, <1>2, <1>3

\* What Handle does to the fields that are judged.
LEMMA HandleTrail ==
  ASSUME TypeInv, NEW c \in Conns, Handle(c)
  PROVE  \E e : /\ conn'[c].log = Append(conn[c].log, e) /\ e.fresh = conn[c].fresh
                /\ conn'[c].stop <=> (conn[c].stop \/ e.result = "violation")
                                      /\ e.result # "refused"
                /\ ~conn'[c].fresh
PROOF
<1> DEFINE f == Head(conn[c].frames)
           q == Result(conn[c], f)
           e == [frame |-> f, result |-> q, fresh |-> conn[c].fresh]
           y == (conn[c].stop \/ q = "violation") /\ q # "refused"
           g == Append(conn[c].log, e)
<1>1. PICK l, b :
        conn' = [conn EXCEPT ![c] = [conn[c] EXCEPT !.last = l, !.stop = y, !.bound = b,
                                                    !.fresh = FALSE, !.log = g]]
  BY Zenon DEF Handle
<1>2. Shaped(conn[c]) /\ conn = [d \in Conns |-> conn[d]]
  BY DEF TypeInv, ConnInv
<1>3. e.fresh = conn[c].fresh /\ e.result = q
  OBVIOUS
<1> HIDE DEF q
<1>4. y <=> (conn[c].stop \/ e.result = "violation") /\ e.result # "refused"
  BY <1>3
<1>5. g = Append(conn[c].log, e)
  OBVIOUS
<1> HIDE DEF e, y, g
<1>6. conn'[c].stop = y /\ conn'[c].log = g /\ conn'[c].fresh = FALSE
  BY <1>1, <1>2 DEF Shaped, Fields
<1> QED
  BY <1>3, <1>4, <1>5, <1>6

\* Every step preserves LogInv.
LEMMA LogNext == TypeInv /\ CountInv /\ LogInv /\ [Next]_vars => LogInv'
PROOF
<1> SUFFICES ASSUME TypeInv, CountInv, LogInv, [Next]_vars, NEW c \in Conns
             PROVE  IsLog(conn'[c].log) /\ Judged(conn'[c], pc'[c])
  BY DEF LogInv
<1>1. IsLog(conn[c].log) /\ Judged(conn[c], pc[c])
  BY DEF LogInv
<1>2. Shaped(conn[c]) /\ conn = [d \in Conns |-> conn[d]] /\ pc = [t \in Threads |-> pc[t]]
  BY DEF TypeInv, ConnInv, PlaceInv
<1>3. c \in Threads
  BY ConnsApart
<1>4. CASE Handle(c)
  <2>1. pc[c] = "handle" /\ pc'[c] = "reply"
    BY <1>2, <1>3, <1>4 DEF Handle, Goto
  <2>2. PICK e : /\ conn'[c].log = Append(conn[c].log, e) /\ e.fresh = conn[c].fresh
                 /\ conn'[c].stop <=> (conn[c].stop \/ e.result = "violation")
                                       /\ e.result # "refused"
                 /\ ~conn'[c].fresh
    BY <1>4, HandleTrail
  <2>3. Judged(conn'[c], "reply")
    BY <1>1, <2>1, <2>2, JudgedOn
  <2> QED
    BY <1>1, <2>1, <2>2, <2>3, LogAppend
<1>5. CASE Read(c)
  <2>1. \A i \in 1..Len(conn[c].log) :
          conn[c].log[i].result = "violation" => Pardoned(conn[c].log, i)
    BY <1>1, <1>5 DEF Judged, Read
  <2>2. conn'[c].log = conn[c].log
    <3>1. CASE conn' = conn
      BY <3>1
    <3>2. CASE conn' # conn
      <4>1. PICK n \in 1..Len(conn[c].wire) :
              LET got == Push(conn[c].decoder, SubSeq(conn[c].wire, 1, n))
                  k == [conn[c] EXCEPT !.wire = SubSeq(@, n + 1, Len(@)), !.decoder = got.decoder,
                                       !.frames = IF got.decoder.poisoned THEN <<>> ELSE got.frames,
                                       !.fresh = TRUE, !.stop = FALSE]
              IN  conn' = [conn EXCEPT ![c] = k]
        BY <1>5, <3>2, Zenon DEF Read
      <4>2. PICK w, d, f, x, y :
              conn' = [conn EXCEPT ![c] = [conn[c] EXCEPT !.wire = w, !.decoder = d, !.frames = f,
                                                          !.fresh = x, !.stop = y]]
        BY <4>1, Zenon
      <4> QED
        BY <1>2, <4>2 DEF Shaped, Fields
    <3> QED
      BY <3>1, <3>2
  <2> QED
    BY <1>1, <2>1, <2>2 DEF Judged
<1>6. CASE Reply(c)
  <2>1. PICK f : conn' = [conn EXCEPT ![c] = [conn[c] EXCEPT !.frames = f]]
    BY <1>6 DEF Reply
  <2>2. conn'[c] = [conn[c] EXCEPT !.frames = f] /\ SameTrail(conn[c], conn'[c])
    BY <1>2, <2>1, TrailKept
  <2>3. conn'[c].stop => pc'[c] \in {"handle", "shutdown", "leave"}
    <3>1. \E l : Goto(c, l) /\ (conn'[c].stop => l \in {"handle", "shutdown", "leave"})
      <4> DEFINE k == [conn[c] EXCEPT !.frames = Tail(@)]
      <4>1. conn'[c] = k
        BY <1>2, <1>6 DEF Reply
      <4>2. \/ Goto(c, "shutdown") \/ Goto(c, "handle") \/ Goto(c, AfterBatch(k))
            \/ Goto(c, "leave")
        BY <1>6, Zenon DEF Reply
      <4> HIDE DEF k
      <4> QED
        BY <4>1, <4>2 DEF AfterBatch
    <3> QED
      BY <1>2, <1>3, <3>1 DEF Goto
  <2>4. pc[c] = "reply"
    BY <1>6 DEF Reply
  <2> QED
    BY <1>1, <2>2, <2>3 DEF Judged, SameTrail
<1>7. CASE Leave(c)
  <2>1. conn'[c] = Left
    BY <1>2, <1>7 DEF Leave
  <2>2. conn'[c].log = <<>> /\ <<>> \in Seq({}) /\ Len(<<>>) = 0
    BY <2>1, LeftShaped
  <2> QED
    BY <2>2 DEF IsLog, Judged
<1>8. CASE ~Read(c) /\ ~Handle(c) /\ ~Reply(c) /\ ~Leave(c)
  BY <1>1, <1>8, OthersKeepTrail DEF Judged, SameTrail
<1> QED
  BY <1>4, <1>5, <1>6, <1>7, <1>8

\* ViolationsEndConnections, for any number of connections and any scripts: a worker
\* whose stop_connection was set reads no other chunk, unless the assignment of
\* a later refusal took the stop back.
THEOREM ViolationsEnd == FairSpec => []ViolationsEndConnections
PROOF
<1>1. Init => LogInv
  <2> SUFFICES ASSUME Init, NEW c \in Conns PROVE IsLog(conn[c].log) /\ Judged(conn[c], pc[c])
    BY DEF LogInv
  <2>1. PICK script \in Scripts : conn = [d \in Conns |-> Idle(script[d])]
    BY DEF Init
  <2>2. \A x : Idle(x).log = <<>>
    BY DEF Idle
  <2>3. conn[c].log = <<>> /\ <<>> \in Seq({}) /\ Len(<<>>) = 0
    BY <2>1, <2>2
  <2> QED
    BY <2>3 DEF IsLog, Judged
<1>2. LogInv /\ ServiceInv /\ [Next]_vars => LogInv'
  BY LogNext DEF ServiceInv
<1>3. LogInv => ViolationsEndConnections
  <2> SUFFICES ASSUME LogInv, NEW c \in Conns,
                      NEW i \in DOMAIN conn[c].log, NEW j \in DOMAIN conn[c].log,
                      i < j, conn[c].log[i].result = "violation",
                      NEW p \in (i + 1)..j, conn[c].log[p].fresh
               PROVE  \E n \in (i + 1)..j :
                        /\ conn[c].log[n].result = "refused"
                        /\ \A m \in (i + 1)..n : ~conn[c].log[m].fresh
    BY DEF ViolationsEndConnections
  <2> DEFINE g == conn[c].log
  <2>1. IsLog(g) /\ Judged(conn[c], pc[c])
    BY DEF LogInv
  <2>2. Len(g) \in Nat /\ DOMAIN g = 1..Len(g)
    BY <2>1 DEF IsLog
  <2>3. p \in (i + 1)..Len(g) /\ i \in 1..Len(g) /\ j \in 1..Len(g)
    BY <2>2
  <2>4. Pardoned(g, i)
    BY <2>1, <2>3 DEF Judged
  <2>5. PICK n \in (i + 1)..Len(g) :
          g[n].result = "refused" /\ \A m \in (i + 1)..n : ~g[m].fresh
    BY <2>4 DEF Pardoned
  <2>6. n < p
    BY <2>2, <2>3, <2>5
  <2>7. n \in (i + 1)..j
    BY <2>2, <2>3, <2>5, <2>6
  <2> QED
    BY <2>5, <2>7
<1> QED
  BY <1>1, <1>2, <1>3, Serving, PTL DEF FairSpec

=============================================================================
