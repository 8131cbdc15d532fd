------------------------------ MODULE ToolClient ------------------------------
(***************************************************************************)
(* src/web/agent.js, createToolClient: the console's connection to the     *)
(* tool server, a child process that holds the approval tokens it issued.  *)
(*                                                                         *)
(* Each process that is spawned is another child.  A child answers a       *)
(* request once; what it wrote is read a line at a time, by one handler    *)
(* with one buffer for all children.  Its exit is noticed some time after  *)
(* it has died.  send() has no bound of its own: MaxStops and MaxCrashes   *)
(* bound the children that can be spawned.                                 *)
(***************************************************************************)
EXTENDS Integers, FiniteSets

CONSTANTS
  Calls,        \* tools.call() invocations
  MaxCrashes,   \* bound: children that die by themselves
  MaxStops,     \* bound: tools.stop(), when setup rewrites .mcp.json
  None

ToolClientAssumption ==
  /\ Calls # {} /\ IsFiniteSet(Calls)
  /\ {MaxCrashes, MaxStops} \subseteq Nat
  /\ None \notin Int /\ None \notin Calls /\ Calls \cap Int = {}

Children == 1..(1 + 2 * MaxStops + MaxCrashes)
Promises == 1..(1 + MaxStops)
Ids == 1..(Cardinality(Calls) + 1 + MaxStops)

VARIABLES
  child,    \* the child requests are written to, or None
  process,  \* process[k]: unborn, running, dead (exit not yet noticed) or gone
  torn,     \* children that died in the middle of a line not yet read
  cut,      \* whether buf ends in such a piece of a line
  ready,    \* the promise init() keeps, or None
  promise,  \* promise[n]: none, pending, resolved or rejected
  nextId,
  waiting,  \* waiting[i]: the call or the promise a resolver is kept for, or None
  asked,    \* <<i, k>>: request i is with child k
  written,  \* <<i, k>>: k's answer to i is in its pipe
  call,     \* call[c]: its state, the promise it awaits, whom it asked, who answered
  alive,       \* the console runs
  crashes, stops

vars == <<child, process, torn, cut, ready, promise, nextId, waiting, asked, written, call,
          alive, crashes, stops>>

Idle == [pc |-> "idle", awaits |-> None, to |-> None, by |-> None]

TypeOK ==
  /\ child \in Children \cup {None}
  /\ process \in [Children -> {"unborn", "running", "dead", "gone"}]
  /\ torn \subseteq Children /\ {cut, alive} \subseteq BOOLEAN
  /\ ready \in Promises \cup {None}
  /\ promise \in [Promises -> {"none", "pending", "resolved", "rejected"}]
  /\ nextId \in 1..(Cardinality(Ids) + 1)
  /\ waiting \in [Ids -> Calls \cup Promises \cup {None}]
  /\ asked \subseteq Ids \X Children /\ written \subseteq Ids \X Children
  /\ call \in [Calls -> [pc : {"idle", "awaiting", "sent", "answered", "failed"},
                         awaits : Promises \cup {None},
                         to : Children \cup {None}, by : Children \cup {None}]]

Init ==
  /\ child = None /\ process = [k \in Children |-> "unborn"]
  /\ torn = {} /\ cut = FALSE
  /\ ready = None /\ promise = [n \in Promises |-> "none"]
  /\ nextId = 1 /\ waiting = [i \in Ids |-> None] /\ asked = {} /\ written = {}
  /\ call = [c \in Calls |-> Idle]
  /\ alive = TRUE /\ crashes = 0 /\ stops = 0
-----------------------------------------------------------------------------
(* Faulty variants of definitions below, one per property: each is a bug the
   property has to catch. *)

\* requests are numbered anew for every child
Number_perChild(fresh) == IF fresh THEN 1 ELSE nextId

\* an exit forgets the outstanding requests
ExitNoticed_forgetting(k) ==
  /\ process[k] = "dead"
  /\ process' = [process EXCEPT ![k] = "gone"]
  /\ child' = None
  /\ waiting' = [i \in Ids |-> IF <<i, k>> \in asked THEN None ELSE waiting[i]]
  /\ UNCHANGED <<torn, cut, ready, promise, nextId, asked, written, call, alive, crashes, stops>>
-----------------------------------------------------------------------------
Unborn == {k \in Children : process[k] = "unborn"}
Receiver == IF child = None THEN CHOOSE k \in Unborn : TRUE ELSE child

(* nextId++; fresh: a child was just spawned for this request. *)
Number(fresh) == nextId

(* send(): start() when there is no child, number the request, keep its resolver,
   write it.  Writing to a dead child is EPIPE, for which nobody listens: the
   request is lost, and the console with it. *)
Send(from) ==
  LET i == Number(child = None) IN
  /\ child' = Receiver
  /\ process' = [process EXCEPT ![Receiver] = IF @ = "unborn" THEN "running" ELSE @]
  /\ nextId' = i + 1
  /\ waiting' = [waiting EXCEPT ![i] = from]
  /\ IF process[Receiver] = "dead"
     THEN alive' = FALSE /\ UNCHANGED asked
     ELSE asked' = asked \cup {<<i, Receiver>>} /\ UNCHANGED alive

(* call(name, args) awaits init(), which the first one begins: start a child,
   send `initialize'. *)
Call(c) ==
  /\ alive /\ call[c].pc = "idle"
  /\ call' = [call EXCEPT ![c].pc = "awaiting",
                          ![c].awaits = IF ready = None THEN stops + 1 ELSE ready]
  /\ IF ready # None
     THEN UNCHANGED <<child, process, ready, promise, nextId, waiting, asked, alive>>
     ELSE /\ ready' = stops + 1
          /\ promise' = [promise EXCEPT ![stops + 1] = "pending"]
          /\ Send(stops + 1)
  /\ UNCHANGED <<torn, cut, written, crashes, stops>>

(* ... then sends tools/call. *)
Request(c) ==
  /\ alive /\ call[c].pc = "awaiting" /\ promise[call[c].awaits] = "resolved"
  /\ call' = [call EXCEPT ![c].pc = "sent", ![c].to = Receiver]
  /\ Send(c)
  /\ UNCHANGED <<torn, cut, ready, promise, written, crashes, stops>>

(* A rejected promise rejects every call that awaits it, now and later. *)
Refused(c) ==
  /\ alive /\ call[c].pc = "awaiting" /\ promise[call[c].awaits] = "rejected"
  /\ call' = [call EXCEPT ![c].pc = "failed"]
  /\ UNCHANGED <<child, process, torn, cut, ready, promise, nextId, waiting, asked, written,
                 alive, crashes, stops>>

(* The tool server answers. *)
Answer(i, k) ==
  /\ <<i, k>> \in asked /\ process[k] = "running"
  /\ asked' = asked \ {<<i, k>>} /\ written' = written \cup {<<i, k>>}
  /\ UNCHANGED <<child, process, torn, cut, ready, promise, nextId, waiting, call, alive,
                 crashes, stops>>

(* What follows the initialize answer is written to child, whoever that is by
   now: with none, init() rejects. *)
Resolve(from, k) ==
  IF from \in Promises
  THEN /\ promise' = [promise EXCEPT ![from] = IF child = None THEN "rejected" ELSE "resolved"]
       /\ UNCHANGED call
  ELSE call' = [call EXCEPT ![from].pc = "answered", ![from].by = k] /\ UNCHANGED promise

(* stdout 'data', a whole line.  The line after a piece of one does not parse and
   is dropped; a line without a resolver is ignored. *)
Read(i, k) ==
  /\ alive /\ <<i, k>> \in written
  /\ written' = written \ {<<i, k>>}
  /\ cut' = FALSE
  /\ IF cut \/ waiting[i] = None
     THEN UNCHANGED <<promise, waiting, call>>
     ELSE waiting' = [waiting EXCEPT ![i] = None] /\ Resolve(waiting[i], k)
  /\ UNCHANGED <<child, process, torn, ready, nextId, asked, alive, crashes, stops>>

(* stdout 'data', the piece a dead child left; whole lines come before it. *)
ReadPiece(k) ==
  /\ alive /\ k \in torn /\ \A i \in Ids : <<i, k>> \notin written
  /\ torn' = torn \ {k} /\ cut' = TRUE
  /\ UNCHANGED <<child, process, ready, promise, nextId, waiting, asked, written, call, alive,
                 crashes, stops>>

(* 120 seconds without an answer. *)
TimeOut(i) ==
  /\ alive /\ waiting[i] # None
  /\ waiting' = [waiting EXCEPT ![i] = None]
  /\ IF waiting[i] \in Promises
     THEN promise' = [promise EXCEPT ![waiting[i]] = "rejected"] /\ UNCHANGED call
     ELSE call' = [call EXCEPT ![waiting[i]].pc = "failed"] /\ UNCHANGED promise
  /\ UNCHANGED <<child, process, torn, cut, ready, nextId, asked, written, alive, crashes, stops>>

(* The child dies, maybe in the middle of a line. *)
Crash(k) ==
  /\ process[k] = "running" /\ crashes < MaxCrashes
  /\ crashes' = crashes + 1
  /\ process' = [process EXCEPT ![k] = "dead"]
  /\ torn' \in {torn, torn \cup {k}}
  /\ UNCHANGED <<child, cut, ready, promise, nextId, waiting, asked, written, call, alive, stops>>

(* stop(), called by writeToolConfig: only when there is a child. *)
Stop ==
  /\ alive /\ child # None /\ stops < MaxStops
  /\ stops' = stops + 1
  /\ process' = [process EXCEPT ![child] = IF @ = "running" THEN "dead" ELSE @]
  /\ child' = None /\ ready' = None
  /\ UNCHANGED <<torn, cut, promise, nextId, waiting, asked, written, call, alive, crashes>>

(* child.on('exit', () => { child = null; }), whichever child that is. *)
ExitNoticed(k) ==
  /\ alive /\ process[k] = "dead"
  /\ process' = [process EXCEPT ![k] = "gone"]
  /\ child' = None
  /\ UNCHANGED <<torn, cut, ready, promise, nextId, waiting, asked, written, call, alive,
                 crashes, stops>>

Next ==
  \/ Stop
  \/ \E c \in Calls : Call(c) \/ Request(c) \/ Refused(c)
  \/ \E i \in Ids : TimeOut(i)
  \/ \E i \in Ids, k \in Children : Answer(i, k) \/ Read(i, k)
  \/ \E k \in Children : Crash(k) \/ ReadPiece(k) \/ ExitNoticed(k)

(* Timers fire and what is ready runs.  The tool server need not answer, and its
   death need not be noticed. *)
Spec == Init /\ [][Next]_vars
             /\ \A c \in Calls : WF_vars(Request(c)) /\ WF_vars(Refused(c))
             /\ \A i \in Ids : WF_vars(TimeOut(i))
-----------------------------------------------------------------------------
(* An answer resolves only the request that was written to the child it comes
   from: ids, resolvers and the buffer are shared by all children, and a killed
   child's answers may still be read. *)
AnswerIsOwn == \A c \in Calls : call[c].pc = "answered" => call[c].by = call[c].to

(* Every call is answered or fails, whatever dies or is stopped meanwhile: nobody
   tells the callers of a child that it has exited, so each rests on its own
   timer.  (Unless the console itself is gone.  A call is made once, so that the
   unsettled ones come to an end together if and only if each of them does.) *)
Unsettled == {c \in Calls : call[c].pc \in {"awaiting", "sent"}}
EveryCallSettles == Unsettled # {} ~> (Unsettled = {} \/ ~alive)
=============================================================================
