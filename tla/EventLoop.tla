----------------------------- MODULE EventLoop -----------------------------
(***************************************************************************)
(* The event threads of io::RegisteredIO.  One completion port delivers    *)
(* three things: the accept event, the world's tasks, and a notification   *)
(* that the RIO queue holds results of sends and receives.  That           *)
(* notification must be asked for again (RIONotify) each time, and the     *)
(* accept event is posted again by its own handler, or by the main loop    *)
(* when posting failed.  What a handler throws is swallowed by the loop.   *)
(***************************************************************************)
EXTENDS Naturals, Sequences, FiniteSets

CONSTANTS
    Threads,        \* event threads
    Requests,       \* RIO requests: one receive or send event each
    MaxResults,     \* max_dequeuing_rio_event_results
    MaxThrows,      \* bounds: exceptions, accepts that cannot be posted
    MaxRefusals

EventLoopAssumption ==
    /\ IsFiniteSet(Threads) /\ IsFiniteSet(Requests)
    /\ MaxResults \in Nat \ {0} /\ MaxThrows \in Nat /\ MaxRefusals \in Nat

VARIABLES
    busy,       \* requests posted and not handled: is_processing
    inflight,   \* those the network has not completed
    cq,         \* results in the RIO completion queue
    armed,      \* RIONotify waits for a result
    iocp,       \* packets in the completion port
    thread,     \* per thread: packets and results it took, and its step
    server,     \* TcpServer::_state
    accepting,  \* accepts posted on the listening socket
    main,       \* the main loop inside start_accept, or not
    task,       \* Task::_state of one world task
    throws,     \* bound: exceptions so far
    refusals,   \* bound: accepts that could not be posted so far
    lost        \* history: what an exception kept from its handler's end

vars == <<busy, inflight, cq, armed, iocp, thread, server, accepting, main, task,
          throws, refusals, lost>>

Packets == {"rio", "accept", "task"}

Waiting == [batch |-> <<>>, results |-> <<>>, at |-> "wait"]

Steps == {"wait", "run", "notify", "results", "accepted", "post"}

TypeOK ==
    /\ busy \in SUBSET Requests /\ inflight \in SUBSET Requests
    /\ cq \in Seq(Requests) /\ armed \in BOOLEAN /\ iocp \in Seq(Packets)
    /\ thread \in [Threads -> [batch : Seq(Packets), results : Seq(Requests), at : Steps]]
    /\ server \in {"running", "stop"} /\ accepting \in Nat /\ main \in {"idle", "post"}
    /\ task \in {"unused", "processing"}
    /\ throws \in Nat /\ refusals \in Nat
    /\ lost \in SUBSET (Requests \cup {"accept", "task"})

(* The constructor asks for the first notification; start_accept of the    *)
(* main thread is about to post the first accept.                          *)
Init ==
    /\ busy = {} /\ inflight = {} /\ cq = <<>> /\ armed = TRUE /\ iocp = <<>>
    /\ thread = [t \in Threads |-> Waiting]
    /\ server = "running" /\ accepting = 0 /\ main = "post"
    /\ task = "unused"
    /\ throws = 0 /\ refusals = 0 /\ lost = {}

threadsOnly == <<busy, inflight, cq, armed, iocp, server, accepting, main, task,
                 throws, refusals, lost>>

Set(x) == {x[i] : i \in DOMAIN x}

(* RIONotify: at once when there are results, when the next one comes      *)
(* otherwise.                                                              *)
NotifyCompletion(results) ==
    IF results = <<>> THEN armed' = TRUE /\ iocp' = iocp
    ELSE armed' = armed /\ iocp' = Append(iocp, "rio")

----------------------------------------------------------------------------
(* The main loop posts sends and receives; the network completes them.     *)
PostRequest(r) ==
    /\ r \notin busy
    /\ busy' = busy \cup {r} /\ inflight' = inflight \cup {r}
    /\ UNCHANGED <<cq, armed, iocp, thread, server, accepting, main, task,
                   throws, refusals, lost>>

Completes(r) ==
    /\ r \in inflight
    /\ inflight' = inflight \ {r}
    /\ cq' = Append(cq, r)
    /\ armed' = FALSE
    /\ iocp' = IF armed THEN Append(iocp, "rio") ELSE iocp
    /\ UNCHANGED <<busy, thread, server, accepting, main, task, throws, refusals, lost>>

(* A client connects. *)
Connects ==
    /\ accepting > 0
    /\ accepting' = accepting - 1
    /\ iocp' = Append(iocp, "accept")
    /\ UNCHANGED <<busy, inflight, cq, armed, thread, server, main, task,
                   throws, refusals, lost>>

(* schedule_task of a task that is ready. *)
ScheduleTask ==
    /\ task = "unused"
    /\ task' = "processing"
    /\ iocp' = Append(iocp, "task")
    /\ UNCHANGED <<busy, inflight, cq, armed, thread, server, accepting, main,
                   throws, refusals, lost>>

(* start_accept: running first, then the post, and stop when it failed.    *)
(* GameServer::tick calls it for a server that is stopped.                 *)
MainRestarts ==
    /\ main = "idle" /\ server = "stop"
    /\ server' = "running" /\ main' = "post"
    /\ UNCHANGED <<busy, inflight, cq, armed, iocp, thread, accepting, task,
                   throws, refusals, lost>>

PostsUnnoticed ==   \* mutant: a failed post leaves the server running
    \/ accepting' = accepting + 1 /\ UNCHANGED <<server, refusals>>
    \/ /\ refusals < MaxRefusals /\ refusals' = refusals + 1
       /\ UNCHANGED <<server, accepting>>

Posts ==
    \/ accepting' = accepting + 1 /\ UNCHANGED <<server, refusals>>
    \/ /\ refusals < MaxRefusals /\ refusals' = refusals + 1
       /\ server' = "stop" /\ accepting' = accepting

MainPosts ==
    /\ main = "post" /\ main' = "idle"
    /\ Posts
    /\ UNCHANGED <<busy, inflight, cq, armed, iocp, thread, task, throws, lost>>

----------------------------------------------------------------------------
(* run_event_loop_forever takes packets and runs their events in order.    *)
Take(t) ==
    /\ thread[t].at = "wait" /\ iocp # <<>>
    /\ \E n \in 1 .. Len(iocp) :
         /\ thread' = [thread EXCEPT ![t] = [@ EXCEPT !.batch = SubSeq(iocp, 1, n), !.at = "run"]]
         /\ iocp' = SubSeq(iocp, n + 1, Len(iocp))
    /\ UNCHANGED <<busy, inflight, cq, armed, server, accepting, main, task,
                   throws, refusals, lost>>

(* The event of the first packet has returned, or its exception has been   *)
(* swallowed.                                                              *)
Done(t) ==
    thread' = [thread EXCEPT ![t] =
        IF Len(@.batch) = 1 THEN Waiting
        ELSE [batch |-> Tail(@.batch), results |-> <<>>, at |-> "run"]]

Runs(t, packet) == thread[t].at = "run" /\ Head(thread[t].batch) = packet

DequeueNotified(t) ==   \* mutant: RIONotify before the results are taken
    LET n == IF Len(cq) < MaxResults THEN Len(cq) ELSE MaxResults
    IN  /\ Runs(t, "rio")
        /\ NotifyCompletion(cq)
        /\ cq' = SubSeq(cq, n + 1, Len(cq))
        /\ IF n = 0 THEN Done(t)
           ELSE thread' = [thread EXCEPT ![t] =
                    [@ EXCEPT !.results = SubSeq(cq, 1, n), !.at = "results"]]
        /\ UNCHANGED <<busy, inflight, server, accepting, main, task,
                       throws, refusals, lost>>

(* RioEvent::on_event_complete: dequeue, ask again, handle.  Without       *)
(* results it returns before it asks.                                      *)
Dequeue(t) ==
    LET n == IF Len(cq) < MaxResults THEN Len(cq) ELSE MaxResults
    IN  /\ Runs(t, "rio")
        /\ cq' = SubSeq(cq, n + 1, Len(cq))
        /\ IF n = 0 THEN Done(t)
           ELSE thread' = [thread EXCEPT ![t] =
                    [@ EXCEPT !.results = SubSeq(cq, 1, n), !.at = "notify"]]
        /\ UNCHANGED <<busy, inflight, armed, iocp, server, accepting, main, task,
                       throws, refusals, lost>>

Notify(t) ==
    /\ thread[t].at = "notify"
    /\ NotifyCompletion(cq)
    /\ thread' = [thread EXCEPT ![t].at = "results"]
    /\ UNCHANGED <<busy, inflight, cq, server, accepting, main, task,
                   throws, refusals, lost>>

HandleResult(t) ==
    LET results == thread[t].results
    IN  /\ thread[t].at = "results"
        /\ busy' = busy \ {Head(results)}
        /\ IF Len(results) = 1 THEN Done(t)
           ELSE thread' = [thread EXCEPT ![t].results = Tail(@)]
        /\ UNCHANGED <<inflight, cq, armed, iocp, server, accepting, main, task,
                       throws, refusals, lost>>

RunTask(t) ==
    /\ Runs(t, "task")
    /\ task' = "unused"
    /\ Done(t)
    /\ UNCHANGED <<busy, inflight, cq, armed, iocp, server, accepting, main,
                   throws, refusals, lost>>

(* TcpServer::handle_io_event of the accept event (its work is that of     *)
(* ConnectionTable), and on_complete, which posts the next one.            *)
HandleAcceptStops(t) ==     \* mutant: a full table stops the server
    /\ Runs(t, "accept")
    /\ server' \in {server, "stop"}
    /\ thread' = [thread EXCEPT ![t].at = "accepted"]
    /\ UNCHANGED <<busy, inflight, cq, armed, iocp, accepting, main, task,
                   throws, refusals, lost>>

HandleAccept(t) ==
    /\ Runs(t, "accept")
    /\ thread' = [thread EXCEPT ![t].at = "accepted"]
    /\ UNCHANGED threadsOnly

StartAccept(t) ==
    /\ thread[t].at = "accepted"
    /\ server' = "running"
    /\ thread' = [thread EXCEPT ![t].at = "post"]
    /\ UNCHANGED <<busy, inflight, cq, armed, iocp, accepting, main, task,
                   throws, refusals, lost>>

PostAccept(t) ==
    /\ thread[t].at = "post"
    /\ Posts
    /\ Done(t)
    /\ UNCHANGED <<busy, inflight, cq, armed, iocp, main, task, throws, lost>>

(* A handler throws: the loop goes on with the next packet.  The results   *)
(* behind the one that threw are gone, the task stays processing, and the  *)
(* accept is not posted again.                                             *)
Throws(t) ==
    /\ throws < MaxThrows /\ throws' = throws + 1
    /\ \/ thread[t].at = "results" /\ lost' = lost \cup Set(thread[t].results)
       \/ Runs(t, "task") /\ lost' = lost \cup {"task"}
       \/ Runs(t, "accept") /\ lost' = lost \cup {"accept"}
    /\ Done(t)
    /\ UNCHANGED <<busy, inflight, cq, armed, iocp, server, accepting, main, task, refusals>>

ThreadStep(t) ==
    \/ Take(t) \/ Dequeue(t) \/ Notify(t) \/ HandleResult(t) \/ RunTask(t)
    \/ HandleAccept(t) \/ StartAccept(t) \/ PostAccept(t)

Next ==
    \/ \E r \in Requests : PostRequest(r) \/ Completes(r)
    \/ Connects \/ ScheduleTask \/ MainRestarts \/ MainPosts
    \/ \E t \in Threads : ThreadStep(t) \/ Throws(t)

Spec == Init /\ [][Next]_vars

(* The threads and the main loop run; the network completes what was       *)
(* posted.  Clients need not connect.                                      *)
FairSpec ==
    /\ Spec
    /\ \A t \in Threads : WF_vars(ThreadStep(t))
    /\ \A r \in Requests : WF_vars(Completes(r))
    /\ WF_vars(MainRestarts) /\ WF_vars(MainPosts)

----------------------------------------------------------------------------
(* Properties.                                                             *)

(* Places the notification can be in: waiting, in the port, or with a      *)
(* thread that has not asked again.                                        *)
Positions(x, p) == {i \in DOMAIN x : x[i] = p}

NotifiedThreads ==
    {t \in Threads : "rio" \in Set(IF thread[t].at = "results" THEN Tail(thread[t].batch)
                                   ELSE thread[t].batch)}

(* There is one notification: it waits only while the queue is empty, and  *)
(* the thread that has it finds results.  A thread that found none would   *)
(* return without asking again, and no send or receive of any connection   *)
(* would ever be handled after it.                                         *)
OneNotification ==
    /\ (IF armed THEN 1 ELSE 0) + Cardinality(Positions(iocp, "rio"))
         + Cardinality(NotifiedThreads) = 1
    /\ armed => cq = <<>>
    /\ \A t \in Threads : Runs(t, "rio") => cq # <<>>

Accepters == {t \in Threads : "accept" \in Set(thread[t].batch)}

(* The single accept event is on its way at most once: the main loop       *)
(* starts an accept only when no thread is about to.                       *)
OneAccept ==
    /\ accepting + Cardinality(Positions(iocp, "accept")) + Cardinality(Accepters)
         + (IF main = "post" THEN 1 ELSE 0) <= 1
    /\ server = "stop" => accepting = 0 /\ main = "idle" /\ "accept" \notin Set(iocp)

(* Whatever was posted is handled, and a stopped server accepts again,     *)
(* unless an exception was thrown in between.                              *)
StuckOnlyByThrow ==
    /\ \A r \in Requests : r \in busy ~> (r \notin busy \/ r \in lost)
    /\ task = "processing" ~> (task = "unused" \/ "task" \in lost)
    /\ []<>("accept" \notin lost =>
              accepting > 0 \/ "accept" \in Set(iocp) \/ Accepters # {})

(* io_service.cpp:309 "Unexcepted exception was caught, but suppressed..." *)
(* An exception of one connection's handler costs no other connection its  *)
(* result.                                                                 *)
ThrowCostsOne == throws = 1 => Cardinality(lost) <= 1

=============================================================================
