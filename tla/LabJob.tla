------------------------------- MODULE LabJob -------------------------------
(***************************************************************************)
(* lab.py's demo and jobs, and the remote workers of bridge_transport.py.  *)
(* Each demo starts its own laboratory server and adapter, runs a job over *)
(* UDP sessions with them, and may send the evidence to a WorkerService    *)
(* that all demos share, for a second observation.  Of the server a demo   *)
(* only sees whether a session is open and its observation accepted        *)
(* (LabServer models the rest).                                            *)
(*                                                                         *)
(* Datagrams are opaque: an exchange is answered, refused, or loses its    *)
(* request or its answer, which the 2 s of Session.exchange do not tell    *)
(* apart.  One job stands for the routes x capabilities x iterations that  *)
(* a demo repeats, since no state is carried from one to the next.         *)
(*                                                                         *)
(* Every process is stopped in the same way: SIGTERM, 2 s, SIGKILL, 2 s,   *)
(* and TimeoutError for one that is still there.  A process is "none" when *)
(* there is none, "up", "term" after SIGTERM or "kill" after SIGKILL; one  *)
(* that was signalled may end at any time, or never.  One that outlives    *)
(* the wait after SIGKILL is left to the kernel and not followed further.  *)
(***************************************************************************)
EXTENDS Naturals, Sequences, FiniteSets

CONSTANTS Demos,   \* demo processes, each with its own lab server
          Remotes, \* the demos given --remote-host
          LIMIT    \* jobs a WorkerService runs at a time: 4 in the code
ASSUME LimitAssumption == LIMIT \in Nat \ {0}

VARIABLES demo,    \* each demo: its job's plan and how far it is
          proc,    \* its daemons and its local worker
          srv,     \* the server's side of each session
          lost,    \* sessions that lost a datagram
          svc,     \* serve: open or closed
          task,    \* WorkerService.handle for each demo's connection
          remote,  \* the worker process of each handler
          cut      \* history: handlers that close() cancelled in worker's finally
jvars == <<demo, proc, srv, lost, svc, task, remote, cut>>
sessions == <<srv, lost>>
service == <<svc, task, remote, cut>>

Sessions == {"local", "native"}
St(do, s) == [do |-> do, s |-> s]

\* Mutant of Plan: only the local record is submitted.
PlanSubmitsOne(far) ==
    <<St("worker", "-"), St("open", "local"), St("request", "local"), St("execute", "-")>>
    \o (IF far THEN <<St("connect", "-"), St("rhello", "-"), St("open", "native"),
                         St("request", "native"), St("rsend", "-"), St("results", "-")>> ELSE <<>>)
    \o <<St("decode", "-"), St("submit", "local")>>
\* run_job, in order: what it awaits and the session it uses.
Plan(far) ==
    <<St("worker", "-"), St("open", "local"), St("request", "local"), St("execute", "-")>>
    \o (IF far THEN <<St("connect", "-"), St("rhello", "-"), St("open", "native"),
                         St("request", "native"), St("rsend", "-"), St("results", "-")>> ELSE <<>>)
    \o <<St("decode", "-"), St("submit", "local")>> \o (IF far THEN <<St("submit", "native")>> ELSE <<>>)

NewDemo == [phase |-> "server", ok |-> TRUE, todo |-> <<>>, made |-> <<>>, closing |-> <<>>, named |-> {}]

JInit == /\ demo = [d \in Demos |-> NewDemo]
         /\ proc = [d \in Demos |-> [x \in {"server", "adapter", "worker"} |-> "none"]]
         /\ srv = [d \in Demos |-> [s \in Sessions |-> "none"]] /\ lost = {}
         /\ svc = "open" /\ task = [d \in Demos |-> "none"] /\ remote = [d \in Demos |-> "none"] /\ cut = {}

-----------------------------------------------------------------------------
(* The context managers                                                    *)

\* The process whose `finally' block a phase is, and where that block leads.
ProcessOf == [worker_exit |-> "worker", adapter_exit |-> "adapter", server_exit |-> "server"]
Outer == [worker_exit |-> "close", adapter_exit |-> "server_exit", server_exit |-> "end"]

\* A block begins by terminating its process, if that still runs.
Terminated(x) == IF x = "up" THEN "term" ELSE x
Entering(q, phase) == IF phase \in DOMAIN ProcessOf THEN [q EXCEPT ![ProcessOf[phase]] = Terminated(@)] ELSE q

\* Demo d goes on as j, from processes q.
Go(d, j, q) == /\ demo' = [demo EXCEPT ![d] = j]
               /\ proc' = [proc EXCEPT ![d] = Entering(q, j.phase)]

\* A daemon boots; or is not even started; or is, and does not say so in 3 s, or dies.
StartDaemon(d, x) ==
    /\ demo[d].phase = x
    /\ \/ /\ x = "server"
          /\ \/ Go(d, [demo[d] EXCEPT !.phase = "adapter"], [proc[d] EXCEPT ![x] = "up"])
             \/ Go(d, [demo[d] EXCEPT !.phase = "end", !.ok = FALSE], proc[d])
             \/ \E s \in {"up", "none"} :
                   Go(d, [demo[d] EXCEPT !.phase = "server_exit", !.ok = FALSE], [proc[d] EXCEPT ![x] = s])
       \/ /\ x = "adapter"
          /\ \/ Go(d, [demo[d] EXCEPT !.phase = "run", !.todo = Plan(d \in Remotes)], [proc[d] EXCEPT ![x] = "up"])
             \/ Go(d, [demo[d] EXCEPT !.phase = "server_exit", !.ok = FALSE], proc[d])
             \/ \E s \in {"up", "none"} :
                   Go(d, [demo[d] EXCEPT !.phase = "adapter_exit", !.ok = FALSE], [proc[d] EXCEPT ![x] = s])
    /\ UNCHANGED <<sessions, service>>

\* The server dies by itself: its exit code makes the demo fail in the end.
ServerDies(d) ==
    /\ demo[d].phase \in {"run", "worker_exit", "close"} /\ proc[d]["server"] = "up"
    /\ Go(d, [demo[d] EXCEPT !.ok = FALSE], [proc[d] EXCEPT !["server"] = "none"])
    /\ UNCHANGED <<sessions, service>>

\* A process that was asked to, or was killed, ends.
Dies(d, x) == /\ proc[d][x] \in {"term", "kill"}
              /\ proc' = [proc EXCEPT ![d][x] = "none"]
              /\ UNCHANGED <<demo, sessions, service>>

\* The block is left, with an error unless all went well.
Forgotten(x) == IF x = "kill" THEN "none" ELSE x
Left(d, fine) == Go(d, [demo[d] EXCEPT !.phase = Outer[@], !.ok = @ /\ fine],
                    [proc[d] EXCEPT ![ProcessOf[demo[d].phase]] = Forgotten(@)])

\* Mutant of ExitContext: the 2 s after SIGTERM are all.
ExitContextAsks(d) ==
    /\ demo[d].phase \in DOMAIN ProcessOf
    /\ \E fine \in {FALSE, proc[d][ProcessOf[demo[d].phase]] = "none"} : Left(d, fine)
    /\ UNCHANGED <<sessions, service>>
\* The rest of the block: after 2 s SIGKILL, after 2 s more TimeoutError, which the
\* outer blocks see as any error; a daemon's logs are drained and its exit code
\* looked at.
ExitContext(d) ==
    /\ demo[d].phase \in DOMAIN ProcessOf
    /\ LET x == ProcessOf[demo[d].phase]
       IN \/ proc[d][x] = "term" /\ proc' = [proc EXCEPT ![d][x] = "kill"] /\ UNCHANGED demo
          \/ proc[d][x] \in {"kill", "none"} /\ \E fine \in {FALSE, proc[d][x] = "none"} : Left(d, fine)
    /\ UNCHANGED <<sessions, service>>

-----------------------------------------------------------------------------
(* A job                                                                   *)

Doing(d, do) == demo[d].phase = "run" /\ Head(demo[d].todo).do = do

\* The job as the next step finds it, or as `finally' does.
Advanced(j) == IF Len(j.todo) > 1 THEN [j EXCEPT !.todo = Tail(@)]
               ELSE [j EXCEPT !.todo = <<>>, !.phase = "close", !.closing = j.made]
Broken(j, q) == [j EXCEPT !.todo = <<>>, !.phase = IF q["worker"] = "up" THEN "worker_exit" ELSE "close",
                          !.closing = j.made, !.ok = FALSE]

\* worker(): the process starts and says hello within 4 s; or it does not start; or
\* it has to be stopped, or is dead already.
StartWorker(d) ==
    /\ Doing(d, "worker")
    /\ \/ Go(d, Advanced(demo[d]), [proc[d] EXCEPT !["worker"] = "up"])
       \/ \E s \in {"none", "up"} :
             LET q == [proc[d] EXCEPT !["worker"] = s] IN Go(d, Broken(demo[d], q), q)
    /\ UNCHANGED <<sessions, service>>

\* execute(): its observation arrives and it exits with 0; or anything else.
Execute(d) ==
    /\ Doing(d, "execute")
    /\ \/ Go(d, Advanced(demo[d]), [proc[d] EXCEPT !["worker"] = "none"])
       \/ \E s \in {"up", "none"} :
             LET q == [proc[d] EXCEPT !["worker"] = s] IN Go(d, Broken(demo[d], q), q)
    /\ UNCHANGED <<sessions, service>>

\* decode_observation of every record, before any is submitted: fields in range and
\* the digest that the seed gives, or an error.
Decode(d) ==
    /\ Doing(d, "decode")
    /\ \/ Go(d, Advanced(demo[d]), proc[d])
       \/ Go(d, Broken(demo[d], proc[d]), proc[d])
    /\ UNCHANGED <<sessions, service>>

\* What the server makes of a datagram of the session.
After(op, x) == CASE op \in {"open", "request"} -> "open"
                  [] op = "submit" -> "accepted"
                  [] op = "bye" -> IF x = "accepted" THEN "done" ELSE "gone"

\* The server is there; an adapter that is not loses what is sent through it.
Up(d) == proc[d]["server"] = "up"

\* Session.exchange: the answer, a refusal, or 2 s without either.
Exchange(d) ==
    /\ demo[d].phase = "run" /\ Head(demo[d].todo).do \in {"open", "request", "submit"}
    /\ LET op == Head(demo[d].todo).do
           s == Head(demo[d].todo).s
           j == [demo[d] EXCEPT !.made = IF op = "open" THEN Append(@, s) ELSE @]
           heard == [srv EXCEPT ![d][s] = After(op, @)]
       IN \/ /\ Up(d) /\ srv' = heard /\ UNCHANGED lost
             /\ Go(d, Advanced([j EXCEPT !.named = IF op = "open" THEN @ \cup {s} ELSE @]), proc[d])
          \/ /\ Up(d) /\ Go(d, Broken(j, proc[d]), proc[d]) /\ UNCHANGED sessions
          \/ /\ Go(d, Broken(j, proc[d]), proc[d])
             /\ lost' = lost \cup {<<d, s>>} /\ srv' \in {srv} \cup (IF Up(d) THEN {heard} ELSE {})
    /\ UNCHANGED service

\* Connect, the worker's hello, the command, the two results: each may fail.
\* A service over its limit closes the connection at once; its worker may not start.
Active(e) == task[e] \in {"hello", "command", "exec", "answered", "stopping", "leaving"}
Remote(d) ==
    /\ \/ /\ Doing(d, "connect") /\ svc = "open" /\ task[d] = "none"
          /\ Go(d, Advanced(demo[d]), proc[d])
          /\ \/ /\ Cardinality({e \in Demos : Active(e)}) < LIMIT
                /\ \/ task' = [task EXCEPT ![d] = "hello"] /\ remote' = [remote EXCEPT ![d] = "up"]
                   \/ task' = [task EXCEPT ![d] = "leaving"] /\ UNCHANGED remote
             \/ /\ Cardinality({e \in Demos : Active(e)}) >= LIMIT
                /\ task' = [task EXCEPT ![d] = "gone"] /\ UNCHANGED remote
       \/ /\ \/ Doing(d, "rhello") /\ task[d] = "command"
             \/ Doing(d, "rsend")
             \/ Doing(d, "results") /\ task[d] \in {"answered", "served"}
          /\ Go(d, Advanced(demo[d]), proc[d]) /\ UNCHANGED <<task, remote>>
       \/ /\ Doing(d, "connect") \/ Doing(d, "rhello") \/ Doing(d, "rsend") \/ Doing(d, "results")
          /\ Go(d, Broken(demo[d], proc[d]), proc[d]) /\ UNCHANGED <<task, remote>>
    /\ UNCHANGED <<sessions, svc, cut>>

\* Mutant of LeftToClose: the first error ends the loop.
LeftToCloseAll(c, failed) == IF failed THEN <<>> ELSE Tail(c)
\* The sessions still to close after the first of c, whatever became of it.
LeftToClose(c, failed) == Tail(c)

\* Session.close, one after the other whatever became of the last: BYE for a
\* session whose id is known.  An old answer may be taken for the RST.
CloseSession(d) ==
    /\ demo[d].phase = "close" /\ demo[d].closing # <<>>
    /\ LET s == Head(demo[d].closing)
           bye == [srv EXCEPT ![d][s] = After("bye", @)]
           next(failed) == [demo[d] EXCEPT !.closing = LeftToClose(@, failed), !.ok = @ /\ ~failed]
       IN \/ s \notin demo[d].named /\ demo' = [demo EXCEPT ![d] = next(FALSE)] /\ UNCHANGED sessions
          \/ /\ s \in demo[d].named /\ Up(d) /\ srv' = bye /\ UNCHANGED lost
             /\ \E failed \in {FALSE, <<d, s>> \in lost} : demo' = [demo EXCEPT ![d] = next(failed)]
          \/ /\ s \in demo[d].named /\ lost' = lost \cup {<<d, s>>}
             /\ srv' \in {srv} \cup (IF Up(d) THEN {bye} ELSE {})
             /\ demo' = [demo EXCEPT ![d] = next(TRUE)]
    /\ UNCHANGED <<proc, service>>

\* The result is reported, or the first error goes up through the daemons.  Nobody
\* is left to use the plan or the sessions, and they are dropped.
JobEnds(d) == /\ demo[d].phase = "close" /\ demo[d].closing = <<>>
              /\ Go(d, [NewDemo EXCEPT !.phase = "adapter_exit", !.ok = demo[d].ok], proc[d])
              /\ srv' = [srv EXCEPT ![d] = [s \in Sessions |-> "none"]] /\ lost' = lost \ ({d} \X Sessions)
              /\ UNCHANGED service

-----------------------------------------------------------------------------
(* WorkerService                                                           *)

\* handle, after the quota: hello, command within 4 s, the worker's two results and
\* its exit.
Handle(d) ==
    /\ \/ task[d] = "hello" /\ task' = [task EXCEPT ![d] = "command"] /\ UNCHANGED remote
       \/ /\ task[d] = "command" /\ demo[d].phase = "run" /\ Head(demo[d].todo).do = "results"
          /\ task' = [task EXCEPT ![d] = "exec"] /\ UNCHANGED remote
       \/ /\ task[d] = "exec" /\ task' = [task EXCEPT ![d] = "answered"]
          /\ remote' = [remote EXCEPT ![d] = "none"]
    /\ UNCHANGED <<demo, proc, sessions, svc, cut>>

\* A worker that fails or is dead, a connection that closes or is silent for 4 s:
\* worker's finally terminates a process that runs, and waits for it.
HandleFails(d) ==
    /\ task[d] \in {"hello", "command", "exec"}
    /\ \/ task' = [task EXCEPT ![d] = "stopping"] /\ remote' = [remote EXCEPT ![d] = "term"]
       \/ task' = [task EXCEPT ![d] = "leaving"] /\ remote' = [remote EXCEPT ![d] = "none"]
    /\ UNCHANGED <<demo, proc, sessions, svc, cut>>

\* After 2 s SIGKILL; after 2 s more TimeoutError, which handle catches.
HandleStops(d) ==
    /\ task[d] = "stopping"
    /\ \/ remote[d] = "term" /\ remote' = [remote EXCEPT ![d] = "kill"] /\ UNCHANGED task
       \/ /\ remote[d] \in {"kill", "none"}
          /\ task' = [task EXCEPT ![d] = "leaving"] /\ remote' = [remote EXCEPT ![d] = Forgotten(@)]
    /\ UNCHANGED <<demo, proc, sessions, svc, cut>>

\* The worker process of a handler ends.
RemoteDies(d) == /\ remote[d] \in {"term", "kill"} /\ remote' = [remote EXCEPT ![d] = "none"]
                 /\ UNCHANGED <<demo, proc, sessions, svc, task, cut>>

\* Mutant of HandleLeaves: a failed job keeps its place.
HandleLeavesAnswered(d) ==
    /\ task[d] = "answered" /\ task' = [task EXCEPT ![d] = "served"]
    /\ UNCHANGED <<demo, proc, sessions, svc, remote, cut>>
\* The writer is closed within a second and the task forgotten.
HandleLeaves(d) ==
    /\ task[d] \in {"answered", "leaving"}
    /\ task' = [task EXCEPT ![d] = IF @ = "answered" THEN "served" ELSE "gone"]
    /\ UNCHANGED <<demo, proc, sessions, svc, remote, cut>>

\* serve: a signal closes the listener (a connection fails from then on, as it may
\* before), then close() cancels every handler there is, wherever it waits: at work it
\* stops its worker first; in worker's finally it gives up the wait, and the process
\* with it; while it closes its writer it is over.
Stop == /\ svc = "open" /\ svc' = "closed"
        /\ task' = [d \in Demos |-> CASE task[d] \in {"hello", "command", "exec"} -> "stopping"
                                      [] task[d] = "stopping" -> "leaving"
                                      [] task[d] = "leaving" -> "gone"
                                      [] OTHER -> task[d]]
        /\ remote' = [d \in Demos |-> Forgotten(Terminated(remote[d]))]
        /\ cut' = {d \in Demos : task[d] = "stopping" /\ remote[d] = "term"}
        /\ UNCHANGED <<demo, proc, sessions>>

-----------------------------------------------------------------------------
DemoStep(d) == \/ \E x \in {"server", "adapter"} : StartDaemon(d, x)
               \/ ExitContext(d) \/ StartWorker(d) \/ Execute(d) \/ Decode(d) \/ Exchange(d) \/ Remote(d)
               \/ CloseSession(d) \/ JobEnds(d)
ServiceStep(d) == Handle(d) \/ HandleFails(d) \/ HandleStops(d) \/ HandleLeaves(d)
JNext == \/ \E d \in Demos : \/ DemoStep(d) \/ ServiceStep(d)
                             \/ ServerDies(d) \/ RemoteDies(d)
                             \/ \E x \in {"server", "adapter", "worker"} : Dies(d, x)
         \/ Stop

\* Every await of a demo and of a handler has a deadline, so that while one of them has
\* anything left to do, one goes on (which is less than that each does, and enough); of
\* the processes they stop nothing is assumed.
JSpec == JInit /\ [][JNext]_jvars
         /\ WF_jvars(\E d \in Demos : DemoStep(d) \/ ServiceStep(d))

-----------------------------------------------------------------------------
\* A process that runs and has not been sent SIGKILL.
Runs(x) == x \in {"up", "term"}

\* No process outlives what it was started for, whichever step fails and however late
\* it heeds a signal: once its context is left, a local worker, a remote one or a
\* daemon has ended or has been killed.  The one way out is close() cancelling a
\* handler in the middle of stopping its worker.
NoStray == \A d \in Demos :
    /\ Runs(proc[d]["worker"]) =>
         \/ demo[d].phase = "worker_exit"
         \/ /\ demo[d].phase = "run"
            /\ Head(demo[d].todo) \in {St("open", "local"), St("request", "local"), St("execute", "-")}
    /\ Runs(remote[d]) => task[d] \in {"hello", "command", "exec", "stopping"} \/ d \in cut
    /\ demo[d].phase \in {"server_exit", "end"} => ~Runs(proc[d]["adapter"])
    /\ demo[d].phase = "end" => ~Runs(proc[d]["server"])

\* The job has done all it does.
JobOver(d) == demo[d].phase = "close" /\ demo[d].closing = <<>>

\* A job is reported accepted only if the server accepted the observation of every
\* session of the job and confirmed the end of it.
AcceptedIsDecided == \A d \in Demos : JobOver(d) /\ demo[d].ok =>
    /\ demo[d].made # <<>>
    /\ \A i \in DOMAIN demo[d].made : srv[d][demo[d].made[i]] = "done"

\* However a job ends, and even if closing its first session fails, no session is
\* left open unless one of its own datagrams was lost (a server that died hears none).
NoLeak == \A d \in Demos, s \in Sessions :
    JobOver(d) /\ srv[d][s] \in {"open", "accepted"} => <<d, s>> \in lost

\* Every demo ends, and so does every job at the service: a place is never kept by
\* a connection that failed.
DemosEnd == <>[](\A d \in Demos : demo[d].phase = "end" /\ ~Active(d))
=============================================================================
