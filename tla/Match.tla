------------------------------- MODULE Match -------------------------------
(***************************************************************************)
(* jugar.py: the launcher of a local match, its server process, its two    *)
(* graphical clients (game.py graphics, game_graphics.py) and the renderer *)
(* each of them drives over pipes.                                         *)
(*                                                                         *)
(* A state of the game is the sequence number of the reply that brought    *)
(* it: 0 is the hello.  The server answers a command with a state or with  *)
(* MATCH_INACTIVE (GameService models why); the renderer is faithful, and  *)
(* shows the states it is given one after the other.                       *)
(*                                                                         *)
(* A process is "up", "term" after SIGTERM, "kill" after SIGKILL (it does  *)
(* nothing more, and is dead sooner, later or never) or "dead".  SIGTERM   *)
(* may reach the launcher at any moment.                                   *)
(***************************************************************************)
EXTENDS Integers, Sequences, FiniteSets

CONSTANTS Clients,    \* the two clients, as a sequence in the order they are started
          MaxSeq      \* commands of a client: 256 in the code
ASSUME MatchAssumption ==
    /\ MaxSeq \in Nat \ {0}
    /\ Clients \in Seq({Clients[n] : n \in DOMAIN Clients}) /\ Clients # <<>>
    /\ \A n \in DOMAIN Clients : Clients[n] # "server"
    /\ \A m, n \in DOMAIN Clients : Clients[m] = Clients[n] => m = n

VARIABLES at,      \* where the launcher is
          i,       \* the child it is busy with
          ok,      \* nothing has gone wrong so far
          cut,     \* history: the child at which its cleaning was cut short, and by what
          dir,     \* the temporary directory with the credentials exists
          proc,    \* the children
          code,    \* how they ended
          g,       \* graphics() in each client
          rend     \* the renderer of each client
lvars == <<at, i, ok, cut, dir>>
cvars == <<g, rend>>
mvars == <<lvars, proc, code, cvars>>

Children == Append(Clients, "server")
Kid(n) == Children[n]
Cs == {Clients[n] : n \in DOMAIN Clients}
Live(p) == proc[p] \in {"up", "term"}

NewClient == [pc |-> "start", seq |-> 0, hist |-> {}, sent |-> {}, good |-> FALSE, alarm |-> FALSE]
Failed == [NewClient EXCEPT !.pc = "finally"]
NewRenderer == [st |-> "none", shown |-> -1, good |-> FALSE]

Whole == [child |-> 0, by |-> "-"]

MInit == /\ at = "setup" /\ i = 1 /\ ok = TRUE /\ cut = Whole /\ dir = FALSE
         /\ proc = [p \in Cs \cup {"server"} |-> "none"] /\ code = [p \in Cs \cup {"server"} |-> "-"]
         /\ g = [c \in Cs |-> NewClient] /\ rend = [c \in Cs |-> NewRenderer]

-----------------------------------------------------------------------------
(* The launcher                                                            *)

Goto(where, n) == at' = where /\ i' = n
Fail(where) == Goto(where, 1) /\ ok' = FALSE

\* The directory is made, and the certificates in it, or openssl fails.
Setup == /\ at = "setup" /\ dir' = TRUE
         /\ \/ Goto("server", 1) /\ UNCHANGED ok
            \/ Fail("leave")
         /\ UNCHANGED <<cut, proc, code, cvars>>

\* match: the server is started outside the try block.
StartServer ==
    /\ at = "server"
    /\ \/ Goto("ready", 1) /\ proc' = [proc EXCEPT !["server"] = "up"] /\ UNCHANGED ok
       \/ Fail("leave") /\ UNCHANGED proc
    /\ UNCHANGED <<cut, dir, code, cvars>>

\* Its first line within 3 s, or SERVER_NOT_READY.
Ready == /\ at = "ready"
         /\ \/ proc["server"] = "up" /\ Goto("spawn", 1) /\ UNCHANGED ok
            \/ Fail("clean")
         /\ UNCHANGED <<cut, dir, proc, code, cvars>>

SpawnClient ==
    /\ at = "spawn"
    /\ \/ /\ proc' = [proc EXCEPT ![Kid(i)] = "up"] /\ UNCHANGED ok
          /\ IF i < Len(Clients) THEN Goto("spawn", i + 1) ELSE Goto("wait", 1)
       \/ Fail("clean") /\ UNCHANGED proc
    /\ UNCHANGED <<cut, dir, code, cvars>>

\* Mutant of WaitClient: the exit code is not looked at.
WaitClientAny ==
    /\ at = "wait"
    /\ \/ /\ proc[Kid(i)] = "dead" /\ UNCHANGED ok
          /\ IF i < Len(Clients) THEN Goto("wait", i + 1) ELSE Goto("clean", 1)
       \/ proc[Kid(i)] # "dead" /\ Fail("clean")
    /\ UNCHANGED <<cut, dir, proc, code, cvars>>
\* One client after the other within seconds + 10: its exit code and its report,
\* which must show the very state that the server gave.
WaitClient ==
    /\ at = "wait"
    /\ \/ /\ proc[Kid(i)] = "dead" /\ code[Kid(i)] = "ok" /\ UNCHANGED ok
          /\ IF i < Len(Clients) THEN Goto("wait", i + 1) ELSE Goto("clean", 1)
       \/ proc[Kid(i)] = "dead" /\ code[Kid(i)] # "ok" /\ Fail("clean")
       \/ proc[Kid(i)] # "dead" /\ Fail("clean")
    /\ UNCHANGED <<cut, dir, proc, code, cvars>>

Cleaned(n) == IF n < Len(Children) THEN Goto("clean", n + 1) ELSE Goto("leave", 1)

\* SIGTERM reaches a child.  A client has no handler yet, and dies; or cancels
\* graphics(); or cuts its finally block short, and leaves the renderer behind.
Asked(p) ==
    IF p \in Cs /\ g[p].pc \in {"start", "finally", "ending"}
    THEN /\ proc' = [proc EXCEPT ![p] = "dead"] /\ code' = [code EXCEPT ![p] = "fail"] /\ UNCHANGED cvars
    ELSE /\ proc' = [proc EXCEPT ![p] = "term"]
         /\ g' = [c \in Cs |-> IF c = p THEN Failed ELSE g[c]]
         /\ UNCHANGED <<code, rend>>

\* Mutant of Clean: a child is asked, and not waited for.
CleanHurried ==
    /\ at = "clean"
    /\ \/ proc[Kid(i)] = "up" /\ Asked(Kid(i)) /\ Cleaned(i)
       \/ proc[Kid(i)] # "up" /\ Cleaned(i) /\ UNCHANGED <<proc, code, cvars>>
    /\ UNCHANGED <<ok, cut, dir>>
\* Mutant of Clean: there is no time limit.
CleanPatient ==
    /\ at = "clean"
    /\ \/ proc[Kid(i)] = "up" /\ Asked(Kid(i)) /\ UNCHANGED <<at, i>>
       \/ proc[Kid(i)] \in {"none", "dead"} /\ Cleaned(i) /\ UNCHANGED <<proc, code, cvars>>
    /\ UNCHANGED <<ok, cut, dir>>
\* finally, clients before server: terminate, 3 s, kill, 2 s, and TimeoutError out of
\* the loop for a child that is still there.
Clean ==
    /\ at = "clean"
    /\ \/ proc[Kid(i)] = "up" /\ Asked(Kid(i)) /\ UNCHANGED <<at, i, ok, cut>>
       \/ proc[Kid(i)] \in {"none", "dead"} /\ Cleaned(i) /\ UNCHANGED <<ok, cut, proc, code, cvars>>
       \/ /\ proc[Kid(i)] = "term" /\ proc' = [proc EXCEPT ![Kid(i)] = "kill"]
          /\ UNCHANGED <<at, i, ok, cut, code, cvars>>
       \/ /\ proc[Kid(i)] = "kill" /\ Fail("leave") /\ cut' = [child |-> i, by |-> "TimeoutError"]
          /\ UNCHANGED <<proc, code, cvars>>
    /\ UNCHANGED dir

\* The directory is removed and the report written.  A child that still runs may be
\* killed with its transport, or not.
Leave == /\ at = "leave" /\ Goto("end", 1) /\ dir' = FALSE
         /\ \E killed \in SUBSET {p \in DOMAIN proc : Live(p)} :
               proc' = [p \in DOMAIN proc |-> IF p \in killed THEN "kill" ELSE proc[p]]
         /\ UNCHANGED <<ok, cut, code, cvars>>

\* SIGTERM: interrupt_setup before the match; task.cancel during it, which also
\* interrupts the cleaning; after it remove_signal_handler has left the default,
\* which ends the process there and then.
Sigterm == /\ \/ at \in {"setup", "server"} /\ Fail("leave") /\ UNCHANGED cut
              \/ at = "clean" /\ Fail("leave") /\ cut' = [child |-> i, by |-> "SIGTERM"]
              \/ at \in {"ready", "spawn", "wait"} /\ Fail("clean") /\ UNCHANGED cut
              \/ at = "leave" /\ Fail("killed") /\ UNCHANGED cut
           /\ UNCHANGED <<dir, proc, code, cvars>>

-----------------------------------------------------------------------------
(* The children                                                            *)

\* The server stops when it is asked, or dies.
ServerEnds == /\ Live("server")
              /\ proc' = [proc EXCEPT !["server"] = "dead"]
              /\ code' = [code EXCEPT !["server"] = IF proc["server"] = "term" THEN "ok" ELSE "fail"]
              /\ UNCHANGED <<lvars, cvars>>

\* A process that was sent SIGKILL is gone.
Dies(p) == /\ \/ /\ proc[p] = "kill" /\ proc' = [proc EXCEPT ![p] = "dead"]
                 /\ code' = [code EXCEPT ![p] = "fail"] /\ UNCHANGED rend
              \/ /\ p \in Cs /\ rend[p].st = "kill"
                 /\ rend' = [rend EXCEPT ![p].st = "dead"] /\ UNCHANGED <<proc, code>>
           /\ UNCHANGED <<lvars, g>>

Step(c, pc) == g' = [g EXCEPT ![c].pc = pc]
Raise(c) == g' = [g EXCEPT ![c] = Failed]
Busy(c, pc) == Live(c) /\ g[c].pc = pc

\* graphical_run installs its handler and connects; then the hello.  The server may
\* refuse the player.
Connect(c) == /\ Busy(c, "start")
              /\ \/ proc["server"] = "up" /\ Step(c, "hello")
                 \/ Raise(c)
              /\ UNCHANGED <<lvars, proc, code, rend>>

Hello(c) == /\ Busy(c, "hello")
            /\ \/ proc["server"] = "up" /\ g' = [g EXCEPT ![c].pc = "spawn", ![c].hist = {0}]
               \/ Raise(c)
            /\ UNCHANGED <<lvars, proc, code, rend>>

\* The renderer is started and given the hello; or is not started, or does not take it.
SpawnRenderer(c) ==
    /\ Busy(c, "spawn")
    /\ \/ g' = [g EXCEPT ![c].pc = "loop", ![c].sent = {0}] /\ rend' = [rend EXCEPT ![c].st = "up"]
       \/ Raise(c) /\ rend' \in {rend, [rend EXCEPT ![c].st = "up"]}
    /\ UNCHANGED <<lvars, proc, code>>

\* command(): the next number of this session, whatever the action.
Command(x) == [x EXCEPT !.pc = "await", !.seq = @ + 1]

\* Every 100 ms: out of the loop once inputs() has seen the pipe closed; else the
\* next command, up to the limit of a session.
Loop(c) == /\ Busy(c, "loop")
           /\ \/ rend[c].st = "dead" /\ Step(c, "exit")
              \/ g[c].seq < MaxSeq /\ g' = [g EXCEPT ![c] = Command(@)]
              \/ g[c].seq = MaxSeq /\ Raise(c)
           /\ UNCHANGED <<lvars, proc, code, rend>>

\* state(): a well-formed state in range, which must be this session's and answer the
\* last command, or the code of MATCH_INACTIVE; any other packet raises.
States(c) == {{g[c].seq}, {}}

\* The reply within 2 s: a state, which is recorded before it is passed on, or
\* MATCH_INACTIVE.  A renderer that is gone gets neither.
Reply(c) ==
    /\ Busy(c, "await")
    /\ \/ /\ proc["server"] = "up"
          /\ \E got \in States(c) :
                g' = [g EXCEPT ![c].pc = IF rend[c].st = "dead" THEN "exit" ELSE "loop",
                               ![c].hist = @ \cup got,
                               ![c].sent = IF rend[c].st = "dead" THEN @ ELSE @ \cup got]
       \/ Raise(c)
    /\ UNCHANGED <<lvars, proc, code, rend>>

\* Mutant of Displayed: the last state received is taken for the one displayed.
DisplayedLast(c) == \A s \in g[c].hist : s <= rend[c].shown
\* The state the renderer says it showed is one that was received.
Displayed(c) == rend[c].shown \in g[c].hist

\* After the loop: the renderer's exit code, its record, and the state it names.
Report(c) == /\ Busy(c, "exit")
             /\ \/ rend[c].good /\ g' = [g EXCEPT ![c] = [Failed EXCEPT !.good = Displayed(c), !.alarm = ~Displayed(c)]]
                \/ ~rend[c].good /\ Raise(c)
             /\ UNCHANGED <<lvars, proc, code, rend>>

\* finally: the renderer is asked to stop if it runs, ...
Finally(c) == /\ Busy(c, "finally") /\ Step(c, "ending")
              /\ rend' = [rend EXCEPT ![c].st = IF @ = "up" THEN "term" ELSE @]
              /\ UNCHANGED <<lvars, proc, code>>

\* ... after 2 s is killed, and after 2 s more TimeoutError takes the place of the
\* result; the exit code is that of main.
Exit(c) == /\ Busy(c, "ending")
           /\ \/ /\ rend[c].st = "term" /\ rend' = [rend EXCEPT ![c].st = "kill"]
                 /\ UNCHANGED <<proc, code>>
              \/ /\ rend[c].st # "term" /\ proc' = [proc EXCEPT ![c] = "dead"] /\ UNCHANGED rend
                 /\ code' = [code EXCEPT ![c] = IF g[c].good /\ rend[c].st # "kill" THEN "ok" ELSE "fail"]
           /\ UNCHANGED <<lvars, g>>

\* The renderer takes the next state from the pipe, ...
Show(c) == /\ rend[c].st = "up"
           /\ \E s \in g[c].sent :
                 /\ s > rend[c].shown /\ \A t \in g[c].sent : t > rend[c].shown => s <= t
                 /\ rend' = [rend EXCEPT ![c].shown = s]
           /\ UNCHANGED <<lvars, proc, code, g>>

\* ... ends with its window or its time, with 0 if it showed anything, fails, or is
\* ended by SIGTERM or by the end of the pipe when its client is gone.
RendererEnds(c) ==
    /\ rend[c].st \in {"up", "term"}
    /\ \/ rend' = [rend EXCEPT ![c] = [NewRenderer EXCEPT !.st = "dead"]]
       \/ /\ rend[c].st = "up" /\ rend[c].shown >= 0 /\ Live(c)
          /\ rend' = [rend EXCEPT ![c].st = "dead", ![c].good = TRUE]
    /\ UNCHANGED <<lvars, proc, code, g>>

-----------------------------------------------------------------------------
Launcher == Setup \/ StartServer \/ Ready \/ SpawnClient \/ WaitClient \/ Clean \/ Leave
Client(c) == \/ Connect(c) \/ Hello(c) \/ SpawnRenderer(c) \/ Loop(c) \/ Reply(c) \/ Report(c)
             \/ Finally(c) \/ Exit(c)
MNext == \/ Launcher \/ Sigterm \/ ServerEnds \/ \E p \in DOMAIN proc : Dies(p)
         \/ \E c \in Cs : Client(c) \/ Show(c) \/ RendererEnds(c)

\* Every await of the launcher and of a client has a deadline; a renderer runs for
\* the seconds it is given.
MSpec == /\ MInit /\ [][MNext]_mvars /\ WF_mvars(Launcher)
         /\ \A c \in Cs : WF_mvars(Client(c)) /\ WF_mvars(RendererEnds(c))

-----------------------------------------------------------------------------
Ended == at \in {"end", "killed"}

\* A faithful renderer is never reported as having shown a state that was not
\* received, however late a reply comes and whatever it exits in the middle of.
NoFalseAlarm == \A c \in Cs : ~g[c].alarm

\* The launcher leaves no child running that it has not sent SIGKILL, unless its
\* cleaning was cut short; then every child before that place is stopped still.  It is
\* cut by a SIGTERM, or at a child that has been killed and does not go.
NoOrphans == Ended => \A n \in DOMAIN Children : Live(Kid(n)) =>
    \/ cut.by = "SIGTERM" /\ n >= cut.child
    \/ cut.by = "TimeoutError" /\ n > cut.child

\* A match reported as passed is one in which both clients ended by themselves,
\* after showing a state of the server's; nothing of it is left but the report.
PassedIsComplete == at = "end" /\ ok =>
    /\ ~dir /\ \A p \in DOMAIN proc : proc[p] = "dead"
    /\ \A c \in Cs : code[c] = "ok" /\ rend[c].good /\ rend[c].shown >= 0

\* The launcher ends, and so do the clients and the renderers, even those that a cut
\* cleaning left behind and those whose client is gone.
MatchIsOver == <>[](Ended /\ \A c \in Cs : ~Live(c) /\ rend[c].st \notin {"up", "term"})
=============================================================================
