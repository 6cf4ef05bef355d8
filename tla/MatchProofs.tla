---------------------------- MODULE MatchProofs ----------------------------
(***************************************************************************)
(* The launcher of a local match for any number of clients and commands.   *)
(***************************************************************************)
EXTENDS Match, TLAPS

(* The inductive invariant *)

Procs == Cs \cup {"server"}
NC == Len(Clients)
Places == {"setup", "server", "ready", "spawn", "wait", "clean", "leave", "end", "killed"}
Pcs == {"start", "hello", "spawn", "loop", "await", "exit", "finally", "ending"}
ProcStates == {"none", "up", "term", "kill", "dead"}
ClientType == [pc : Pcs, seq : Nat, hist : SUBSET Nat, sent : SUBSET Nat,
               good : BOOLEAN, alarm : BOOLEAN]
RendererType == [st : ProcStates, shown : Nat \cup {-1}, good : BOOLEAN]

MTypeOK == /\ at \in Places /\ i \in 1..(NC + 1) /\ ok \in BOOLEAN /\ dir \in BOOLEAN
           /\ proc \in [Procs -> ProcStates]
           /\ code \in [Procs -> {"-", "ok", "fail"}]
           /\ g \in [Cs -> ClientType] /\ rend \in [Cs -> RendererType]
           /\ cut \in [child : Nat, by : {"-", "SIGTERM", "TimeoutError"}]

\* What a renderer has shown it was given, and what it was given was recorded; it
\* has not been started before its client says so.
Sound(x, y, k, p) ==
  /\ ~x.alarm
  /\ x.sent \subseteq x.hist
  /\ x.pc \in {"start", "hello", "spawn"} => y = NewRenderer /\ x.sent = {}
  /\ x.pc = "spawn" => 0 \in x.hist
  /\ x.pc \in {"loop", "await", "exit"} => y.shown \in x.sent \cup {-1}
  /\ y.good => y.st = "dead" /\ y.shown >= 0
  /\ x.good => y.good
  /\ k = "ok" => p = "dead" /\ y.good
Rendered == \A c \in Cs : Sound(g[c], rend[c], code[c], proc[c])

\* How far the launcher is, and the children it has and has had.
Launched ==
  /\ at \in {"setup", "server"} => \A p \in Procs : proc[p] = "none"
  /\ at \in {"ready", "spawn", "wait", "clean"} => proc["server"] # "none"
  /\ at \in {"spawn", "wait"} => i <= NC
  /\ at = "ready" => \A n \in 1..NC : proc[Clients[n]] = "none"
  /\ at = "spawn" => \A n \in 1..NC : n >= i => proc[Clients[n]] = "none"
  /\ at = "wait" => \A n \in 1..NC : n < i => code[Clients[n]] = "ok"

\* What is left to clean, and what nobody will clean: the children from the place on
\* where the cleaning was cut, and of them not the one that was killed in vain.
Gone(p) == proc[p] \in {"none", "dead"}
Spared(n) == /\ cut.by # "-" /\ n >= cut.child
             /\ cut.by = "TimeoutError" /\ n = cut.child => ~Live(Kid(n))
Reaped ==
  /\ at = "clean" => \A n \in 1..(NC + 1) : n < i => Gone(Kid(n))
  /\ at \in {"leave", "end", "killed"} => \A n \in 1..(NC + 1) : Gone(Kid(n)) \/ Spared(n)

\* Nothing has gone wrong: the cleaning is whole, and every client waited for.
Passing ==
  /\ ok => cut.by = "-"
  /\ ok /\ at \in {"clean", "leave", "end"} =>
       proc["server"] # "none" /\ \A c \in Cs : code[c] = "ok"
  /\ at = "killed" => ~ok
  /\ at = "end" => ~dir

MInv == MTypeOK /\ Rendered /\ Launched /\ Reaped /\ Passing

-----------------------------------------------------------------------------
(* The children                                                            *)

LEMMA Kids ==
  /\ NC \in Nat /\ NC >= 1 /\ Len(Children) = NC + 1
  /\ "server" \notin Cs /\ Kid(NC + 1) = "server"
  /\ \A n \in 1..NC : Kid(n) = Clients[n] /\ Clients[n] \in Cs
  /\ \A n \in 1..(NC + 1) : Kid(n) \in Procs
  /\ \A p \in Procs : \E n \in 1..(NC + 1) : Kid(n) = p
  /\ \A c \in Cs : \E n \in 1..NC : Clients[n] = c
  /\ \A m, n \in 1..NC : Clients[m] = Clients[n] => m = n
<1> DEFINE S == Cs \cup {"server"}
<1>1. /\ Clients \in Seq(Cs) /\ Clients # <<>> /\ DOMAIN Clients = 1..Len(Clients)
      /\ Len(Clients) \in Nat
  BY MatchAssumption DEF Cs
<1>2. Clients \in Seq(S) /\ "server" \in S
  BY <1>1
<1>3. /\ Len(Children) = NC + 1 /\ Children[NC + 1] = "server"
      /\ \A n \in 1..NC : Children[n] = Clients[n]
  BY <1>2 DEF Children, NC
<1>4. NC \in Nat /\ NC >= 1
  BY <1>1 DEF NC
<1>5. /\ \A n \in 1..NC : Clients[n] \in Cs
      /\ \A c \in Cs : \E n \in 1..NC : Clients[n] = c
  BY <1>1 DEF Cs, NC
<1>6. "server" \notin Cs /\ \A m, n \in 1..NC : Clients[m] = Clients[n] => m = n
  BY <1>1, MatchAssumption DEF Cs, NC
<1>7. \A n \in 1..(NC + 1) : n \in 1..NC \/ n = NC + 1
  BY <1>4
<1>8. (NC + 1) \in 1..(NC + 1) /\ \A n \in 1..NC : n \in 1..(NC + 1)
  BY <1>4
<1> QED
  BY <1>3, <1>4, <1>5, <1>6, <1>7, <1>8 DEF Kid, Procs

LEMMA First == 1 \in 1..NC /\ 1 \in 1..(NC + 1)
BY Kids

\* A child is nearer its end than it was.
Onward(p) == \/ proc'[p] = proc[p]
             \/ Live(p) /\ proc'[p] \in {"term", "kill", "dead"}
             \/ proc[p] = "kill" /\ proc'[p] = "dead"

\* Children that die or are asked to do not disturb the launcher's account of them.
LEMMA Elsewhere ==
  ASSUME MInv, UNCHANGED lvars,
         \A p \in Procs : Onward(p),
         \A c \in Cs : code[c] = "ok" => code'[c] = "ok"
  PROVE  Launched' /\ Reaped' /\ Passing'
<1>1. at' = at /\ i' = i /\ ok' = ok /\ cut' = cut /\ dir' = dir
  BY DEF lvars
<1>2. /\ \A p \in Procs : proc[p] # "none" => proc'[p] # "none"
      /\ \A p \in Procs : proc[p] = "none" => proc'[p] = "none"
      /\ \A p \in Procs : (~Live(p) => ~Live(p)') /\ (Gone(p) => Gone(p)')
      /\ "server" \in Procs /\ Cs \subseteq Procs
  BY DEF Live, Gone, Onward, Procs
<1>3. Launched'
  BY <1>1, <1>2, Kids DEF MInv, Launched
<1>4. Reaped'
  <2>1. \A n \in 1..(NC + 1) : Spared(n) => Spared(n)'
    BY <1>1, <1>2, Kids DEF Spared, Kid
  <2>2. \A n \in 1..(NC + 1) : Gone(Kid(n)) => Gone(Kid(n))'
    BY <1>2, Kids DEF Kid
  <2> QED
    BY <1>1, <2>1, <2>2 DEF MInv, Reaped
<1>5. Passing'
  BY <1>1, <1>2 DEF MInv, Passing
<1> QED
  BY <1>3, <1>4, <1>5

\* A client or its renderer takes a step.
LEMMA ClientStep ==
  ASSUME MInv, UNCHANGED lvars, NEW c \in Cs, NEW x \in ClientType, NEW y \in RendererType,
         g' = [g EXCEPT ![c] = x], rend' = [rend EXCEPT ![c] = y],
         \/ UNCHANGED <<proc, code>> /\ Sound(x, y, code[c], proc[c])
         \/ \E k \in {"ok", "fail"} :
              /\ Live(c) /\ Sound(x, y, k, "dead")
              /\ proc' = [proc EXCEPT ![c] = "dead"] /\ code' = [code EXCEPT ![c] = k]
  PROVE  MInv'
<1>1. /\ g \in [Cs -> ClientType] /\ rend \in [Cs -> RendererType] /\ c \in Procs
      /\ proc \in [Procs -> ProcStates]
      /\ code \in [Procs -> {"-", "ok", "fail"}] /\ Cs \subseteq Procs
  BY DEF MInv, MTypeOK, Procs
<1>2. at' = at /\ i' = i /\ ok' = ok /\ cut' = cut /\ dir' = dir
  BY DEF lvars
<1>3. Sound(g[c], rend[c], code[c], proc[c])
  BY DEF MInv, Rendered
<1>4. /\ \A p \in Procs : Onward(p)
      /\ \A d \in Cs : code[d] = "ok" => code'[d] = "ok"
      /\ \A d \in Cs \ {c} : proc'[d] = proc[d] /\ code'[d] = code[d]
      /\ Sound(x, y, code'[c], proc'[c])
      /\ proc' \in [Procs -> ProcStates]
      /\ code' \in [Procs -> {"-", "ok", "fail"}]
  <2>1. CASE UNCHANGED <<proc, code>> /\ Sound(x, y, code[c], proc[c])
    BY <1>1, <2>1 DEF Onward
  <2>2. CASE ~(UNCHANGED <<proc, code>> /\ Sound(x, y, code[c], proc[c]))
    <3> PICK k \in {"ok", "fail"} :
              /\ Live(c) /\ Sound(x, y, k, "dead")
              /\ proc' = [proc EXCEPT ![c] = "dead"] /\ code' = [code EXCEPT ![c] = k]
      BY <2>2
    <3>1. code[c] # "ok"
      BY <1>3 DEF Sound, Live
    <3> QED
      BY <1>1, <3>1 DEF Onward, ProcStates
  <2> QED
    BY <2>1, <2>2
<1>5. Launched' /\ Reaped' /\ Passing'
  BY <1>4, Elsewhere
<1>6. Rendered'
  <2> SUFFICES ASSUME NEW d \in Cs PROVE Sound(g'[d], rend'[d], code'[d], proc'[d])
    BY DEF Rendered
  <2>1. CASE d = c
    BY <1>1, <1>4, <2>1
  <2>2. CASE d # c
    <3>1. g'[d] = g[d] /\ rend'[d] = rend[d] /\ code'[d] = code[d] /\ proc'[d] = proc[d]
      BY <1>1, <1>4, <2>2
    <3> QED
      BY <3>1 DEF MInv, Rendered
  <2> QED
    BY <2>1, <2>2
<1>7. MTypeOK'
  BY <1>1, <1>2, <1>4 DEF MInv, MTypeOK
<1> QED
  BY <1>5, <1>6, <1>7 DEF MInv

\* An exception in graphics() leads to its finally block.
LEMMA RaiseKeeps ==
  ASSUME MInv, NEW c \in Cs, Raise(c), UNCHANGED <<lvars, proc, code, rend>> PROVE MInv'
<1>1. Failed \in ClientType
  BY DEF Failed, NewClient, ClientType, Pcs
<1>2. rend[c] \in RendererType /\ rend' = [rend EXCEPT ![c] = rend[c]]
  BY DEF MInv, MTypeOK
<1>3. Sound(g[c], rend[c], code[c], proc[c])
  BY DEF MInv, Rendered
<1>4. Sound(Failed, rend[c], code[c], proc[c])
  BY <1>3 DEF Sound, Failed, NewClient
<1> QED
  BY <1>1, <1>2, <1>4, ClientStep DEF Raise

\* A child that is killed, or that a signal kills, leaves with an exit code of failure.
LEMMA Ends ==
  ASSUME MInv, NEW p \in Procs, proc[p] \in {"up", "term", "kill"},
         proc' = [proc EXCEPT ![p] = "dead"], code' = [code EXCEPT ![p] = "fail"],
         UNCHANGED <<lvars, cvars>>
  PROVE  MInv'
<1>1. /\ proc \in [Procs -> ProcStates] /\ code \in [Procs -> {"-", "ok", "fail"}]
      /\ Cs \subseteq Procs /\ \A c \in Cs : Sound(g[c], rend[c], code[c], proc[c])
      /\ g' = g /\ rend' = rend
  BY DEF MInv, MTypeOK, Procs, Rendered, cvars
<1>2. \A c \in Cs : Sound(g[c], rend[c], code'[c], proc'[c])
  <2> SUFFICES ASSUME NEW c \in Cs PROVE Sound(g[c], rend[c], code'[c], proc'[c])
    OBVIOUS
  <2>1. CASE c = p
    BY <1>1, <2>1 DEF Sound
  <2>2. CASE c # p
    <3>1. code'[c] = code[c] /\ proc'[c] = proc[c]
      BY <1>1, <2>2
    <3> QED
      BY <1>1, <3>1
  <2> QED
    BY <2>1, <2>2
<1>3. \A c \in Cs : code[c] = "ok" => code'[c] = "ok"
  <2>1. \A c \in Cs : code[c] = "ok" => proc[c] = "dead"
    BY <1>1 DEF Sound
  <2> QED
    BY <1>1, <2>1
<1>4. \A q \in Procs : Onward(q)
  BY <1>1 DEF Onward, Live
<1>5. Launched' /\ Reaped' /\ Passing'
  BY <1>3, <1>4, Elsewhere
<1>6. MTypeOK'
  BY <1>1 DEF MInv, MTypeOK, lvars, ProcStates
<1> QED
  BY <1>1, <1>2, <1>5, <1>6 DEF MInv, Rendered

LEMMA ClientKeeps ==
  ASSUME MInv, NEW c \in Cs, Client(c) \/ Show(c) \/ RendererEnds(c) PROVE MInv'
<1> PICK x \in ClientType : x = g[c]
  BY DEF MInv, MTypeOK
<1> PICK y \in RendererType : y = rend[c]
  BY DEF MInv, MTypeOK
<1>1. /\ Sound(x, y, code[c], proc[c]) /\ g \in [Cs -> ClientType]
      /\ rend \in [Cs -> RendererType]
  BY DEF MInv, MTypeOK, Rendered
<1>2. /\ x.pc \in Pcs /\ x.seq \in Nat /\ x.hist \subseteq Nat /\ x.sent \subseteq Nat
      /\ x.good \in BOOLEAN /\ x.alarm \in BOOLEAN
      /\ y.st \in ProcStates /\ y.shown \in Nat \cup {-1}
      /\ y.good \in BOOLEAN
  BY DEF ClientType, RendererType
<1>3. g = [g EXCEPT ![c] = x] /\ rend = [rend EXCEPT ![c] = y]
  BY <1>1
<1>4. CASE Connect(c)
  <2>1. CASE Raise(c)
    BY <1>4, <2>1, RaiseKeeps DEF Connect
  <2>2. CASE Step(c, "hello")
    <3> DEFINE z == [x EXCEPT !.pc = "hello"]
    <3>1. g' = [g EXCEPT ![c] = z] /\ z \in ClientType /\ rend' = [rend EXCEPT ![c] = y]
      BY <1>3, <1>4, <2>2 DEF Connect, Step, ClientType, Pcs
    <3>2. Sound(z, y, code[c], proc[c])
      BY <1>1, <1>2, <1>4 DEF Connect, Busy, Sound
    <3> QED
      BY <1>4, <3>1, <3>2, ClientStep DEF Connect
  <2> QED
    BY <1>4, <2>1, <2>2 DEF Connect
<1>5. CASE Hello(c)
  <2>1. CASE Raise(c)
    BY <1>5, <2>1, RaiseKeeps DEF Hello
  <2>2. CASE g' = [g EXCEPT ![c].pc = "spawn", ![c].hist = {0}]
    <3> DEFINE z == [x EXCEPT !.pc = "spawn", !.hist = {0}]
    <3>1. g' = [g EXCEPT ![c] = z] /\ rend' = [rend EXCEPT ![c] = y]
      BY <1>1, <1>3, <1>5, <2>2 DEF Hello
    <3>2. /\ z \in ClientType /\ z.pc = "spawn" /\ z.hist = {0} /\ z.sent = x.sent
          /\ z.good = x.good /\ z.alarm = x.alarm /\ x.pc = "hello"
      <4>1. {0} \in SUBSET Nat
        OBVIOUS
      <4> QED
        BY <1>5, <4>1 DEF Hello, Busy, ClientType, Pcs
    <3>3. Sound(z, y, code[c], proc[c])
      <4> HIDE DEF z
      <4> QED
        BY <1>1, <1>2, <3>2 DEF Sound
    <3> QED
      BY <1>5, <3>1, <3>2, <3>3, ClientStep DEF Hello
  <2> QED
    BY <1>5, <2>1, <2>2 DEF Hello
<1>6. CASE SpawnRenderer(c)
  <2> DEFINE z == [x EXCEPT !.pc = "loop", !.sent = {0}]
             w == [y EXCEPT !.st = "up"]
  <2>0. /\ z \in ClientType /\ z.pc = "loop" /\ z.sent = {0} /\ z.hist = x.hist
        /\ z.good = x.good /\ z.alarm = x.alarm /\ x.pc = "spawn"
        /\ w \in RendererType /\ w.st = "up" /\ w.shown = y.shown /\ w.good = y.good
    <3>1. {0} \in SUBSET Nat
      OBVIOUS
    <3> QED
      BY <1>6, <3>1 DEF SpawnRenderer, Busy, ClientType, RendererType, Pcs, ProcStates
  <2>1. UNCHANGED <<lvars, proc, code>>
    BY <1>6 DEF SpawnRenderer
  <2>2. y.shown = -1 /\ y.good = FALSE
    BY <1>1, <2>0 DEF Sound, NewRenderer
  <2>3. /\ Failed \in ClientType /\ Failed.pc = "finally" /\ Failed.sent = {}
        /\ Failed.hist = {} /\ Failed.good = FALSE /\ Failed.alarm = FALSE
    BY DEF Failed, NewClient, ClientType, Pcs
  <2>4. CASE Raise(c) /\ rend' = rend
    BY <2>1, <2>4, RaiseKeeps
  <2>5. CASE g' = [g EXCEPT ![c].pc = "loop", ![c].sent = {0}] /\ rend' = [rend EXCEPT ![c].st = "up"]
    <3>1. g' = [g EXCEPT ![c] = z] /\ rend' = [rend EXCEPT ![c] = w]
      BY <1>1, <2>5
    <3> HIDE DEF z, w
    <3>2. Sound(z, w, code[c], proc[c])
      BY <1>1, <1>2, <2>0, <2>2 DEF Sound
    <3> QED
      BY <2>0, <2>1, <3>1, <3>2, ClientStep
  <2>6. CASE Raise(c) /\ rend' = [rend EXCEPT ![c].st = "up"]
    <3>1. g' = [g EXCEPT ![c] = Failed] /\ rend' = [rend EXCEPT ![c] = w]
      BY <1>1, <2>6 DEF Raise
    <3> HIDE DEF z, w
    <3>2. Sound(Failed, w, code[c], proc[c])
      BY <1>1, <1>2, <2>0, <2>2, <2>3 DEF Sound
    <3> QED
      BY <2>0, <2>1, <2>3, <3>1, <3>2, ClientStep
  <2> QED
    BY <1>6, <2>4, <2>5, <2>6 DEF SpawnRenderer
<1>7. CASE Loop(c)
  <2>1. CASE Raise(c)
    BY <1>7, <2>1, RaiseKeeps DEF Loop
  <2>2. CASE Step(c, "exit")
    <3> DEFINE z == [x EXCEPT !.pc = "exit"]
    <3>1. g' = [g EXCEPT ![c] = z] /\ z \in ClientType /\ rend' = [rend EXCEPT ![c] = y]
      BY <1>3, <1>7, <2>2 DEF Loop, Step, ClientType, Pcs
    <3>2. Sound(z, y, code[c], proc[c])
      BY <1>1, <1>2, <1>7 DEF Loop, Busy, Sound
    <3> QED
      BY <1>7, <3>1, <3>2, ClientStep DEF Loop
  <2>3. CASE g' = [g EXCEPT ![c] = Command(@)]
    <3> DEFINE z == [x EXCEPT !.pc = "await", !.seq = @ + 1]
    <3>1. g' = [g EXCEPT ![c] = z] /\ z \in ClientType /\ rend' = [rend EXCEPT ![c] = y]
      <4>1. g' = [g EXCEPT ![c] = z] /\ rend' = [rend EXCEPT ![c] = y]
        BY <1>1, <1>3, <1>7, <2>3 DEF Loop, Command
      <4>2. x.seq + 1 \in Nat
        BY <1>2
      <4>3. z \in ClientType
        BY <4>2 DEF ClientType, Pcs
      <4> QED
        BY <4>1, <4>3
    <3>2. Sound(z, y, code[c], proc[c])
      BY <1>1, <1>2, <1>7 DEF Loop, Busy, Sound
    <3> QED
      BY <1>7, <3>1, <3>2, ClientStep DEF Loop
  <2> QED
    BY <1>7, <2>1, <2>2, <2>3 DEF Loop
<1>8. CASE Reply(c)
  <2>1. CASE Raise(c)
    BY <1>8, <2>1, RaiseKeeps DEF Reply
  <2>2. CASE ~Raise(c)
    <3> PICK got \in States(c) :
          g' = [g EXCEPT ![c].pc = IF rend[c].st = "dead" THEN "exit" ELSE "loop",
                         ![c].hist = @ \cup got,
                         ![c].sent = IF rend[c].st = "dead" THEN @ ELSE @ \cup got]
      BY <1>8, <2>2 DEF Reply
    <3> DEFINE z == [x EXCEPT !.pc = IF y.st = "dead" THEN "exit" ELSE "loop",
                              !.hist = @ \cup got,
                              !.sent = IF y.st = "dead" THEN @ ELSE @ \cup got]
    <3>1. got \subseteq Nat
      BY <1>2 DEF States
    <3>2. g' = [g EXCEPT ![c] = z] /\ rend' = [rend EXCEPT ![c] = y]
      BY <1>1, <1>3, <1>8 DEF Reply
    <3>3. z \in ClientType
      BY <1>2, <3>1 DEF ClientType, Pcs
    <3>4. /\ z.pc \in {"exit", "loop"} /\ z.hist = x.hist \cup got
          /\ z.sent \in {x.sent, x.sent \cup got}
          /\ z.good = x.good /\ z.alarm = x.alarm /\ x.pc = "await"
      BY <1>8 DEF Reply, Busy, ClientType
    <3> HIDE DEF z
    <3>5. Sound(z, y, code[c], proc[c])
      BY <1>1, <1>2, <3>4 DEF Sound
    <3>6. UNCHANGED <<lvars, proc, code>>
      BY <1>8 DEF Reply
    <3> QED
      BY <3>2, <3>3, <3>5, <3>6, ClientStep
  <2> QED
    BY <2>1, <2>2
<1>9. CASE Report(c)
  <2>1. CASE Raise(c)
    BY <1>9, <2>1, RaiseKeeps DEF Report
  <2>2. CASE ~Raise(c)
    <3>1. /\ y.good /\ x.pc = "exit"
          /\ g' = [g EXCEPT ![c] = [Failed EXCEPT !.good = Displayed(c), !.alarm = ~Displayed(c)]]
      BY <1>9, <2>2 DEF Report, Busy
    <3>2. Displayed(c)
      BY <1>1, <1>2, <3>1 DEF Displayed, Sound
    <3> DEFINE z == [Failed EXCEPT !.good = TRUE, !.alarm = FALSE]
    <3>3. g' = [g EXCEPT ![c] = z] /\ rend' = [rend EXCEPT ![c] = y]
      BY <1>3, <1>9, <3>1, <3>2 DEF Report
    <3>4. z \in ClientType
      BY DEF Failed, NewClient, ClientType, Pcs
    <3>5. Sound(z, y, code[c], proc[c])
      BY <1>1, <3>1 DEF Sound, Failed, NewClient
    <3> QED
      BY <1>9, <3>3, <3>4, <3>5, ClientStep DEF Report
  <2> QED
    BY <2>1, <2>2
<1>10. CASE Finally(c)
  <2> DEFINE z == [x EXCEPT !.pc = "ending"]
             w == [y EXCEPT !.st = IF @ = "up" THEN "term" ELSE @]
  <2>1. /\ g' = [g EXCEPT ![c] = z] /\ z \in ClientType
        /\ rend' = [rend EXCEPT ![c] = w] /\ w \in RendererType
    BY <1>1, <1>2, <1>10 DEF Finally, Step, ClientType, RendererType, Pcs, ProcStates
  <2>2. Sound(z, w, code[c], proc[c])
    BY <1>1, <1>2, <1>10 DEF Finally, Busy, Sound
  <2> QED
    BY <1>10, <2>1, <2>2, ClientStep DEF Finally
<1>11. CASE Exit(c)
  <2>0. g' = [g EXCEPT ![c] = x] /\ UNCHANGED lvars /\ Live(c) /\ x.pc = "ending"
    BY <1>3, <1>11 DEF Exit, Busy
  <2>1. CASE /\ y.st = "term" /\ rend' = [rend EXCEPT ![c].st = "kill"]
             /\ UNCHANGED <<proc, code>>
    <3> DEFINE w == [y EXCEPT !.st = "kill"]
    <3>1. rend' = [rend EXCEPT ![c] = w] /\ w \in RendererType
      BY <1>1, <2>1 DEF RendererType, ProcStates
    <3>2. Sound(x, w, code[c], proc[c])
      BY <1>1, <1>2, <2>0, <2>1 DEF Sound
    <3> QED
      BY <2>0, <2>1, <3>1, <3>2, ClientStep
  <2>2. CASE /\ proc' = [proc EXCEPT ![c] = "dead"] /\ rend' = rend
             /\ code' = [code EXCEPT ![c] = IF x.good /\ y.st # "kill" THEN "ok" ELSE "fail"]
    <3> DEFINE k == IF x.good /\ y.st # "kill" THEN "ok" ELSE "fail"
    <3>1. k \in {"ok", "fail"} /\ Sound(x, y, k, "dead")
      BY <1>1, <1>2, <2>0 DEF Sound
    <3>2. code' = [code EXCEPT ![c] = k] /\ rend' = [rend EXCEPT ![c] = y]
      BY <1>3, <2>2
    <3>3. \E l \in {"ok", "fail"} :
            /\ Live(c) /\ Sound(x, y, l, "dead")
            /\ proc' = [proc EXCEPT ![c] = "dead"] /\ code' = [code EXCEPT ![c] = l]
      <4> HIDE DEF k
      <4> QED
        BY <2>0, <2>2, <3>1, <3>2
    <3> QED
      BY <2>0, <3>2, <3>3, ClientStep
  <2> QED
    BY <1>11, <2>1, <2>2 DEF Exit
<1>12. CASE Show(c)
  <2> PICK n \in g[c].sent : rend' = [rend EXCEPT ![c].shown = n]
    BY <1>12 DEF Show
  <2> DEFINE w == [y EXCEPT !.shown = n]
  <2>1. /\ g' = [g EXCEPT ![c] = x] /\ rend' = [rend EXCEPT ![c] = w] /\ w \in RendererType
        /\ y.st = "up" /\ n \in x.sent
    BY <1>1, <1>2, <1>3, <1>12 DEF Show, RendererType
  <2>2. Sound(x, w, code[c], proc[c])
    BY <1>1, <1>2, <2>1 DEF Sound, NewRenderer
  <2> QED
    BY <1>12, <2>1, <2>2, ClientStep DEF Show
<1>13. CASE RendererEnds(c)
  <2>1. g' = [g EXCEPT ![c] = x] /\ y.st \in {"up", "term"} /\ UNCHANGED <<lvars, proc, code>>
    BY <1>3, <1>13 DEF RendererEnds
  <2>2. CASE rend' = [rend EXCEPT ![c] = [NewRenderer EXCEPT !.st = "dead"]]
    <3> DEFINE w == [NewRenderer EXCEPT !.st = "dead"]
    <3>1. w \in RendererType /\ w.shown = -1 /\ w.good = FALSE /\ w.st = "dead"
      BY DEF RendererType, NewRenderer, ProcStates
    <3>2. NewRenderer.st = "none"
      BY DEF NewRenderer
    <3>3. Sound(x, w, code[c], proc[c])
      <4> HIDE DEF w
      <4> QED
        BY <1>1, <1>2, <2>1, <3>1, <3>2 DEF Sound
    <3> QED
      BY <2>1, <2>2, <3>1, <3>3, ClientStep
  <2>3. CASE y.shown >= 0 /\ rend' = [rend EXCEPT ![c].st = "dead", ![c].good = TRUE]
    <3> DEFINE w == [y EXCEPT !.st = "dead", !.good = TRUE]
    <3>1. w \in RendererType /\ Sound(x, w, code[c], proc[c])
      BY <1>1, <1>2, <2>1, <2>3 DEF RendererType, NewRenderer, Sound, ProcStates
    <3>2. rend' = [rend EXCEPT ![c] = w]
      BY <1>1, <2>3
    <3> QED
      BY <2>1, <3>1, <3>2, ClientStep
  <2> QED
    BY <1>13, <2>2, <2>3 DEF RendererEnds
<1> QED
  BY <1>4, <1>5, <1>6, <1>7, <1>8, <1>9, <1>10, <1>11, <1>12, <1>13 DEF Client

-----------------------------------------------------------------------------
(* The launcher                                                            *)

\* The launcher goes on and its children stay as they are.
LEMMA Untouched ==
  ASSUME MInv, UNCHANGED <<proc, code, cvars>> PROVE Rendered'
BY DEF MInv, Rendered, cvars

LEMMA TypesKept ==
  ASSUME MInv, UNCHANGED <<proc, code, cvars>>, at' \in Places, i' \in 1..(NC + 1),
         ok' \in BOOLEAN, dir' \in BOOLEAN,
         cut' \in [child : Nat, by : {"-", "SIGTERM", "TimeoutError"}]
  PROVE  MTypeOK'
BY DEF MInv, MTypeOK, cvars

LEMMA CutType == ASSUME MInv PROVE cut \in [child : Nat, by : {"-", "SIGTERM", "TimeoutError"}]
BY DEF MInv, MTypeOK

LEMMA SetupKeeps == ASSUME MInv, Setup PROVE MInv'
<1>1. /\ at = "setup" /\ dir' = TRUE /\ i' = 1 /\ cut' = cut
      /\ (at' = "server" /\ ok' = ok) \/ (at' = "leave" /\ ok' = FALSE)
      /\ proc' = proc /\ code' = code /\ UNCHANGED cvars /\ ok \in BOOLEAN
  BY DEF Setup, Goto, Fail, MInv, MTypeOK
<1>2. Rendered' /\ MTypeOK'
  BY <1>1, First, Untouched, TypesKept, CutType DEF Places
<1>3. \A p \in Procs : proc[p] = "none"
  BY <1>1 DEF MInv, Launched
<1>4. Launched'
  BY <1>1, <1>3 DEF Launched
<1>5. Reaped' /\ Passing'
  BY <1>1, <1>3, Kids DEF MInv, Reaped, Passing, Gone, Kid
<1> QED
  BY <1>2, <1>4, <1>5 DEF MInv

LEMMA StartServerKeeps == ASSUME MInv, StartServer PROVE MInv'
<1>1. /\ at = "server" /\ i' = 1 /\ cut' = cut /\ dir' = dir /\ code' = code
      /\ UNCHANGED cvars /\ ok \in BOOLEAN /\ g' = g /\ rend' = rend
      /\ \/ at' = "ready" /\ ok' = ok /\ proc' = [proc EXCEPT !["server"] = "up"]
         \/ at' = "leave" /\ ok' = FALSE /\ proc' = proc
      /\ proc \in [Procs -> ProcStates] /\ dir \in BOOLEAN
      /\ "server" \in Procs
  BY DEF StartServer, Goto, Fail, MInv, MTypeOK, cvars, Procs
<1>2. \A p \in Procs : proc[p] = "none"
  BY <1>1 DEF MInv, Launched
<1>3. \A c \in Cs : c \in Procs /\ proc'[c] = proc[c]
  BY <1>1, Kids DEF Procs
<1>4. MTypeOK'
  BY <1>1, First DEF MInv, MTypeOK, Places, ProcStates
<1>5. Rendered'
  BY <1>1, <1>3 DEF MInv, Rendered
<1>6. Launched'
  BY <1>1, <1>2, <1>3, Kids DEF Launched
<1>7. Reaped' /\ Passing'
  BY <1>1, <1>2, Kids DEF MInv, Reaped, Passing, Gone, Kid
<1> QED
  BY <1>4, <1>5, <1>6, <1>7 DEF MInv

LEMMA ReadyKeeps == ASSUME MInv, Ready PROVE MInv'
<1>1. /\ at = "ready" /\ i' = 1 /\ cut' = cut /\ dir' = dir
      /\ (at' = "spawn" /\ ok' = ok) \/ (at' = "clean" /\ ok' = FALSE)
      /\ proc' = proc /\ code' = code /\ UNCHANGED cvars /\ ok \in BOOLEAN
      /\ dir \in BOOLEAN
  BY DEF Ready, Goto, Fail, MInv, MTypeOK
<1>2. Rendered' /\ MTypeOK'
  BY <1>1, First, Untouched, TypesKept, CutType DEF Places
<1>3. Launched'
  BY <1>1, Kids DEF MInv, Launched
<1>4. Reaped' /\ Passing'
  <2>1. \A n \in 1..(NC + 1) : ~(n < 1)
    BY Kids
  <2> QED
    BY <1>1, <2>1 DEF MInv, Reaped, Passing
<1> QED
  BY <1>2, <1>3, <1>4 DEF MInv

LEMMA SpawnClientKeeps == ASSUME MInv, SpawnClient PROVE MInv'
<1>1. /\ at = "spawn" /\ cut' = cut /\ dir' = dir /\ code' = code
      /\ g' = g /\ rend' = rend /\ ok \in BOOLEAN /\ dir \in BOOLEAN
      /\ i \in 1..NC /\ Kid(i) = Clients[i] /\ Clients[i] \in Cs /\ Clients[i] \in Procs
      /\ proc \in [Procs -> ProcStates]
      /\ "server" \in Procs /\ Clients[i] # "server"
  <2>1. i \in 1..NC
    BY Kids DEF SpawnClient, MInv, MTypeOK, Launched
  <2> QED
    BY <2>1, Kids DEF SpawnClient, MInv, MTypeOK, cvars, Procs
<1>2. \A n \in 1..NC : n >= i => proc[Clients[n]] = "none"
  BY <1>1 DEF MInv, Launched
<1>3. /\ proc[Clients[i]] = "none" /\ code[Clients[i]] # "ok"
  <2>1. proc[Clients[i]] = "none"
    BY <1>1, <1>2
  <2> QED
    BY <1>1, <2>1 DEF MInv, Rendered, Sound
<1>4. \A n \in 1..(NC + 1) : ~(n < 1)
  BY Kids
<1>5. CASE ok' = FALSE /\ proc' = proc /\ at' = "clean" /\ i' = 1
  <2>1. Rendered' /\ MTypeOK'
    BY <1>1, <1>5, First, Untouched, TypesKept, CutType DEF Places, cvars
  <2>2. Launched' /\ Reaped' /\ Passing'
    BY <1>1, <1>4, <1>5 DEF MInv, Launched, Reaped, Passing
  <2> QED
    BY <2>1, <2>2 DEF MInv
<1>6. CASE /\ proc' = [proc EXCEPT ![Clients[i]] = "up"] /\ ok' = ok
           /\ \/ i < NC /\ at' = "spawn" /\ i' = i + 1
              \/ at' = "wait" /\ i' = 1
  <2>1. /\ at' \in {"spawn", "wait"} /\ i' \in 1..NC /\ i' \in 1..(NC + 1)
    BY <1>1, <1>6, Kids
  <2>2. MTypeOK'
    BY <1>1, <1>6, <2>1 DEF MInv, MTypeOK, Places, ProcStates
  <2>3. Rendered'
    <3> SUFFICES ASSUME NEW c \in Cs PROVE Sound(g[c], rend[c], code[c], proc'[c])
      BY <1>1 DEF Rendered
    <3>1. CASE c = Clients[i]
      BY <1>3, <3>1 DEF MInv, Rendered, Sound
    <3>2. CASE c # Clients[i]
      <4>1. proc'[c] = proc[c]
        BY <1>1, <1>6, <3>2 DEF Procs
      <4> QED
        BY <4>1 DEF MInv, Rendered
    <3> QED
      BY <3>1, <3>2
  <2>4. Launched'
    <3>1. proc'["server"] # "none"
      BY <1>1, <1>6 DEF MInv, Launched
    <3>2. at' = "spawn" => \A n \in 1..NC : n >= i' => proc'[Clients[n]] = "none"
      <4> SUFFICES ASSUME at' = "spawn", NEW n \in 1..NC, n >= i + 1
                   PROVE  proc'[Clients[n]] = "none"
        BY <1>6
      <4>1. n # i /\ n >= i
        BY <1>1, Kids
      <4>2. Clients[n] # Clients[i] /\ Clients[n] \in Procs
        BY <1>1, <4>1, Kids DEF Procs
      <4> QED
        BY <1>1, <1>2, <1>6, <4>1, <4>2
    <3>3. at' = "wait" => \A n \in 1..NC : ~(n < i')
      BY <1>6, Kids
    <3> QED
      BY <2>1, <3>1, <3>2, <3>3, Kids, SMTT(30) DEF Launched
  <2>5. Reaped' /\ Passing'
    BY <1>1, <1>6, <2>1 DEF MInv, Reaped, Passing
  <2> QED
    BY <2>2, <2>3, <2>4, <2>5 DEF MInv
<1> QED
  BY <1>1, <1>5, <1>6 DEF SpawnClient, Goto, Fail, NC

LEMMA WaitClientKeeps == ASSUME MInv, WaitClient PROVE MInv'
<1>1. /\ at = "wait" /\ cut' = cut /\ dir' = dir /\ proc' = proc /\ code' = code
      /\ UNCHANGED cvars /\ ok \in BOOLEAN /\ dir \in BOOLEAN
      /\ i \in 1..NC /\ Kid(i) = Clients[i]
  <2>1. i \in 1..NC
    BY Kids DEF WaitClient, MInv, MTypeOK, Launched
  <2> QED
    BY <2>1, Kids DEF WaitClient, MInv, MTypeOK
<1>2. \A n \in 1..(NC + 1) : ~(n < 1)
  BY Kids
<1>3. CASE ok' = FALSE /\ at' = "clean" /\ i' = 1
  <2>1. Rendered' /\ MTypeOK'
    BY <1>1, <1>3, First, Untouched, TypesKept, CutType DEF Places
  <2>2. Launched' /\ Reaped' /\ Passing'
    BY <1>1, <1>2, <1>3 DEF MInv, Launched, Reaped, Passing
  <2> QED
    BY <2>1, <2>2 DEF MInv
<1>4. CASE code[Clients[i]] = "ok" /\ ok' = ok /\ i < NC /\ at' = "wait" /\ i' = i + 1
  <2>1. i' \in 1..NC /\ i' \in 1..(NC + 1) /\ \A n \in 1..NC : n < i' => n < i \/ n = i
    BY <1>1, <1>4, Kids
  <2>2. Rendered' /\ MTypeOK'
    BY <1>1, <1>4, <2>1, Untouched, TypesKept, CutType DEF Places
  <2>3. Launched'
    BY <1>1, <1>4, <2>1, Kids DEF MInv, Launched
  <2>4. Reaped' /\ Passing'
    BY <1>1, <1>4 DEF MInv, Reaped, Passing
  <2> QED
    BY <2>2, <2>3, <2>4 DEF MInv
<1>5. CASE code[Clients[i]] = "ok" /\ ok' = ok /\ ~(i < NC) /\ at' = "clean" /\ i' = 1
  <2>1. \A n \in 1..NC : n < i \/ n = i
    BY <1>1, <1>5, Kids
  <2>2. \A n \in 1..NC : code[Clients[n]] = "ok"
    BY <1>1, <1>5, <2>1 DEF MInv, Launched
  <2>3. \A c \in Cs : code[c] = "ok"
    BY <2>2, Kids
  <2>4. Rendered' /\ MTypeOK'
    BY <1>1, <1>5, First, Untouched, TypesKept, CutType DEF Places
  <2>5. Launched' /\ Reaped' /\ Passing'
    BY <1>1, <1>2, <1>5, <2>3 DEF MInv, Launched, Reaped, Passing
  <2> QED
    BY <2>4, <2>5 DEF MInv
<1> QED
  BY <1>1, <1>3, <1>4, <1>5 DEF WaitClient, Goto, Fail, NC

\* One child after the other is reaped, and the launcher leaves after the last.
LEMMA CleanedKeeps ==
  ASSUME MInv, at = "clean", Cleaned(i), UNCHANGED <<ok, cut, dir, proc, code>>, Gone(Kid(i))
  PROVE  Launched' /\ Reaped' /\ Passing' /\ at' \in Places /\ i' \in 1..(NC + 1)
<1>1. /\ i \in 1..(NC + 1) /\ Len(Children) = NC + 1 /\ NC \in Nat
      /\ ok' = ok /\ cut' = cut /\ dir' = dir /\ "server" \in Procs
  BY Kids DEF MInv, MTypeOK, Procs
<1>2. \/ i < NC + 1 /\ at' = "clean" /\ i' = i + 1
      \/ i = NC + 1 /\ at' = "leave" /\ i' = 1
  BY <1>1 DEF Cleaned, Goto
<1>3. /\ proc["server"] # "none" /\ proc'["server"] # "none"
  BY <1>1 DEF MInv, Launched
<1>4. \A n \in 1..(NC + 1) : n < i \/ n = i => Gone(Kid(n))'
  BY DEF MInv, Reaped, Gone, Kid
<1>5. CASE i < NC + 1 /\ at' = "clean" /\ i' = i + 1
  <2>1. i' \in 1..(NC + 1) /\ \A n \in 1..(NC + 1) : n < i' => n < i \/ n = i
    BY <1>1, <1>5
  <2>2. Launched'
    BY <1>3, <1>5 DEF Launched
  <2>3. Reaped'
    BY <1>4, <1>5, <2>1 DEF Reaped
  <2>4. Passing'
    BY <1>1, <1>3, <1>5 DEF MInv, Passing
  <2> QED
    BY <1>5, <2>1, <2>2, <2>3, <2>4 DEF Places
<1>6. CASE i = NC + 1 /\ at' = "leave" /\ i' = 1
  <2>1. \A n \in 1..(NC + 1) : n < i \/ n = i
    BY <1>1, <1>6
  <2>3. Launched' /\ Reaped'
    BY <1>4, <1>6, <2>1 DEF Launched, Reaped
  <2>4. Passing'
    BY <1>1, <1>3, <1>6 DEF MInv, Passing
  <2> QED
    BY <1>6, <2>3, <2>4, First DEF Places
<1> QED
  BY <1>2, <1>5, <1>6

LEMMA CleanKeeps == ASSUME MInv, Clean PROVE MInv'
<1> PICK p \in Procs : p = Kid(i)
  BY Kids DEF MInv, MTypeOK
<1>1. /\ at = "clean" /\ dir' = dir /\ proc \in [Procs -> ProcStates]
      /\ code \in [Procs -> {"-", "ok", "fail"}] /\ g \in [Cs -> ClientType]
      /\ Cs \subseteq Procs /\ ok \in BOOLEAN /\ dir \in BOOLEAN
      /\ \A c \in Cs : Sound(g[c], rend[c], code[c], proc[c])
  BY DEF Clean, MInv, MTypeOK, Procs, Rendered
<1>2. CASE Gone(p)
  <2>1. Cleaned(i) /\ proc' = proc /\ code' = code /\ UNCHANGED cvars /\ ok' = ok /\ cut' = cut
    BY <1>2 DEF Clean, Gone
  <2>2. Launched' /\ Reaped' /\ Passing' /\ at' \in Places /\ i' \in 1..(NC + 1)
    BY <1>1, <1>2, <2>1, CleanedKeeps
  <2>3. Rendered' /\ MTypeOK'
    BY <1>1, <2>1, <2>2, Untouched, TypesKept, CutType
  <2> QED
    BY <2>2, <2>3 DEF MInv
\* The child is asked or killed: its client fails, and the launcher stays where it is.
<1>3. ASSUME NEW s \in {"term", "kill"}, Live(p), proc' = [proc EXCEPT ![p] = s], code' = code,
             rend' = rend, UNCHANGED lvars,
             \/ g' = g
             \/ g' = [c \in Cs |-> IF c = p THEN Failed ELSE g[c]]
      PROVE  MInv'
  <2>1. /\ proc' \in [Procs -> ProcStates] /\ \A q \in Procs : Onward(q)
    BY <1>1, <1>3 DEF Live, Onward, ProcStates
  <2>2. Launched' /\ Reaped' /\ Passing'
    BY <1>3, <2>1, Elsewhere
  <2>3. Failed \in ClientType
    BY DEF Failed, NewClient, ClientType, Pcs
  <2>4. g' \in [Cs -> ClientType] /\ \A c \in Cs : g'[c] = g[c] \/ (c = p /\ g'[c] = Failed)
    BY <1>1, <1>3, <2>3
  <2>5. MTypeOK'
    BY <1>1, <1>3, <2>1, <2>4 DEF MInv, MTypeOK, lvars
  <2>6. Rendered'
    <3> SUFFICES ASSUME NEW c \in Cs PROVE Sound(g'[c], rend[c], code[c], proc'[c])
      BY <1>3 DEF Rendered
    <3>1. CASE c = p
      <4>1. code[c] # "ok" /\ g'[c] \in {g[c], Failed}
        BY <1>1, <1>3, <2>4, <3>1 DEF Sound, Live
      <4> QED
        BY <1>1, <4>1 DEF Sound, Failed, NewClient
    <3>2. CASE c # p
      <4>1. g'[c] = g[c] /\ proc'[c] = proc[c]
        BY <1>1, <1>3, <2>4, <3>2
      <4> QED
        BY <1>1, <4>1
    <3> QED
      BY <3>1, <3>2
  <2> QED
    BY <2>2, <2>5, <2>6 DEF MInv
<1>4. CASE proc[p] = "term"
  <2>1. /\ proc' = [proc EXCEPT ![p] = "kill"] /\ code' = code /\ rend' = rend /\ g' = g
        /\ UNCHANGED lvars
    BY <1>1, <1>4 DEF Clean, cvars, lvars
  <2> QED
    BY <1>3, <1>4, <2>1 DEF Live
<1>5. CASE proc[p] = "up"
  <2>1. Asked(p) /\ UNCHANGED lvars
    BY <1>1, <1>5 DEF Clean, lvars
  <2>2. CASE p \in Cs /\ g[p].pc \in {"start", "finally", "ending"}
    BY <1>5, <2>1, <2>2, Ends DEF Asked
  <2>3. CASE ~(p \in Cs /\ g[p].pc \in {"start", "finally", "ending"})
    BY <1>3, <1>5, <2>1, <2>3 DEF Asked, Live
  <2> QED
    BY <2>2, <2>3
\* It was killed in vain: the children after it are spared, and not it.
<1>6. CASE proc[p] = "kill"
  <2>1. /\ at' = "leave" /\ i' = 1 /\ ok' = FALSE /\ cut' = [child |-> i, by |-> "TimeoutError"]
        /\ proc' = proc /\ code' = code /\ UNCHANGED cvars
    BY <1>6 DEF Clean, Fail, Goto
  <2>2. i \in Nat /\ i \in 1..(NC + 1) /\ NC \in Nat
    BY Kids DEF MInv, MTypeOK
  <2>3. Rendered' /\ MTypeOK'
    BY <1>1, <2>1, <2>2, First, Untouched, TypesKept DEF Places
  <2>4. Reaped'
    <3> SUFFICES ASSUME NEW n \in 1..(NC + 1) PROVE Gone(Kid(n))' \/ Spared(n)'
      BY <2>1 DEF Reaped
    <3>1. CASE n < i
      BY <1>1, <2>1, <3>1 DEF MInv, Reaped, Gone, Kid
    <3>2. CASE n >= i
      <4>1. cut'.by = "TimeoutError" /\ cut'.child = i
        BY <2>1
      <4>2. n = i => ~Live(Kid(n))'
        BY <1>6, <2>1 DEF Live, Kid
      <4> QED
        BY <3>2, <4>1, <4>2 DEF Spared
    <3> QED
      BY <2>2, <3>1, <3>2
  <2>5. Launched' /\ Passing'
    BY <2>1 DEF Launched, Passing
  <2> QED
    BY <2>3, <2>4, <2>5 DEF MInv
<1> QED
  BY <1>1, <1>2, <1>4, <1>5, <1>6 DEF Gone, ProcStates

LEMMA LeaveKeeps == ASSUME MInv, Leave PROVE MInv'
<1> PICK killed \in SUBSET {p \in DOMAIN proc : Live(p)} :
      proc' = [p \in DOMAIN proc |-> IF p \in killed THEN "kill" ELSE proc[p]]
  BY DEF Leave
<1>1. /\ at = "leave" /\ at' = "end" /\ i' = 1 /\ dir' = FALSE /\ ok' = ok /\ cut' = cut
      /\ g' = g /\ rend' = rend /\ code' = code
      /\ proc \in [Procs -> ProcStates]
      /\ "server" \in Procs /\ Cs \subseteq Procs
      /\ \A c \in Cs : Sound(g[c], rend[c], code[c], proc[c])
  BY DEF Leave, Goto, cvars, MInv, MTypeOK, Rendered, Procs
<1>2. /\ \A p \in Procs : proc'[p] = proc[p] \/ (Live(p) /\ proc'[p] = "kill")
      /\ proc' \in [Procs -> ProcStates]
  BY <1>1 DEF ProcStates
<1>3. MTypeOK'
  BY <1>1, <1>2, First DEF MInv, MTypeOK, Places
<1>4. Rendered'
  <2> SUFFICES ASSUME NEW c \in Cs PROVE Sound(g[c], rend[c], code[c], proc'[c])
    BY <1>1 DEF Rendered
  <2> QED
    BY <1>1, <1>2 DEF Sound, Live
<1>5. Reaped'
  <2> SUFFICES ASSUME NEW n \in 1..(NC + 1) PROVE Gone(Kid(n))' \/ Spared(n)'
    BY <1>1 DEF Reaped
  <2>1. Kid(n) \in Procs /\ (Gone(Kid(n)) \/ Spared(n))
    BY <1>1, Kids DEF MInv, Reaped
  <2> QED
    BY <1>1, <1>2, <2>1 DEF Gone, Spared, Live, Kid
<1>6. Launched' /\ Passing'
  BY <1>1, <1>2 DEF MInv, Launched, Passing, Live
<1> QED
  BY <1>3, <1>4, <1>5, <1>6 DEF MInv

LEMMA SigtermKeeps == ASSUME MInv, Sigterm PROVE MInv'
<1>1. /\ dir' = dir /\ proc' = proc /\ code' = code
      /\ UNCHANGED cvars /\ ok' = FALSE /\ i' = 1 /\ dir \in BOOLEAN
      /\ \/ at \in {"setup", "server"} /\ at' = "leave" /\ cut' = cut
         \/ at = "clean" /\ at' = "leave" /\ cut' = [child |-> i, by |-> "SIGTERM"]
         \/ at \in {"ready", "spawn", "wait"} /\ at' = "clean" /\ cut' = cut
         \/ at = "leave" /\ at' = "killed" /\ cut' = cut
      /\ i \in Nat /\ NC \in Nat
  BY Kids DEF Sigterm, Fail, Goto, MInv, MTypeOK
<1>2. Rendered' /\ MTypeOK'
  <2>1. cut' \in [child : Nat, by : {"-", "SIGTERM", "TimeoutError"}]
    BY <1>1, CutType
  <2> QED
    BY <1>1, <2>1, First, Untouched, TypesKept DEF Places
<1>3. Launched'
  BY <1>1 DEF MInv, Launched
<1>4. Reaped'
  <2>1. \A n \in 1..(NC + 1) : ~(n < 1) /\ Kid(n) \in Procs
    BY Kids
  <2>2. CASE at \in {"setup", "server"}
    BY <1>1, <2>1, <2>2 DEF MInv, Launched, Reaped, Gone, Kid
  <2>3. CASE at = "clean"
    <3> SUFFICES ASSUME NEW n \in 1..(NC + 1) PROVE Gone(Kid(n))' \/ Spared(n)'
      BY <1>1, <2>3 DEF Reaped
    <3>1. cut'.by = "SIGTERM" /\ cut'.child = i
      BY <1>1, <2>3
    <3>2. n < i => Gone(Kid(n))'
      BY <1>1, <2>3 DEF MInv, Reaped, Gone, Kid
    <3> QED
      BY <1>1, <3>1, <3>2 DEF Spared
  <2>4. CASE at \in {"ready", "spawn", "wait"}
    BY <1>1, <2>1, <2>4 DEF Reaped
  <2>5. CASE at = "leave"
    BY <1>1, <2>5 DEF MInv, Reaped, Gone, Spared, Live, Kid
  <2> QED
    BY <1>1, <2>2, <2>3, <2>4, <2>5
<1>5. Passing'
  BY <1>1 DEF Passing
<1> QED
  BY <1>2, <1>3, <1>4, <1>5 DEF MInv

LEMMA ServerEndsKeeps == ASSUME MInv, ServerEnds PROVE MInv'
<1>1. /\ Live("server") /\ UNCHANGED lvars /\ g' = g /\ rend' = rend
      /\ proc' = [proc EXCEPT !["server"] = "dead"]
      /\ \E k \in {"ok", "fail"} : code' = [code EXCEPT !["server"] = k]
      /\ proc \in [Procs -> ProcStates]
      /\ code \in [Procs -> {"-", "ok", "fail"}]
      /\ "server" \in Procs /\ Cs \subseteq Procs /\ "server" \notin Cs
  BY Kids DEF ServerEnds, cvars, MInv, MTypeOK, Procs
<1>2. \A c \in Cs : proc'[c] = proc[c] /\ code'[c] = code[c]
  BY <1>1
<1>3. Launched' /\ Reaped' /\ Passing'
  BY <1>1, <1>2, Elsewhere DEF Onward
<1>4. Rendered'
  BY <1>1, <1>2 DEF MInv, Rendered
<1>5. MTypeOK'
  BY <1>1 DEF MInv, MTypeOK, lvars, ProcStates
<1> QED
  BY <1>3, <1>4, <1>5 DEF MInv

LEMMA DiesKeeps == ASSUME MInv, NEW p \in Procs, Dies(p) PROVE MInv'
<1>1. CASE proc[p] = "kill" /\ proc' = [proc EXCEPT ![p] = "dead"] /\ code' = [code EXCEPT ![p] = "fail"]
           /\ UNCHANGED rend
  BY <1>1, Ends DEF Dies, cvars
<1>2. CASE /\ p \in Cs /\ rend[p].st = "kill" /\ rend' = [rend EXCEPT ![p].st = "dead"]
           /\ UNCHANGED <<proc, code>>
  <2> DEFINE w == [rend[p] EXCEPT !.st = "dead"]
  <2>1. /\ g \in [Cs -> ClientType] /\ rend \in [Cs -> RendererType]
        /\ Sound(g[p], rend[p], code[p], proc[p]) /\ UNCHANGED lvars /\ g' = g
    BY <1>2 DEF MInv, MTypeOK, Rendered, Dies
  <2>2. /\ g' = [g EXCEPT ![p] = g[p]] /\ rend' = [rend EXCEPT ![p] = w]
        /\ g[p] \in ClientType /\ rend[p] \in RendererType
    BY <1>2, <2>1
  <2>3. /\ w \in RendererType /\ w.st = "dead" /\ w.shown = rend[p].shown /\ w.good = rend[p].good
    BY <2>2 DEF RendererType, ProcStates
  <2>4. NewRenderer.st = "none"
    BY DEF NewRenderer
  <2> HIDE DEF w
  <2>5. Sound(g[p], w, code[p], proc[p])
    BY <1>2, <2>1, <2>3, <2>4 DEF Sound
  <2>6. p \in Cs /\ UNCHANGED <<proc, code>> /\ UNCHANGED lvars
    BY <1>2, <2>1
  <2> QED
    BY <2>2, <2>3, <2>5, <2>6, ClientStep
<1> QED
  BY <1>1, <1>2 DEF Dies

-----------------------------------------------------------------------------
(* What holds of every behaviour                                           *)

LEMMA MatchInit == ASSUME MInit PROVE MInv
<1>1. MTypeOK
  <2>1. NewClient \in ClientType
    BY DEF NewClient, ClientType, Pcs
  <2>2. NewRenderer \in RendererType
    BY DEF NewRenderer, RendererType, ProcStates
  <2> QED
    BY <2>1, <2>2, First DEF MInit, MTypeOK, Places, Procs, ProcStates, Whole
<1>2. Rendered
  <2> SUFFICES ASSUME NEW c \in Cs PROVE Sound(NewClient, NewRenderer, "-", "none")
    BY DEF MInit, Rendered
  <2> QED
    BY DEF Sound, NewClient, NewRenderer
<1>3. Launched /\ Reaped /\ Passing
  BY DEF MInit, Launched, Reaped, Passing, Procs, Whole
<1> QED
  BY <1>1, <1>2, <1>3 DEF MInv

\* MInv is an invariant of jugar.py and its children.
THEOREM MatchInvariant == MSpec => []MInv
<1>1. MInit => MInv
  BY MatchInit
<1>2. MInv /\ [MNext]_mvars => MInv'
  <2>1. ASSUME MInv, MNext PROVE MInv'
    <3>1. DOMAIN proc = Procs
      BY <2>1 DEF MInv, MTypeOK
    <3> QED
      BY <2>1, <3>1, SetupKeeps, StartServerKeeps, ReadyKeeps, SpawnClientKeeps, WaitClientKeeps,
         CleanKeeps, LeaveKeeps, SigtermKeeps, ServerEndsKeeps, DiesKeeps, ClientKeeps
         DEF MNext, Launcher
  <2>2. ASSUME MInv, UNCHANGED mvars PROVE MInv'
    <3>1. UNCHANGED <<lvars, proc, code, cvars>>
      BY <2>2 DEF mvars
    <3>2. Launched' /\ Reaped' /\ Passing'
      BY <2>2, <3>1, Elsewhere DEF Onward
    <3>3. Rendered' /\ MTypeOK'
      BY <2>2, <3>1, Untouched, TypesKept, CutType DEF MInv, MTypeOK, lvars
    <3> QED
      BY <3>2, <3>3 DEF MInv
  <2> QED
    BY <2>1, <2>2
<1> QED
  BY <1>1, <1>2, PTL DEF MSpec

\* graphics() never takes the state a faithful renderer names for one it did not
\* receive: what the renderer was given was recorded first.
THEOREM AlarmsAreReal == MSpec => []NoFalseAlarm
<1>1. MInv => NoFalseAlarm
  BY DEF MInv, Rendered, Sound, NoFalseAlarm
<1> QED
  BY <1>1, MatchInvariant, PTL

\* Whatever fails, the finally block of jugar.py stops its children in their order, and
\* what it leaves running is exactly what lies behind the place where it was cut short:
\* by a SIGTERM, or at a child that outlives its SIGKILL by 2 s, which it has killed.
THEOREM ChildrenAreReaped == MSpec => []NoOrphans
<1>1. MInv => NoOrphans
  <2> SUFFICES ASSUME MInv, Ended, NEW n \in DOMAIN Children, Live(Kid(n))
               PROVE  \/ cut.by = "SIGTERM" /\ n >= cut.child
                      \/ cut.by = "TimeoutError" /\ n > cut.child
    BY DEF NoOrphans
  <2>1. n \in 1..(NC + 1) /\ NC \in Nat
    <3>1. Children \in Seq(Procs)
      BY MatchAssumption DEF Children, Procs, Cs
    <3> QED
      BY <3>1, Kids
  <2>2. Spared(n)
    BY <2>1 DEF MInv, Reaped, Ended, Gone, Live
  <2>3. cut.by \in {"-", "SIGTERM", "TimeoutError"} /\ cut.child \in Nat
    BY CutType
  <2> QED
    BY <2>1, <2>2, <2>3 DEF Spared
<1> QED
  BY <1>1, MatchInvariant, PTL

\* The launcher reports a match as passed only when every client ended by itself with
\* a renderer that had shown a state, and nothing of the match is left.
THEOREM PassesAreComplete == MSpec => []PassedIsComplete
<1>1. MInv => PassedIsComplete
  <2> SUFFICES ASSUME MInv, at = "end", ok
               PROVE  /\ ~dir /\ \A p \in DOMAIN proc : proc[p] = "dead"
                      /\ \A c \in Cs : code[c] = "ok" /\ rend[c].good /\ rend[c].shown >= 0
    BY DEF PassedIsComplete
  <2>1. /\ ~dir /\ cut.by = "-" /\ proc["server"] # "none" /\ \A c \in Cs : code[c] = "ok"
    BY DEF MInv, Passing
  <2>2. \A c \in Cs : proc[c] = "dead" /\ rend[c].good /\ rend[c].shown >= 0
    BY <2>1 DEF MInv, Rendered, Sound
  <2>3. proc["server"] = "dead"
    BY <2>1, Kids DEF MInv, Reaped, Spared, Gone
  <2> QED
    BY <2>1, <2>2, <2>3 DEF MInv, MTypeOK, Procs
<1> QED
  BY <1>1, MatchInvariant, PTL
=============================================================================
