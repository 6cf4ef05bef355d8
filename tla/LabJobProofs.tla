---------------------------- MODULE LabJobProofs ----------------------------
(***************************************************************************)
(* Laboratory jobs and remote workers for any number of demos and any      *)
(* limit of the service.                                                   *)
(***************************************************************************)
EXTENDS LabJob, TLAPS

(* The inductive invariant *)

Ops == {"worker", "open", "request", "execute", "connect", "rhello", "rsend", "results",
        "decode", "submit"}
Steps == {St(o, s) : o \in Ops, s \in Sessions \cup {"-"}}
Phases == {"server", "adapter", "run", "worker_exit", "close", "adapter_exit", "server_exit", "end"}
DemoType == [phase : Phases, ok : BOOLEAN, todo : Seq(Steps), made : Seq(Sessions),
             closing : Seq(Sessions), named : SUBSET Sessions]
SrvStates == {"none", "open", "accepted", "done", "gone"}
TaskStates == {"none", "hello", "command", "exec", "answered", "stopping", "leaving", "served", "gone"}
ProcStates == {"none", "up", "term", "kill"}
Procs == [{"server", "adapter", "worker"} -> ProcStates]

JTypeOK == /\ demo \in [Demos -> DemoType] /\ proc \in [Demos -> Procs]
           /\ srv \in [Demos -> [Sessions -> SrvStates]]

\* The plan of demo d and the number of its steps.
P(d) == Plan(d \in Remotes)
L(d) == IF d \in Remotes THEN 13 ELSE 6

\* The sessions of a job about to take step m of its plan, and what the server has
\* made of each.
Made(d, m) == IF m <= 2 THEN <<>>
              ELSE IF d \notin Remotes \/ m <= 7 THEN <<"local">> ELSE <<"local", "native">>
Asked(d, m, s) ==
  IF s = "local"
  THEN IF m <= 2 THEN "none"
       ELSE IF m <= (IF d \in Remotes THEN 12 ELSE 6) THEN "open" ELSE "accepted"
  ELSE IF d \notin Remotes \/ m <= 7 THEN "none"
       ELSE IF m <= 13 THEN "open" ELSE "accepted"

Of(q) == {q[k] : k \in 1..Len(q)}
Queues == {<<>>, <<"local">>, <<"native">>, <<"local", "native">>}

\* What is left to do is the end of the plan; m is the next step of it.
OnPlan(d, j) == /\ Len(j.todo) \in 1..L(d)
                /\ \A k \in 1..Len(j.todo) : j.todo[k] = P(d)[L(d) - Len(j.todo) + k]
Now(d, j) == L(d) - Len(j.todo) + 1

\* A job whose next step is m and its sessions v.
Upto(d, m, j, v) == /\ j.made = Made(d, m) /\ j.named = Of(Made(d, m))
                    /\ \A s \in Sessions : v[s] = Asked(d, m, s)

\* A job that is to close its sessions, or has closed them; K: what was lost.
Closing(d, j, v, K) ==
  /\ j.closing \in Queues
  /\ \A s \in Sessions : s \notin Of(j.closing) => v[s] \in {"none", "done", "gone"} \/ <<d, s>> \in K
  /\ \A s \in Sessions : s \notin j.named => v[s] = "none" \/ <<d, s>> \in K
  /\ j.ok => /\ j.made # <<>>
             /\ \A s \in Of(j.made) : /\ s \in j.named
                                      /\ s \in Of(j.closing) => v[s] = "accepted"
                                      /\ s \notin Of(j.closing) => v[s] = "done"

Good(d, j, v, K) ==
  /\ j.phase \in {"server", "adapter"} =>
       /\ j.made = <<>> /\ j.closing = <<>> /\ j.named = {}
       /\ \A s \in Sessions : v[s] = "none"
  /\ j.phase = "run" => OnPlan(d, j) /\ Upto(d, Now(d, j), j, v)
  /\ j.phase \in {"worker_exit", "close"} => Closing(d, j, v, K)

\* The processes q of a demo, which runs its local worker from step 2 to step 4 of its
\* plan and stops it on no other way than through worker's finally.
Held(d, j, q) ==
  /\ Runs(q["worker"]) => j.phase = "worker_exit" \/ (j.phase = "run" /\ Now(d, j) \in 2..4)
  /\ j.phase = "run" => q["worker"] # "term"
  /\ j.phase \in {"server", "adapter", "server_exit", "end"} => ~Runs(q["adapter"])
  /\ j.phase \in {"server", "end"} => ~Runs(q["server"])

\* A remote worker that was not killed runs for a handler that waits for it, or was
\* given up by one that close() cancelled.
Served == /\ task \in [Demos -> TaskStates] /\ remote \in [Demos -> ProcStates]
          /\ \A d \in Demos : /\ remote[d] = "up" => task[d] \in {"hello", "command", "exec"}
                              /\ remote[d] = "term" => task[d] = "stopping" \/ d \in cut
          /\ svc = "open" => cut = {}

JInv == /\ JTypeOK /\ Served
        /\ \A d \in Demos : Good(d, demo[d], srv[d], lost) /\ Held(d, demo[d], proc[d])

-----------------------------------------------------------------------------
(* The plan                                                                *)

LEMMA Joined ==
  ASSUME NEW S, NEW a \in Seq(S), NEW b \in Seq(S)
  PROVE  /\ a \o b \in Seq(S) /\ Len(a \o b) = Len(a) + Len(b)
         /\ Len(a) \in Nat /\ Len(b) \in Nat
         /\ \A k \in 1..Len(a) : (a \o b)[k] = a[k]
         /\ \A k \in 1..Len(b) : (a \o b)[Len(a) + k] = b[k]
OBVIOUS

LEMMA One ==
  ASSUME NEW S, NEW a \in S
  PROVE  <<a>> \in Seq(S) /\ Len(<<a>>) = 1 /\ <<a>>[1] = a
OBVIOUS

LEMMA Two ==
  ASSUME NEW S, NEW a \in S, NEW b \in S
  PROVE  LET t == <<a, b>> IN t \in Seq(S) /\ Len(t) = 2 /\ t[1] = a /\ t[2] = b
OBVIOUS

LEMMA Four ==
  ASSUME NEW S, NEW a \in S, NEW b \in S, NEW c \in S, NEW d \in S
  PROVE  LET t == <<a, b, c, d>> IN
         t \in Seq(S) /\ Len(t) = 4 /\ t[1] = a /\ t[2] = b /\ t[3] = c /\ t[4] = d
OBVIOUS

LEMMA Six ==
  ASSUME NEW S, NEW a \in S, NEW b \in S, NEW c \in S, NEW d \in S, NEW e \in S, NEW f \in S
  PROVE  LET t == <<a, b, c, d, e, f>> IN
         /\ t \in Seq(S) /\ Len(t) = 6
         /\ t[1] = a /\ t[2] = b /\ t[3] = c /\ t[4] = d /\ t[5] = e /\ t[6] = f
OBVIOUS

LEMMA PlanSteps ==
  ASSUME NEW d
  PROVE  /\ P(d) \in Seq(Steps) /\ Len(P(d)) = L(d)
         /\ P(d)[1] = St("worker", "-") /\ P(d)[2] = St("open", "local")
         /\ P(d)[3] = St("request", "local") /\ P(d)[4] = St("execute", "-")
         /\ d \notin Remotes => P(d)[5] = St("decode", "-") /\ P(d)[6] = St("submit", "local")
         /\ d \in Remotes =>
              /\ P(d)[5] = St("connect", "-") /\ P(d)[6] = St("rhello", "-")
              /\ P(d)[7] = St("open", "native") /\ P(d)[8] = St("request", "native")
              /\ P(d)[9] = St("rsend", "-") /\ P(d)[10] = St("results", "-")
              /\ P(d)[11] = St("decode", "-") /\ P(d)[12] = St("submit", "local")
              /\ P(d)[13] = St("submit", "native")
<1>1. \A o \in Ops, s \in Sessions \cup {"-"} : St(o, s) \in Steps
  BY DEF Steps
<1>2. /\ St("worker", "-") \in Steps /\ St("open", "local") \in Steps
      /\ St("request", "local") \in Steps /\ St("execute", "-") \in Steps
      /\ St("connect", "-") \in Steps /\ St("rhello", "-") \in Steps
      /\ St("open", "native") \in Steps /\ St("request", "native") \in Steps
      /\ St("rsend", "-") \in Steps /\ St("results", "-") \in Steps
      /\ St("decode", "-") \in Steps /\ St("submit", "local") \in Steps
      /\ St("submit", "native") \in Steps
  BY <1>1 DEF Ops, Sessions
<1> PICK a : a = <<St("worker", "-"), St("open", "local"), St("request", "local"), St("execute", "-")>>
  OBVIOUS
<1> PICK b : b = <<St("connect", "-"), St("rhello", "-"), St("open", "native"),
                   St("request", "native"), St("rsend", "-"), St("results", "-")>>
  OBVIOUS
<1> PICK c : c = <<St("decode", "-"), St("submit", "local")>>
  OBVIOUS
<1> PICK e : e = <<St("submit", "native")>>
  OBVIOUS
<1>3. /\ a \in Seq(Steps) /\ Len(a) = 4 /\ a[1] = St("worker", "-") /\ a[2] = St("open", "local")
      /\ a[3] = St("request", "local") /\ a[4] = St("execute", "-")
  BY <1>2, Four
<1>4. /\ b \in Seq(Steps) /\ Len(b) = 6 /\ b[1] = St("connect", "-") /\ b[2] = St("rhello", "-")
      /\ b[3] = St("open", "native") /\ b[4] = St("request", "native")
      /\ b[5] = St("rsend", "-") /\ b[6] = St("results", "-")
  BY <1>2, Six
<1>5. c \in Seq(Steps) /\ Len(c) = 2 /\ c[1] = St("decode", "-") /\ c[2] = St("submit", "local")
  BY <1>2, Two
<1>6. e \in Seq(Steps) /\ Len(e) = 1 /\ e[1] = St("submit", "native")
  BY <1>2, One
<1>7. CASE d \notin Remotes
  <2>1. P(d) = ((a \o <<>>) \o c) \o <<>>
    BY <1>7 DEF P, Plan
  <2>2. a \o <<>> = a /\ (a \o c) \o <<>> = a \o c
    BY <1>3, <1>5
  <2>3. /\ a \o c \in Seq(Steps) /\ Len(a \o c) = 6
        /\ \A k \in 1..4 : (a \o c)[k] = a[k] /\ \A n \in 1..2 : (a \o c)[4 + n] = c[n]
    BY <1>3, <1>5, Joined
  <2>4. (a \o c)[5] = c[1] /\ (a \o c)[6] = c[2]
    <3>1. 4 + 1 = 5 /\ 4 + 2 = 6 /\ 1 \in 1..4
      OBVIOUS
    <3> QED
      BY <2>3, <3>1
  <2> QED
    BY <1>3, <1>5, <1>7, <2>1, <2>2, <2>3, <2>4 DEF L
<1>8. CASE d \in Remotes
  <2>1. P(d) = ((a \o b) \o c) \o e
    BY <1>8 DEF P, Plan
  <2> PICK ab : ab = a \o b
    OBVIOUS
  <2> PICK abc : abc = ab \o c
    OBVIOUS
  <2>2. /\ ab \in Seq(Steps) /\ Len(ab) = 10
        /\ \A k \in 1..4 : ab[k] = a[k] /\ \A n \in 1..6 : ab[4 + n] = b[n]
    BY <1>3, <1>4, Joined
  <2>3. /\ abc \in Seq(Steps) /\ Len(abc) = 12
        /\ \A k \in 1..10 : abc[k] = ab[k] /\ \A n \in 1..2 : abc[10 + n] = c[n]
    BY <1>5, <2>2, Joined
  <2>4. /\ P(d) \in Seq(Steps) /\ Len(P(d)) = 13
        /\ \A k \in 1..12 : P(d)[k] = abc[k] /\ \A n \in 1..1 : P(d)[12 + n] = e[n]
    BY <1>6, <2>1, <2>3, Joined
  <2>5. /\ P(d)[1] = a[1] /\ P(d)[2] = a[2] /\ P(d)[3] = a[3] /\ P(d)[4] = a[4]
    BY <2>2, <2>3, <2>4
  <2>6. /\ ab[5] = b[1] /\ ab[6] = b[2] /\ ab[7] = b[3] /\ ab[8] = b[4] /\ ab[9] = b[5]
        /\ ab[10] = b[6]
    <3>1. 4 + 1 = 5 /\ 4 + 2 = 6 /\ 4 + 3 = 7 /\ 4 + 4 = 8 /\ 4 + 5 = 9 /\ 4 + 6 = 10 /\ 1 \in 1..4
      OBVIOUS
    <3> QED
      BY <2>2, <3>1
  <2>7. abc[11] = c[1] /\ abc[12] = c[2]
    <3>1. 10 + 1 = 11 /\ 10 + 2 = 12 /\ 1 \in 1..10
      OBVIOUS
    <3> QED
      BY <2>3, <3>1
  <2>8. P(d)[13] = e[1]
    <3>1. 12 + 1 = 13 /\ 1 \in 1..12 /\ 1 \in 1..1
      OBVIOUS
    <3> QED
      BY <2>4, <3>1
  <2>9. /\ P(d)[5] = ab[5] /\ P(d)[6] = ab[6] /\ P(d)[7] = ab[7] /\ P(d)[8] = ab[8]
        /\ P(d)[9] = ab[9] /\ P(d)[10] = ab[10] /\ P(d)[11] = abc[11] /\ P(d)[12] = abc[12]
    BY <2>3, <2>4
  <2> QED
    BY <1>3, <1>4, <1>5, <1>6, <1>8, <2>4, <2>5, <2>6, <2>7, <2>8, <2>9 DEF L
<1> QED
  BY <1>7, <1>8

\* The operation of each step of a plan, and where each operation is.
LEMMA Where ==
  ASSUME NEW d, NEW m \in 1..L(d)
  PROVE  /\ P(d)[m].do = "worker" => m = 1
         /\ P(d)[m].do = "execute" => m = 4
         /\ P(d)[m].do \in {"connect", "rhello", "rsend", "results", "decode"} =>
              m # 1 /\ m # 2 /\ m # 3 /\ m # 4
         /\ P(d)[m].do \in {"open", "request", "submit"} => P(d)[m].s \in Sessions /\ m # 1 /\ m # 4
         /\ P(d)[m].do \notin {"open", "request", "submit"} =>
              /\ Made(d, m + 1) = Made(d, m) /\ m # L(d)
              /\ \A s \in Sessions : Asked(d, m + 1, s) = Asked(d, m, s)
<1>1. \A o, s : St(o, s).do = o /\ St(o, s).s = s
  BY DEF St
<1>2. "local" \in Sessions /\ "native" \in Sessions
  BY DEF Sessions
<1>3. CASE d \notin Remotes
  <2>1. /\ m = 1 \/ m = 2 \/ m = 3 \/ m = 4 \/ m = 5 \/ m = 6
        /\ L(d) = 6
    BY <1>3 DEF L
  <2> QED
    BY <1>1, <1>2, <1>3, <2>1, PlanSteps DEF Made, Asked, Sessions
<1>4. CASE d \in Remotes
  <2>1. /\ \/ m = 1 \/ m = 2 \/ m = 3 \/ m = 4 \/ m = 5 \/ m = 6 \/ m = 7 \/ m = 8 \/ m = 9
           \/ m = 10 \/ m = 11 \/ m = 12 \/ m = 13
        /\ L(d) = 13
    BY <1>4 DEF L
  <2> QED
    BY <1>1, <1>2, <1>4, <2>1, PlanSteps, SMTT(30) DEF Made, Asked, Sessions
<1> QED
  BY <1>3, <1>4

\* An answered exchange makes of a session what the next step expects.
AnswerOf(d, m, o, s) ==
  /\ Asked(d, m + 1, s) = After(o, Asked(d, m, s))
  /\ \A t \in Sessions : t # s => Asked(d, m + 1, t) = Asked(d, m, t)
  /\ o = "open" => Made(d, m + 1) = Append(Made(d, m), s) /\ Asked(d, m, s) = "none"
  /\ o # "open" => Made(d, m + 1) = Made(d, m)
  /\ Of(Made(d, m + 1)) = IF o = "open" THEN Of(Made(d, m)) \cup {s} ELSE Of(Made(d, m))

LEMMA Exchanged ==
  ASSUME NEW d, NEW m \in 1..L(d), P(d)[m].do \in {"open", "request", "submit"}
  PROVE  AnswerOf(d, m, P(d)[m].do, P(d)[m].s)
<1> PICK o : o = P(d)[m].do
  OBVIOUS
<1> PICK s : s = P(d)[m].s
  OBVIOUS
<1> SUFFICES /\ Asked(d, m + 1, s) = After(o, Asked(d, m, s))
             /\ \A t \in Sessions : t # s => Asked(d, m + 1, t) = Asked(d, m, t)
             /\ o = "open" => Made(d, m + 1) = Append(Made(d, m), s) /\ Asked(d, m, s) = "none"
             /\ o # "open" => Made(d, m + 1) = Made(d, m)
             /\ Of(Made(d, m + 1)) = IF o = "open" THEN Of(Made(d, m)) \cup {s} ELSE Of(Made(d, m))
  BY DEF AnswerOf
<1>1. \A x, y : St(x, y).do = x /\ St(x, y).s = y
  BY DEF St
<1>2. /\ <<"local">> = Append(<<>>, "local")
      /\ <<"local", "native">> = Append(<<"local">>, "native")
  OBVIOUS
<1>3. /\ Of(<<>>) = {} /\ Of(<<"local">>) = {"local"} /\ Of(<<"local", "native">>) = {"local", "native"}
  BY DEF Of
<1>0. CASE m = 2
  <2>1. o = "open" /\ s = "local"
    BY <1>1, <1>0, PlanSteps
  <2>2. Made(d, m) = <<>> /\ Made(d, m + 1) = <<"local">>
    BY <1>0 DEF Made
  <2>3. /\ Asked(d, m, s) = "none" /\ Asked(d, m + 1, s) = "open" /\ After(o, "none") = "open"
        /\ \A t \in Sessions : t # s => Asked(d, m + 1, t) = Asked(d, m, t)
    BY <1>0, <2>1 DEF Asked, After, Sessions
  <2>4. {"local"} = {} \cup {"local"}
    OBVIOUS
  <2> QED
    BY <1>2, <1>3, <2>1, <2>2, <2>3, <2>4
<1>4. CASE d \notin Remotes
  <2>1. m = 2 \/ m = 3 \/ m = 6
    <3>1. m = 1 \/ m = 2 \/ m = 3 \/ m = 4 \/ m = 5 \/ m = 6
      BY <1>4 DEF L
    <3> QED
      BY <1>1, <1>4, <3>1, PlanSteps
  <2>2. CASE m = 2
    BY <1>0, <2>2
  <2>3. CASE m = 3
    BY <1>1, <1>2, <1>3, <1>4, <2>3, PlanSteps DEF Made, Asked, After, Sessions
  <2>4. CASE m = 6
    BY <1>1, <1>2, <1>3, <1>4, <2>4, PlanSteps DEF Made, Asked, After, Sessions
  <2> QED
    BY <2>1, <2>2, <2>3, <2>4
<1>5. CASE d \in Remotes
  <2>1. m = 2 \/ m = 3 \/ m = 7 \/ m = 8 \/ m = 12 \/ m = 13
    <3>1. \/ m = 1 \/ m = 2 \/ m = 3 \/ m = 4 \/ m = 5 \/ m = 6 \/ m = 7 \/ m = 8 \/ m = 9
          \/ m = 10 \/ m = 11 \/ m = 12 \/ m = 13
      BY <1>5 DEF L
    <3> QED
      BY <1>1, <1>5, <3>1, PlanSteps, SMTT(30)
  <2>2. CASE m = 2
    BY <1>0, <2>2
  <2>3. CASE m = 3
    BY <1>1, <1>2, <1>3, <1>5, <2>3, PlanSteps DEF Made, Asked, After, Sessions
  <2>4. CASE m = 7
    <3>1. o = "open" /\ s = "native"
      BY <1>1, <1>5, <2>4, PlanSteps
    <3>2. Made(d, m) = <<"local">> /\ Made(d, m + 1) = <<"local", "native">>
      BY <1>5, <2>4 DEF Made
    <3>3. /\ Asked(d, m, s) = "none" /\ Asked(d, m + 1, s) = "open" /\ After(o, "none") = "open"
          /\ \A t \in Sessions : t # s => Asked(d, m + 1, t) = Asked(d, m, t)
      BY <1>5, <2>4, <3>1 DEF Asked, After, Sessions
    <3>4. {"local", "native"} = {"local"} \cup {"native"}
      OBVIOUS
    <3> QED
      BY <1>2, <1>3, <3>1, <3>2, <3>3, <3>4
  <2>5. CASE m = 8
    BY <1>1, <1>2, <1>3, <1>5, <2>5, PlanSteps DEF Made, Asked, After, Sessions
  <2>6. CASE m = 12
    BY <1>1, <1>2, <1>3, <1>5, <2>6, PlanSteps DEF Made, Asked, After, Sessions
  <2>7. CASE m = 13
    BY <1>1, <1>2, <1>3, <1>5, <2>7, PlanSteps DEF Made, Asked, After, Sessions
  <2> QED
    BY <2>1, <2>2, <2>3, <2>4, <2>5, <2>6, <2>7
<1> QED
  BY <1>4, <1>5

\* What was made is a queue of sessions that have a state.
LEMMA Sessioned ==
  ASSUME NEW d, NEW m \in 1..(L(d) + 1)
  PROVE  /\ Made(d, m) \in Queues /\ Made(d, m) \in Seq(Sessions)
         /\ Of(Made(d, m)) \in SUBSET Sessions
         /\ \A s \in Sessions : /\ Asked(d, m, s) \in SrvStates
                                /\ s \notin Of(Made(d, m)) => Asked(d, m, s) = "none"
         /\ m = L(d) + 1 => /\ Made(d, m) # <<>>
                            /\ \A s \in Of(Made(d, m)) : Asked(d, m, s) = "accepted"
<1>1. /\ Of(<<>>) = {} /\ Of(<<"local">>) = {"local"} /\ Of(<<"local", "native">>) = {"local", "native"}
  BY DEF Of
<1>2. /\ <<>> \in Seq(Sessions) /\ <<"local">> \in Seq(Sessions)
      /\ <<"local", "native">> \in Seq(Sessions) /\ <<"local">> # <<>> /\ <<"local", "native">> # <<>>
  BY DEF Sessions
<1>3. m \in Nat /\ m <= L(d) + 1 /\ (d \in Remotes => L(d) = 13) /\ (d \notin Remotes => L(d) = 6)
  BY DEF L
<1>4. Made(d, m) \in {<<>>, <<"local">>, <<"local", "native">>}
  BY DEF Made
<1>5. /\ Made(d, m) \in Queues /\ Made(d, m) \in Seq(Sessions) /\ Of(Made(d, m)) \in SUBSET Sessions
  BY <1>1, <1>2, <1>4 DEF Queues, Sessions
<1>6. \A s \in Sessions : /\ Asked(d, m, s) \in SrvStates
                          /\ s \notin Of(Made(d, m)) => Asked(d, m, s) = "none"
  BY <1>1, <1>3 DEF Made, Asked, Sessions, SrvStates
<1>7. m = L(d) + 1 => /\ Made(d, m) # <<>>
                      /\ \A s \in Of(Made(d, m)) : Asked(d, m, s) = "accepted"
  BY <1>1, <1>2, <1>3 DEF Made, Asked
<1> QED
  BY <1>5, <1>6, <1>7

-----------------------------------------------------------------------------
(* One job                                                                 *)

LEMMA Fields ==
  ASSUME NEW j \in DemoType
  PROVE  /\ j.phase \in Phases /\ j.ok \in BOOLEAN /\ j.todo \in Seq(Steps)
         /\ j.made \in Seq(Sessions) /\ j.closing \in Seq(Sessions) /\ j.named \in SUBSET Sessions
BY DEF DemoType

LEMMA NextStep ==
  ASSUME NEW d, NEW j \in DemoType, OnPlan(d, j)
  PROVE  /\ Now(d, j) \in 1..L(d) /\ Head(j.todo) = P(d)[Now(d, j)] /\ L(d) \in Nat
         /\ Len(j.todo) \in Nat /\ (Len(j.todo) > 1 <=> Now(d, j) # L(d))
<1>1. j.todo \in Seq(Steps) /\ Len(j.todo) \in Nat /\ Len(j.todo) \in 1..L(d) /\ L(d) \in Nat
  BY Fields DEF OnPlan, L
<1>2. Head(j.todo) = j.todo[1] /\ 1 \in 1..Len(j.todo)
  BY <1>1
<1> QED
  BY <1>1, <1>2 DEF OnPlan, Now

\* A step of the plan is done, the last one or not.
LEMMA Advance ==
  ASSUME NEW d, NEW j \in DemoType, j.phase = "run", OnPlan(d, j), NEW v, NEW K, NEW q,
         Upto(d, Now(d, j) + 1, j, v),
         q["worker"] # "term", Runs(q["worker"]) => Now(d, j) + 1 \in 2..4
  PROVE  Advanced(j) \in DemoType /\ Good(d, Advanced(j), v, K) /\ Held(d, Advanced(j), q)
<1> PICK m : m = Now(d, j)
  OBVIOUS
<1> PICK n : n = m + 1
  OBVIOUS
<1>1. /\ m \in 1..L(d) /\ L(d) \in Nat /\ Len(j.todo) \in Nat
      /\ (Len(j.todo) > 1 <=> m # L(d)) /\ j.todo \in Seq(Steps)
  BY NextStep, Fields
<1>2. /\ j.made = Made(d, n) /\ j.named = Of(Made(d, n))
      /\ \A s \in Sessions : v[s] = Asked(d, n, s)
  BY DEF Upto
<1>3. CASE Len(j.todo) > 1
  <2> DEFINE y == [j EXCEPT !.todo = Tail(@)]
  <2>1. /\ Tail(j.todo) \in Seq(Steps) /\ Len(Tail(j.todo)) = Len(j.todo) - 1
        /\ \A k \in 1..(Len(j.todo) - 1) : Tail(j.todo)[k] = j.todo[k + 1]
    BY <1>1, <1>3
  <2>2. /\ y \in DemoType /\ y.todo = Tail(j.todo) /\ y.phase = "run"
        /\ y.made = j.made /\ y.named = j.named /\ Advanced(j) = y
    BY <1>3, <2>1 DEF DemoType, Advanced
  <2> HIDE DEF y
  <2>3. Len(y.todo) = Len(j.todo) - 1 /\ Len(y.todo) \in 1..L(d)
    BY <1>1, <1>3, <2>1, <2>2 DEF OnPlan
  <2>4. OnPlan(d, y)
    <3> SUFFICES ASSUME NEW k \in 1..Len(y.todo)
                 PROVE  y.todo[k] = P(d)[L(d) - Len(y.todo) + k]
      BY <2>3 DEF OnPlan
    <3>1. k + 1 \in 1..Len(j.todo) /\ L(d) - Len(y.todo) + k = L(d) - Len(j.todo) + (k + 1)
      BY <1>1, <2>3, SMTT(30)
    <3>2. y.todo[k] = j.todo[k + 1]
      BY <2>1, <2>2, <2>3
    <3> QED
      BY <3>1, <3>2 DEF OnPlan
  <2>5. Now(d, y) = n
    BY <1>1, <2>3 DEF Now
  <2> QED
    BY <1>2, <2>2, <2>4, <2>5 DEF Good, Upto, Held
<1>4. CASE ~(Len(j.todo) > 1)
  <2> DEFINE y == [j EXCEPT !.todo = <<>>, !.phase = "close", !.closing = j.made]
  <2>1. /\ y \in DemoType /\ y.phase = "close" /\ y.closing = j.made /\ Advanced(j) = y
        /\ y.made = j.made /\ y.named = j.named /\ y.ok = j.ok
    <3>1. <<>> \in Seq(Steps) /\ "close" \in Phases /\ j.made \in Seq(Sessions)
      BY Fields DEF Phases
    <3> QED
      BY <1>4, <3>1 DEF DemoType, Advanced
  <2> HIDE DEF y
  <2>2. n = L(d) + 1 /\ n \in 1..(L(d) + 1)
    BY <1>1, <1>4 DEF L
  <2>3. /\ Made(d, n) \in Queues /\ Made(d, n) \in Seq(Sessions)
        /\ Of(Made(d, n)) \in SUBSET Sessions
        /\ \A s \in Sessions : /\ Asked(d, n, s) \in SrvStates
                               /\ s \notin Of(Made(d, n)) => Asked(d, n, s) = "none"
        /\ n = L(d) + 1 => /\ Made(d, n) # <<>>
                           /\ \A s \in Of(Made(d, n)) : Asked(d, n, s) = "accepted"
    BY <2>2, Sessioned
  <2>4. Closing(d, y, v, K)
    BY <1>2, <2>1, <2>2, <2>3 DEF Closing
  <2>5. ~Runs(q["worker"])
    BY <2>2 DEF L
  <2> QED
    BY <2>1, <2>4, <2>5 DEF Good, Held
<1> QED
  BY <1>3, <1>4

\* A step fails: what was made is to be closed.
LEMMA Break ==
  ASSUME NEW d, NEW j \in DemoType, NEW q, NEW v, NEW K, j.made \in Queues, q["worker"] # "term",
         \A s \in Sessions : s \notin Of(j.made) => v[s] = "none",
         \A s \in Sessions : s \notin j.named => v[s] = "none" \/ <<d, s>> \in K
  PROVE  Broken(j, q) \in DemoType /\ Good(d, Broken(j, q), v, K) /\ Held(d, Broken(j, q), q)
<1> PICK p \in Phases : p = IF q["worker"] = "up" THEN "worker_exit" ELSE "close"
  BY DEF Phases
<1> DEFINE y == [j EXCEPT !.todo = <<>>, !.phase = p, !.closing = j.made, !.ok = FALSE]
<1>1. /\ y \in DemoType /\ y.phase = p /\ y.closing = j.made /\ Broken(j, q) = y
      /\ y.named = j.named /\ y.ok = FALSE
  <2>1. <<>> \in Seq(Steps) /\ j.made \in Seq(Sessions)
    BY Fields
  <2> QED
    BY <2>1 DEF DemoType, Broken
<1> HIDE DEF y
<1>2. Closing(d, y, v, K)
  BY <1>1 DEF Closing
<1> QED
  BY <1>1, <1>2 DEF Good, Held, Runs

\* The processes that a demo goes on with.
LEMMA Entered ==
  ASSUME NEW q \in Procs, NEW p
  PROVE  /\ Entering(q, p) \in Procs
         /\ \A x \in {"server", "adapter", "worker"} :
              /\ Entering(q, p)[x] \in {q[x], Terminated(q[x])}
              /\ Runs(Entering(q, p)[x]) <=> Runs(q[x])
         /\ p \notin {"worker_exit", "adapter_exit", "server_exit"} => Entering(q, p) = q
<1>1. /\ DOMAIN ProcessOf = {"worker_exit", "adapter_exit", "server_exit"}
      /\ ProcessOf["worker_exit"] = "worker" /\ ProcessOf["adapter_exit"] = "adapter"
      /\ ProcessOf["server_exit"] = "server"
  BY DEF ProcessOf
<1>2. \A x \in ProcStates : Terminated(x) \in ProcStates /\ (Runs(Terminated(x)) <=> Runs(x))
  BY DEF Terminated, ProcStates, Runs
<1>3. CASE p \notin DOMAIN ProcessOf
  BY <1>1, <1>3 DEF Entering
<1>4. CASE p \in DOMAIN ProcessOf
  <2> PICK z \in {"server", "adapter", "worker"} : z = ProcessOf[p]
    BY <1>1, <1>4
  <2>1. Entering(q, p) = [q EXCEPT ![z] = Terminated(q[z])]
    BY <1>4 DEF Entering
  <2> QED
    BY <1>1, <1>2, <1>4, <2>1 DEF Procs
<1> QED
  BY <1>3, <1>4

\* A demo's step leaves the others alone.
LEMMA Alone ==
  ASSUME JInv, NEW d \in Demos, NEW y \in DemoType, NEW q \in Procs,
         NEW v \in [Sessions -> SrvStates],
         demo' = [demo EXCEPT ![d] = y], proc' = [proc EXCEPT ![d] = q], srv' = [srv EXCEPT ![d] = v],
         \A e \in Demos, s \in Sessions : e # d => (<<e, s>> \in lost' <=> <<e, s>> \in lost),
         Good(d, y, v, lost'), Held(d, y, q), Served'
  PROVE  JInv'
<1>1. /\ demo \in [Demos -> DemoType] /\ proc \in [Demos -> Procs]
      /\ srv \in [Demos -> [Sessions -> SrvStates]]
  BY DEF JInv, JTypeOK
<1>2. JTypeOK'
  BY <1>1 DEF JInv, JTypeOK
<1>3. ASSUME NEW e \in Demos PROVE Good(e, demo'[e], srv'[e], lost') /\ Held(e, demo'[e], proc'[e])
  <2>1. CASE e = d
    BY <1>1, <2>1
  <2>2. CASE e # d
    <3>1. demo'[e] = demo[e] /\ srv'[e] = srv[e] /\ proc'[e] = proc[e]
      BY <1>1, <2>2
    <3>2. Good(e, demo[e], srv[e], lost) /\ Held(e, demo[e], proc[e])
      BY DEF JInv
    <3>3. Good(e, demo[e], srv[e], lost')
      <4>1. Closing(e, demo[e], srv[e], lost) => Closing(e, demo[e], srv[e], lost')
        BY <2>2 DEF Closing
      <4> QED
        BY <2>2, <3>2, <4>1 DEF Good
    <3> QED
      BY <3>1, <3>2, <3>3
  <2> QED
    BY <2>1, <2>2
<1> QED
  BY <1>2, <1>3 DEF JInv

\* A demo goes on, in its plan, out of it, or in its context managers: what is left to
\* show is that the phase suits the processes.
LEMMA GoKeeps ==
  ASSUME JInv, NEW d \in Demos, NEW y \in DemoType, NEW q \in Procs,
         NEW v \in [Sessions -> SrvStates],
         Go(d, y, q), srv' = [srv EXCEPT ![d] = v],
         \A e \in Demos, s \in Sessions : e # d => (<<e, s>> \in lost' <=> <<e, s>> \in lost),
         Good(d, y, v, lost'), Held(d, y, q), Served'
  PROVE  JInv'
<1> PICK p : p = y.phase
  OBVIOUS
<1>1. /\ Entering(q, p) \in Procs
      /\ \A x \in {"server", "adapter", "worker"} : Runs(Entering(q, p)[x]) <=> Runs(q[x])
      /\ p \notin {"worker_exit", "adapter_exit", "server_exit"} => Entering(q, p) = q
  BY Entered
<1>2. Held(d, y, Entering(q, p))
  BY <1>1 DEF Held
<1>3. demo' = [demo EXCEPT ![d] = y] /\ proc' = [proc EXCEPT ![d] = Entering(q, p)]
  BY DEF Go
<1> QED
  BY <1>1, <1>2, <1>3, Alone

-----------------------------------------------------------------------------
(* The steps of a demo                                                     *)

\* A demo in its plan, about to take step m.
LEMMA Running ==
  ASSUME JInv, NEW d \in Demos, demo[d].phase = "run"
  PROVE  /\ demo[d] \in DemoType /\ OnPlan(d, demo[d])
         /\ Now(d, demo[d]) \in 1..L(d) /\ Head(demo[d].todo) = P(d)[Now(d, demo[d])]
         /\ Upto(d, Now(d, demo[d]), demo[d], srv[d])
         /\ srv[d] \in [Sessions -> SrvStates] /\ proc[d] \in Procs
         /\ proc[d]["worker"] # "term" /\ (Runs(proc[d]["worker"]) => Now(d, demo[d]) \in 2..4)
         /\ Made(d, Now(d, demo[d])) \in Queues
         /\ \A s \in Sessions : s \notin Of(demo[d].made) => srv[d][s] = "none"
         /\ srv = [srv EXCEPT ![d] = srv[d]] /\ Served
<1>1. /\ demo[d] \in DemoType /\ OnPlan(d, demo[d]) /\ Upto(d, Now(d, demo[d]), demo[d], srv[d])
      /\ srv[d] \in [Sessions -> SrvStates] /\ proc[d] \in Procs
      /\ srv = [srv EXCEPT ![d] = srv[d]] /\ Served
  BY DEF JInv, JTypeOK, Good
<1>2. proc[d]["worker"] # "term" /\ (Runs(proc[d]["worker"]) => Now(d, demo[d]) \in 2..4)
  BY DEF JInv, Held
<1> PICK m \in 1..L(d) : m = Now(d, demo[d])
  BY <1>1, NextStep
<1>3. m \in 1..(L(d) + 1)
  BY DEF L
<1>4. /\ Made(d, m) \in Queues
      /\ \A s \in Sessions : s \notin Of(Made(d, m)) => Asked(d, m, s) = "none"
  BY <1>3, Sessioned
<1> QED
  BY <1>1, <1>2, <1>4, NextStep DEF Upto

\* Steps that concern no session: they succeed, or the job breaks off.
LEMMA QuietKeeps ==
  ASSUME JInv, NEW d \in Demos, demo[d].phase = "run", NEW q \in Procs, q["worker"] # "term",
         Head(demo[d].todo).do \notin {"open", "request", "submit"},
         \/ Go(d, Advanced(demo[d]), q) /\ (Runs(q["worker"]) => Now(d, demo[d]) + 1 \in 2..4)
         \/ Go(d, Broken(demo[d], q), q),
         UNCHANGED sessions, Served'
  PROVE  JInv'
<1> PICK j \in DemoType : j = demo[d]
  BY DEF JInv, JTypeOK
<1> PICK m : m = Now(d, j)
  OBVIOUS
<1> PICK v : v = srv[d]
  OBVIOUS
<1>1. /\ OnPlan(d, j) /\ m \in 1..L(d) /\ Head(j.todo) = P(d)[m] /\ Upto(d, m, j, v)
      /\ v \in [Sessions -> SrvStates]
      /\ Made(d, m) \in Queues /\ \A s \in Sessions : s \notin Of(j.made) => v[s] = "none"
      /\ srv = [srv EXCEPT ![d] = v]
  BY Running
<1>2. srv' = [srv EXCEPT ![d] = v] /\ lost' = lost
  BY <1>1 DEF sessions
<1>3. /\ Made(d, m + 1) = Made(d, m)
      /\ \A s \in Sessions : Asked(d, m + 1, s) = Asked(d, m, s)
  BY <1>1, Where
<1>4. CASE Go(d, Advanced(j), q) /\ (Runs(q["worker"]) => m + 1 \in 2..4)
  <2>1. Upto(d, m + 1, j, v)
    BY <1>1, <1>3 DEF Upto
  <2>2. Advanced(j) \in DemoType /\ Good(d, Advanced(j), v, lost') /\ Held(d, Advanced(j), q)
    BY <1>1, <1>4, <2>1, Advance
  <2> QED
    BY <1>1, <1>2, <1>4, <2>2, GoKeeps
<1>5. CASE Go(d, Broken(j, q), q)
  <2>1. j.made \in Queues /\ Of(j.made) = j.named
    BY <1>1 DEF Upto
  <2>2. Broken(j, q) \in DemoType /\ Good(d, Broken(j, q), v, lost') /\ Held(d, Broken(j, q), q)
    <3>1. \A s \in Sessions : s \notin j.named => v[s] = "none" \/ <<d, s>> \in lost'
      BY <1>1, <2>1
    <3> QED
      BY <1>1, <2>1, <3>1, Break
  <2> QED
    BY <1>1, <1>2, <1>5, <2>2, GoKeeps
<1> QED
  BY <1>4, <1>5

LEMMA WorkerKeeps ==
  ASSUME JInv, NEW d \in Demos, StartWorker(d) \/ Execute(d) \/ Decode(d) PROVE JInv'
<1> PICK m : m = Now(d, demo[d])
  OBVIOUS
<1> PICK q : q = proc[d]
  OBVIOUS
<1>1. demo[d].phase = "run" /\ Head(demo[d].todo).do \in {"worker", "execute", "decode"}
  BY DEF StartWorker, Execute, Decode, Doing
<1>2. /\ m \in 1..L(d) /\ Head(demo[d].todo) = P(d)[m] /\ L(d) \in Nat /\ q \in Procs
      /\ q["worker"] # "term" /\ (Runs(q["worker"]) => m \in 2..4)
  BY <1>1, Running DEF L
<1>3. UNCHANGED sessions /\ Served'
  BY DEF StartWorker, Execute, Decode, service, JInv, Served
<1>4. \A s \in {"none", "up"} : /\ [q EXCEPT !["worker"] = s] \in Procs
                               /\ [q EXCEPT !["worker"] = s]["worker"] = s
  BY <1>2 DEF Procs, ProcStates
<1>5. CASE StartWorker(d)
  <2>1. m = 1 /\ m + 1 \in 2..4
    <3>1. m = 1
      BY <1>2, <1>5, Where DEF StartWorker, Doing
    <3> QED
      BY <1>2, <3>1
  <2>2. CASE Go(d, Advanced(demo[d]), [q EXCEPT !["worker"] = "up"])
    <3> PICK r \in Procs : r = [q EXCEPT !["worker"] = "up"] /\ r["worker"] = "up"
      BY <1>4
    <3> QED
      BY <1>1, <1>3, <2>1, <2>2, QuietKeeps
  <2>3. ASSUME NEW s \in {"none", "up"}, NEW r, r = [q EXCEPT !["worker"] = s], Go(d, Broken(demo[d], r), r)
        PROVE  JInv'
    <3>1. r \in Procs /\ r["worker"] # "term"
      BY <1>4, <2>3
    <3> QED
      BY <1>1, <1>3, <2>3, <3>1, QuietKeeps
  <2> QED
    BY <1>5, <2>2, <2>3 DEF StartWorker
<1>6. CASE Execute(d)
  <2>1. CASE Go(d, Advanced(demo[d]), [q EXCEPT !["worker"] = "none"])
    <3> PICK r \in Procs : r = [q EXCEPT !["worker"] = "none"] /\ r["worker"] = "none"
      BY <1>4
    <3>1. ~Runs(r["worker"])
      BY DEF Runs
    <3> QED
      BY <1>1, <1>3, <2>1, <3>1, QuietKeeps
  <2>2. ASSUME NEW s \in {"none", "up"}, NEW r, r = [q EXCEPT !["worker"] = s], Go(d, Broken(demo[d], r), r)
        PROVE  JInv'
    <3>1. r \in Procs /\ r["worker"] # "term"
      BY <1>4, <2>2
    <3> QED
      BY <1>1, <1>3, <2>2, <3>1, QuietKeeps
  <2> QED
    BY <1>6, <2>1, <2>2 DEF Execute
<1>7. CASE Decode(d)
  <2>1. m # 1 /\ m # 2 /\ m # 3 /\ m # 4
    BY <1>2, <1>7, Where DEF Decode, Doing
  <2>2. ~Runs(q["worker"])
    BY <1>2, <2>1
  <2> QED
    BY <1>1, <1>2, <1>3, <1>7, <2>2, QuietKeeps DEF Decode
<1> QED
  BY <1>5, <1>6, <1>7

LEMMA RemoteKeeps == ASSUME JInv, NEW d \in Demos, Remote(d) PROVE JInv'
<1> PICK m : m = Now(d, demo[d])
  OBVIOUS
<1> PICK q : q = proc[d]
  OBVIOUS
<1>1. /\ demo[d].phase = "run"
      /\ Head(demo[d].todo).do \in {"connect", "rhello", "rsend", "results"}
  BY DEF Remote, Doing
<1>2. q \in Procs /\ q["worker"] # "term" /\ ~Runs(q["worker"])
  <2>1. /\ m \in 1..L(d) /\ Head(demo[d].todo) = P(d)[m] /\ L(d) \in Nat /\ q \in Procs
        /\ q["worker"] # "term" /\ (Runs(q["worker"]) => m \in 2..4)
    BY <1>1, Running DEF L
  <2>2. m # 1 /\ m # 2 /\ m # 3 /\ m # 4
    BY <1>1, <2>1, Where
  <2> QED
    BY <2>1, <2>2
<1>3. /\ UNCHANGED sessions
      /\ Go(d, Advanced(demo[d]), q) \/ Go(d, Broken(demo[d], q), q)
  BY DEF Remote
<1>4. Served'
  <2>1. /\ task \in [Demos -> TaskStates] /\ remote \in [Demos -> ProcStates]
        /\ \A e \in Demos : /\ remote[e] = "up" => task[e] \in {"hello", "command", "exec"}
                            /\ remote[e] = "term" => task[e] = "stopping" \/ e \in cut
        /\ (svc = "open" => cut = {}) /\ cut' = cut /\ svc' = svc
    BY DEF Remote, JInv, Served
  <2>2. CASE task' = task /\ remote' = remote
    BY <2>1, <2>2 DEF Served
  <2>3. CASE task' = [task EXCEPT ![d] = "hello"] /\ remote' = [remote EXCEPT ![d] = "up"]
    BY <2>1, <2>3 DEF Served, TaskStates, ProcStates
  <2>4. CASE /\ svc = "open" /\ task[d] = "none" /\ remote' = remote
             /\ \E t \in {"leaving", "gone"} : task' = [task EXCEPT ![d] = t]
    BY <2>1, <2>4 DEF Served, TaskStates
  <2> QED
    BY <2>2, <2>3, <2>4 DEF Remote
<1> QED
  BY <1>1, <1>2, <1>3, <1>4, QuietKeeps

LEMMA ExchangeKeeps == ASSUME JInv, NEW d \in Demos, Exchange(d) PROVE JInv'
<1> PICK j \in DemoType : j = demo[d]
  BY DEF JInv, JTypeOK
<1> PICK m : m = Now(d, j)
  OBVIOUS
<1> PICK v : v = srv[d]
  OBVIOUS
<1> PICK q : q = proc[d]
  OBVIOUS
<1> PICK o : o = Head(j.todo).do
  OBVIOUS
<1> PICK s : s = Head(j.todo).s
  OBVIOUS
<1>1. /\ OnPlan(d, j) /\ m \in 1..L(d) /\ Head(j.todo) = P(d)[m] /\ Upto(d, m, j, v)
      /\ v \in [Sessions -> SrvStates] /\ q \in Procs /\ q["worker"] # "term"
      /\ \A t \in Sessions : t \notin Of(j.made) => v[t] = "none"
      /\ srv = [srv EXCEPT ![d] = v] /\ j.phase = "run" /\ (Runs(q["worker"]) => m \in 2..4)
  BY Running DEF Exchange
<1>2. o \in {"open", "request", "submit"} /\ o = P(d)[m].do /\ s = P(d)[m].s
  BY <1>1 DEF Exchange
<1>3. s \in Sessions /\ m # 1 /\ m # 4
  BY <1>1, <1>2, Where
<1> PICK n : n = m + 1
  OBVIOUS
<1>4. /\ Asked(d, n, s) = After(o, Asked(d, m, s))
      /\ \A t \in Sessions : t # s => Asked(d, n, t) = Asked(d, m, t)
      /\ o = "open" => Made(d, n) = Append(Made(d, m), s)
      /\ o # "open" => Made(d, n) = Made(d, m)
      /\ Of(Made(d, n)) = IF o = "open" THEN Of(Made(d, m)) \cup {s} ELSE Of(Made(d, m))
  <2>1. m \in 1..L(d) /\ P(d)[m].do \in {"open", "request", "submit"}
    BY <1>1, <1>2
  <2>2. AnswerOf(d, m, o, s)
    BY <1>2, <2>1, Exchanged
  <2> QED
    BY <2>2 DEF AnswerOf
<1>5. n \in 1..(L(d) + 1) /\ (Runs(q["worker"]) => n \in 2..4)
  BY <1>1, <1>3 DEF L
<1>6. /\ Made(d, n) \in Queues /\ Made(d, n) \in Seq(Sessions) /\ Of(Made(d, n)) \in SUBSET Sessions
      /\ \A t \in Sessions : Asked(d, n, t) \in SrvStates
      /\ \A t \in Sessions : t \notin Of(Made(d, n)) => Asked(d, n, t) = "none"
  BY <1>5, Sessioned
<1> DEFINE j2 == [j EXCEPT !.made = IF o = "open" THEN Append(@, s) ELSE @]
           z == [j2 EXCEPT !.named = IF o = "open" THEN @ \cup {s} ELSE @]
           x == [v EXCEPT ![s] = After(o, @)]
           heard == [srv EXCEPT ![d][s] = After(o, @)]
<1>7. j.made = Made(d, m) /\ j.named = Of(Made(d, m)) /\ \A t \in Sessions : v[t] = Asked(d, m, t)
  BY <1>1 DEF Upto
<1>8. /\ j2 = [j EXCEPT !.made = Made(d, n)] /\ j2 \in DemoType
      /\ j2.made = Made(d, n) /\ j2.named = j.named
  BY <1>4, <1>6, <1>7, ZenonT(30) DEF DemoType
<1>9. /\ z = [j EXCEPT !.made = Made(d, n), !.named = Of(Made(d, n))] /\ z \in DemoType
      /\ z.made = Made(d, n) /\ z.named = Of(Made(d, n)) /\ z.todo = j.todo /\ z.phase = "run"
  <2>1. z = [j EXCEPT !.made = Made(d, n), !.named = Of(Made(d, n))]
    <3>1. j2 = [j EXCEPT !.made = Made(d, n)] /\ j2.named = Of(Made(d, m))
      BY <1>7, <1>8
    <3> HIDE DEF j2
    <3>2. CASE o = "open"
      <4>1. Of(Made(d, n)) = Of(Made(d, m)) \cup {s}
        BY <1>4, <3>2
      <4>2. z = [j2 EXCEPT !.named = Of(Made(d, n))]
        BY <3>1, <3>2, <4>1
      <4> QED
        BY <3>1, <4>2 DEF DemoType
    <3>3. CASE o # "open"
      <4>1. Of(Made(d, n)) = Of(Made(d, m))
        BY <1>4, <3>3
      <4>2. z = [j2 EXCEPT !.named = Of(Made(d, n))]
        BY <3>1, <3>3, <4>1
      <4> QED
        BY <3>1, <4>2 DEF DemoType
    <3> QED
      BY <3>2, <3>3
  <2> HIDE DEF z
  <2> QED
    BY <1>1, <1>6, <2>1 DEF DemoType
<1>10. /\ x \in [Sessions -> SrvStates] /\ \A t \in Sessions : x[t] = Asked(d, n, t)
       /\ heard = [srv EXCEPT ![d] = x]
  <2>1. /\ \A t \in Sessions : x[t] = IF t = s THEN After(o, v[s]) ELSE v[t]
        /\ x = [t \in Sessions |-> x[t]]
    BY <1>1, <1>3
  <2>2. \A t \in Sessions : x[t] = Asked(d, n, t)
    BY <1>3, <1>4, <1>7, <2>1
  <2>3. heard = [srv EXCEPT ![d] = x]
    BY <1>1
  <2>4. x \in [Sessions -> SrvStates]
    <3>1. \A t \in Sessions : x[t] \in SrvStates
      BY <1>6, <2>2
    <3> HIDE DEF x
    <3> QED
      BY <2>1, <3>1
  <2> QED
    BY <2>2, <2>3, <2>4
<1>11. Served'
  BY DEF Exchange, JInv, service, Served
<1>12. \/ srv' = heard /\ lost' = lost /\ Go(d, Advanced(z), q)
       \/ Go(d, Broken(j2, q), q) /\ UNCHANGED sessions
       \/ /\ Go(d, Broken(j2, q), q)
          /\ lost' = lost \cup {<<d, s>>} /\ srv' \in {srv, heard}
  BY DEF Exchange
<1> HIDE DEF j2, z, x, heard
<1>13. CASE srv' = heard /\ lost' = lost /\ Go(d, Advanced(z), q)
  <2>1. OnPlan(d, z) /\ Now(d, z) + 1 = n
    BY <1>1, <1>9 DEF OnPlan, Now
  <2>2. Upto(d, n, z, x)
    BY <1>9, <1>10 DEF Upto
  <2>3. Advanced(z) \in DemoType /\ Good(d, Advanced(z), x, lost') /\ Held(d, Advanced(z), q)
    <3>1. /\ z \in DemoType /\ z.phase = "run" /\ OnPlan(d, z) /\ Upto(d, Now(d, z) + 1, z, x)
          /\ q["worker"] # "term" /\ (Runs(q["worker"]) => Now(d, z) + 1 \in 2..4)
      BY <1>1, <1>5, <1>9, <2>1, <2>2
    <3> QED
      BY <3>1, Advance
  <2> QED
    BY <1>1, <1>10, <1>11, <1>13, <2>3, GoKeeps
<1>14. Of(Made(d, m)) \subseteq Of(Made(d, n))
  BY <1>4
<1>15. CASE Go(d, Broken(j2, q), q) /\ UNCHANGED sessions
  <2>1. /\ \A t \in Sessions : t \notin Of(j2.made) => v[t] = "none"
        /\ \A t \in Sessions : t \notin j2.named => v[t] = "none" \/ <<d, t>> \in lost'
    BY <1>1, <1>7, <1>8, <1>14
  <2>2. j2.made \in Queues
    BY <1>6, <1>8
  <2>3. Broken(j2, q) \in DemoType /\ Good(d, Broken(j2, q), v, lost') /\ Held(d, Broken(j2, q), q)
    <3>1. j2 \in DemoType
      BY <1>8
    <3> QED
      BY <1>1, <2>1, <2>2, <3>1, Break
  <2>4. srv' = [srv EXCEPT ![d] = v] /\ lost' = lost
    BY <1>1, <1>15 DEF sessions
  <2> QED
    BY <1>1, <1>11, <1>15, <2>3, <2>4, GoKeeps
<1>16. CASE /\ Go(d, Broken(j2, q), q)
            /\ lost' = lost \cup {<<d, s>>} /\ srv' \in {srv, heard}
  <2>1. PICK w \in {v, x} : srv' = [srv EXCEPT ![d] = w]
    BY <1>1, <1>10, <1>16
  <2>2. w \in [Sessions -> SrvStates] /\ \A t \in Sessions : t # s => w[t] = v[t]
    BY <1>1, <1>4, <1>7, <1>10, <2>1
  <2>3. /\ \A t \in Sessions : t \notin Of(j2.made) => w[t] = "none"
        /\ \A t \in Sessions : t \notin j2.named => w[t] = "none" \/ <<d, t>> \in lost'
    BY <1>1, <1>6, <1>7, <1>8, <1>10, <1>14, <1>16, <2>1, <2>2
  <2>4. j2.made \in Queues
    BY <1>6, <1>8
  <2>5. Broken(j2, q) \in DemoType /\ Good(d, Broken(j2, q), w, lost') /\ Held(d, Broken(j2, q), q)
    <3>1. j2 \in DemoType /\ q["worker"] # "term"
      BY <1>1, <1>8
    <3> PICK K : K = lost'
      OBVIOUS
    <3>2. Broken(j2, q) \in DemoType /\ Good(d, Broken(j2, q), w, K) /\ Held(d, Broken(j2, q), q)
      BY <2>3, <2>4, <3>1, Break
    <3> QED
      BY <3>2
  <2>6. \A e \in Demos, t \in Sessions : e # d => (<<e, t>> \in lost' <=> <<e, t>> \in lost)
    BY <1>16
  <2> QED
    BY <1>1, <1>11, <1>16, <2>1, <2>2, <2>5, <2>6, GoKeeps
<1> QED
  BY <1>12, <1>13, <1>15, <1>16

LEMMA QueueStep ==
  ASSUME NEW c \in Queues, c # <<>>
  PROVE  /\ Head(c) \in Sessions /\ Tail(c) \in Queues /\ Tail(c) \in Seq(Sessions)
         /\ Of(Tail(c)) = Of(c) \ {Head(c)} /\ Head(c) \in Of(c) /\ Of(c) \subseteq Sessions
<1>1. /\ Of(<<>>) = {} /\ Of(<<"local">>) = {"local"} /\ Of(<<"native">>) = {"native"}
      /\ Of(<<"local", "native">>) = {"local", "native"}
  BY DEF Of
<1>2. /\ Tail(<<"local">>) = <<>> /\ Tail(<<"native">>) = <<>>
      /\ Tail(<<"local", "native">>) = <<"native">>
      /\ Head(<<"local">>) = "local" /\ Head(<<"native">>) = "native"
      /\ Head(<<"local", "native">>) = "local"
      /\ <<>> \in Seq(Sessions) /\ <<"native">> \in Seq(Sessions)
  BY DEF Sessions
<1>3. CASE c = <<"local">>
  BY <1>1, <1>2, <1>3 DEF Queues, Sessions
<1>4. CASE c = <<"native">>
  BY <1>1, <1>2, <1>4 DEF Queues, Sessions
<1>5. CASE c = <<"local", "native">>
  BY <1>1, <1>2, <1>5 DEF Queues, Sessions
<1> QED
  BY <1>3, <1>4, <1>5 DEF Queues
\* A session is closed, or is left behind: it has no id, BYE was heard, or a datagram of
\* it was lost and the close failed.
ClosedOne(j, f) == [j EXCEPT !.closing = Tail(j.closing), !.ok = j.ok /\ ~f]
ByeTried(d, j, f, s, v, w, K, K2) ==
  /\ j.phase = "close" /\ j.closing # <<>> /\ s = Head(j.closing) /\ f \in BOOLEAN
  /\ Closing(d, j, v, K) /\ K \subseteq K2
  /\ \A t \in Sessions : t # s => w[t] = v[t]
  /\ \/ s \notin j.named /\ w = v
     \/ s \in j.named /\ w[s] = After("bye", v[s])
     \/ s \in j.named /\ f /\ <<d, s>> \in K2

LEMMA CloseOne ==
  ASSUME NEW d, NEW j \in DemoType, NEW f, NEW s, NEW v, NEW w, NEW K, NEW K2,
         ByeTried(d, j, f, s, v, w, K, K2)
  PROVE  /\ ClosedOne(j, f) \in DemoType /\ ClosedOne(j, f).phase = "close"
         /\ Good(d, ClosedOne(j, f), w, K2)
<1>0. /\ j.phase = "close" /\ j.closing # <<>> /\ s = Head(j.closing) /\ f \in BOOLEAN
      /\ Closing(d, j, v, K) /\ K \subseteq K2
      /\ \A t \in Sessions : t # s => w[t] = v[t]
      /\ \/ s \notin j.named /\ w = v
         \/ s \in j.named /\ w[s] = After("bye", v[s])
         \/ s \in j.named /\ f /\ <<d, s>> \in K2
  BY DEF ByeTried
<1> PICK c : c = j.closing
  OBVIOUS
<1>1. /\ c \in Queues /\ c # <<>> /\ s = Head(c)
      /\ \A t \in Sessions : t \notin Of(c) => v[t] \in {"none", "done", "gone"} \/ <<d, t>> \in K
      /\ \A t \in Sessions : t \notin j.named => v[t] = "none" \/ <<d, t>> \in K
      /\ j.ok => /\ j.made # <<>>
                 /\ \A t \in Of(j.made) : /\ t \in j.named
                                          /\ t \in Of(c) => v[t] = "accepted"
                                          /\ t \notin Of(c) => v[t] = "done"
  BY <1>0 DEF Closing
<1>2. /\ s \in Sessions /\ Tail(c) \in Queues /\ Tail(c) \in Seq(Sessions)
      /\ Of(Tail(c)) = Of(c) \ {s} /\ s \in Of(c)
  BY <1>1, QueueStep
<1> PICK y : y = ClosedOne(j, f)
  OBVIOUS
<1>3. /\ y \in DemoType /\ y.phase = "close" /\ y.closing = Tail(c) /\ y.made = j.made
      /\ y.named = j.named
  <2>1. (j.ok /\ ~f) \in BOOLEAN
    BY <1>0
  <2> QED
    BY <1>0, <1>2, <2>1 DEF DemoType, ClosedOne
<1>4. y.ok => j.ok /\ ~f
  BY DEF DemoType, ClosedOne
<1>5. /\ After("bye", v[s]) \in {"done", "gone"}
      /\ v[s] = "accepted" => After("bye", v[s]) = "done"
  BY DEF After
<1>6. \A t \in Sessions : t \notin Of(Tail(c)) => w[t] \in {"none", "done", "gone"} \/ <<d, t>> \in K2
  BY <1>0, <1>1, <1>2, <1>5
<1>7. \A t \in Sessions : t \notin y.named => w[t] = "none" \/ <<d, t>> \in K2
  BY <1>0, <1>1, <1>2, <1>3
<1>8. Of(j.made) \subseteq Sessions
  BY Fields DEF Of
<1>9. y.ok => /\ y.made # <<>>
              /\ \A t \in Of(y.made) : /\ t \in y.named
                                       /\ t \in Of(y.closing) => w[t] = "accepted"
                                       /\ t \notin Of(y.closing) => w[t] = "done"
  BY <1>0, <1>1, <1>2, <1>3, <1>4, <1>5, <1>8
<1>10. Closing(d, y, w, K2)
  BY <1>1, <1>2, <1>3, <1>6, <1>7, <1>9 DEF Closing
<1>11. Good(d, y, w, K2)
  BY <1>3, <1>10 DEF Good
<1> QED
  BY <1>3, <1>11

LEMMA CloseSessionKeeps == ASSUME JInv, NEW d \in Demos, CloseSession(d) PROVE JInv'
<1> PICK j \in DemoType : j = demo[d]
  BY DEF JInv, JTypeOK
<1> PICK v : v = srv[d]
  OBVIOUS
<1> PICK q : q = proc[d]
  OBVIOUS
<1> PICK s : s = Head(j.closing)
  OBVIOUS
<1>1. /\ j.phase = "close" /\ j.closing # <<>> /\ Good(d, j, v, lost) /\ Held(d, j, q)
      /\ v \in [Sessions -> SrvStates] /\ q \in Procs
      /\ demo \in [Demos -> DemoType] /\ srv \in [Demos -> [Sessions -> SrvStates]]
      /\ srv = [srv EXCEPT ![d] = v] /\ proc = [proc EXCEPT ![d] = q]
  BY DEF CloseSession, JInv, JTypeOK
<1>2. Closing(d, j, v, lost) /\ j.closing \in Queues
  BY <1>1 DEF Good, Closing
<1>3. s \in Sessions
  BY <1>1, <1>2, QueueStep
<1> DEFINE x == [v EXCEPT ![s] = After("bye", @)]
           bye == [srv EXCEPT ![d][s] = After("bye", @)]
<1>4. /\ x \in [Sessions -> SrvStates] /\ x[s] = After("bye", v[s])
      /\ \A t \in Sessions : t # s => x[t] = v[t]
      /\ bye = [srv EXCEPT ![d] = x]
  <2>1. After("bye", v[s]) \in SrvStates
    BY DEF After, SrvStates
  <2> QED
    BY <1>1, <1>3, <2>1
<1>5. proc' = [proc EXCEPT ![d] = q] /\ Served'
  BY <1>1 DEF CloseSession, JInv, service, Served
<1>6. \/ s \notin j.named /\ demo' = [demo EXCEPT ![d] = ClosedOne(j, FALSE)] /\ srv' = srv /\ lost' = lost
      \/ /\ s \in j.named /\ srv' = bye /\ lost' = lost
         /\ \E f \in BOOLEAN : demo' = [demo EXCEPT ![d] = ClosedOne(j, f)]
      \/ /\ s \in j.named /\ lost' = lost \cup {<<d, s>>} /\ srv' \in {srv, bye}
         /\ demo' = [demo EXCEPT ![d] = ClosedOne(j, TRUE)]
  BY DEF CloseSession, LeftToClose, sessions, ClosedOne
<1> HIDE DEF x, bye
<1>7. \E f \in BOOLEAN, w \in {v, x} :
         /\ demo' = [demo EXCEPT ![d] = ClosedOne(j, f)] /\ srv' = [srv EXCEPT ![d] = w]
         /\ \/ s \notin j.named /\ w = v
            \/ s \in j.named /\ w[s] = After("bye", v[s])
            \/ s \in j.named /\ f /\ <<d, s>> \in lost'
  <2>1. CASE s \notin j.named /\ demo' = [demo EXCEPT ![d] = ClosedOne(j, FALSE)] /\ srv' = srv
    BY <1>1, <2>1
  <2>2. CASE s \in j.named /\ srv' = bye /\ \E f \in BOOLEAN : demo' = [demo EXCEPT ![d] = ClosedOne(j, f)]
    BY <1>4, <2>2
  <2>3. CASE /\ s \in j.named /\ lost' = lost \cup {<<d, s>>} /\ srv' \in {srv, bye}
             /\ demo' = [demo EXCEPT ![d] = ClosedOne(j, TRUE)]
    <3>1. PICK w \in {v, x} : srv' = [srv EXCEPT ![d] = w]
      BY <1>1, <1>4, <2>3
    <3> QED
      BY <2>3, <3>1
  <2> QED
    BY <1>6, <2>1, <2>2, <2>3
<1>8. PICK f \in BOOLEAN, w \in {v, x} :
         /\ demo' = [demo EXCEPT ![d] = ClosedOne(j, f)] /\ srv' = [srv EXCEPT ![d] = w]
         /\ \/ s \notin j.named /\ w = v
            \/ s \in j.named /\ w[s] = After("bye", v[s])
            \/ s \in j.named /\ f /\ <<d, s>> \in lost'
  BY <1>7
<1>9. /\ w \in [Sessions -> SrvStates] /\ \A t \in Sessions : t # s => w[t] = v[t]
  BY <1>1, <1>4
<1>10. /\ lost \subseteq lost'
       /\ \A e \in Demos, t \in Sessions : e # d => (<<e, t>> \in lost' <=> <<e, t>> \in lost)
  BY <1>6
<1>11. /\ ClosedOne(j, f) \in DemoType /\ ClosedOne(j, f).phase = "close"
       /\ Good(d, ClosedOne(j, f), w, lost')
  <2>1. PICK K : K = lost
    OBVIOUS
  <2>2. PICK K2 : K2 = lost'
    OBVIOUS
  <2>3. ByeTried(d, j, f, s, v, w, K, K2)
    BY <1>1, <1>2, <1>8, <1>9, <1>10, <2>1, <2>2 DEF ByeTried
  <2> QED
    BY <2>2, <2>3, CloseOne
<1>12. Held(d, ClosedOne(j, f), q)
  BY <1>1, <1>11 DEF Held
<1> QED
  BY <1>1, <1>5, <1>8, <1>9, <1>10, <1>11, <1>12, Alone

\* Steps that change only the demo's own record and processes.
LEMMA OwnKeeps ==
  ASSUME JInv, NEW d \in Demos, NEW y \in DemoType, NEW q \in Procs, Go(d, y, q),
         UNCHANGED <<sessions, service>>, Good(d, y, srv[d], lost), Held(d, y, q)
  PROVE  JInv'
<1> PICK v \in [Sessions -> SrvStates] : v = srv[d]
  BY DEF JInv, JTypeOK
<1>1. srv' = [srv EXCEPT ![d] = v] /\ lost' = lost /\ Served'
  BY DEF JInv, JTypeOK, sessions, service, Served
<1> QED
  BY <1>1, GoKeeps

LEMMA StartDaemonKeeps ==
  ASSUME JInv, NEW d \in Demos, NEW x \in {"server", "adapter"}, StartDaemon(d, x) PROVE JInv'
<1> PICK j \in DemoType : j = demo[d]
  BY DEF JInv, JTypeOK
<1> PICK v : v = srv[d]
  OBVIOUS
<1> PICK q \in Procs : q = proc[d]
  BY DEF JInv, JTypeOK
<1>1. j.phase = x /\ Good(d, j, v, lost) /\ Held(d, j, q) /\ UNCHANGED <<sessions, service>>
  BY DEF StartDaemon, JInv
<1>2. /\ j.made = <<>> /\ j.closing = <<>> /\ j.named = {}
      /\ \A s \in Sessions : v[s] = "none"
  BY <1>1 DEF Good
<1>3. /\ ~Runs(q["worker"]) /\ ~Runs(q["adapter"]) /\ (x = "server" => ~Runs(q["server"]))
  BY <1>1 DEF Held
<1> DEFINE a == [j EXCEPT !.phase = "adapter"]
           r == [j EXCEPT !.phase = "run", !.todo = P(d)]
           b(p) == [j EXCEPT !.phase = p, !.ok = FALSE]
           t(s) == [q EXCEPT ![x] = s]
<1>4. P(d) \in Seq(Steps) /\ Len(P(d)) = L(d)
  BY PlanSteps
<1>5. /\ a \in DemoType /\ a.phase = "adapter" /\ a.made = <<>> /\ a.closing = <<>> /\ a.named = {}
      /\ r \in DemoType /\ r.phase = "run" /\ r.made = <<>> /\ r.named = {} /\ r.todo = P(d)
  <2>1. "adapter" \in Phases /\ "run" \in Phases
    BY DEF Phases
  <2> QED
    BY <1>2, <1>4, <2>1 DEF DemoType
<1>6. \A p \in {"adapter_exit", "server_exit", "end"} : b(p) \in DemoType /\ b(p).phase = p
  BY DEF DemoType, Phases
<1>7. \A s \in {"up", "none"} :
        /\ t(s) \in Procs /\ t(s)[x] = s
        /\ \A y \in {"server", "adapter", "worker"} : y # x => t(s)[y] = q[y]
  BY DEF Procs, ProcStates
<1>8. \/ x = "server" /\ Go(d, a, t("up"))
      \/ x = "adapter" /\ Go(d, r, t("up"))
      \/ x = "server" /\ Go(d, b("end"), q)
      \/ x = "adapter" /\ Go(d, b("server_exit"), q)
      \/ x = "server" /\ \E s \in {"up", "none"} : Go(d, b("server_exit"), t(s))
      \/ x = "adapter" /\ \E s \in {"up", "none"} : Go(d, b("adapter_exit"), t(s))
  BY DEF StartDaemon, P
<1> HIDE DEF a, r, b, t
<1>9. ~Runs("none")
  BY DEF Runs
<1>10. ASSUME x = "server", Go(d, a, t("up")) PROVE JInv'
  <2>1. Good(d, a, v, lost)
    BY <1>2, <1>5 DEF Good
  <2>2. Held(d, a, t("up"))
    BY <1>3, <1>5, <1>7, <1>10 DEF Held
  <2> QED
    BY <1>1, <1>5, <1>7, <1>10, <2>1, <2>2, OwnKeeps
<1>11. ASSUME x = "adapter", Go(d, r, t("up")) PROVE JInv'
  <2>1. L(d) \in Nat /\ 1 \in 1..L(d) /\ L(d) \in 1..L(d) /\ L(d) - L(d) + 1 = 1
        /\ \A k \in 1..L(d) : L(d) - L(d) + k = k
    BY DEF L
  <2>2. OnPlan(d, r) /\ Now(d, r) = 1
    BY <1>4, <1>5, <2>1 DEF OnPlan, Now
  <2>3. /\ Made(d, 1) = <<>> /\ Of(<<>>) = {} /\ \A s \in Sessions : Asked(d, 1, s) = "none"
    BY DEF Made, Asked, Of
  <2>4. Upto(d, 1, r, v)
    BY <1>2, <1>5, <2>3 DEF Upto
  <2>5. Good(d, r, v, lost)
    BY <1>5, <2>2, <2>4 DEF Good
  <2>6. Held(d, r, t("up"))
    BY <1>3, <1>5, <1>7, <1>11 DEF Held, Runs
  <2> QED
    BY <1>1, <1>5, <1>7, <1>11, <2>5, <2>6, OwnKeeps
<1>12. \A p \in {"adapter_exit", "server_exit", "end"} : Good(d, b(p), v, lost)
  BY <1>6 DEF Good
<1>13. ASSUME NEW p \in {"server_exit", "end"}, p = "end" => x = "server", Go(d, b(p), q) PROVE JInv'
  <2>1. Held(d, b(p), q)
    BY <1>3, <1>6 , <1>13 DEF Held
  <2> QED
    BY <1>1, <1>6, <1>12, <1>13, <2>1, OwnKeeps
<1>14. ASSUME NEW p \in {"adapter_exit", "server_exit"}, p = "server_exit" => x = "server",
              NEW s \in {"up", "none"}, Go(d, b(p), t(s))
       PROVE  JInv'
  <2>1. Held(d, b(p), t(s))
    BY <1>3, <1>6, <1>7, <1>9, <1>14 DEF Held
  <2> QED
    BY <1>1, <1>6, <1>7, <1>12, <1>14, <2>1, OwnKeeps
<1> QED
  BY <1>8, <1>10, <1>11, <1>13, <1>14

LEMMA ServerDiesKeeps == ASSUME JInv, NEW d \in Demos, ServerDies(d) PROVE JInv'
<1> PICK j \in DemoType : j = demo[d]
  BY DEF JInv, JTypeOK
<1> PICK v : v = srv[d]
  OBVIOUS
<1> PICK q \in Procs : q = proc[d]
  BY DEF JInv, JTypeOK
<1> DEFINE y == [j EXCEPT !.ok = FALSE]
           t == [q EXCEPT !["server"] = "none"]
<1>1. /\ y \in DemoType /\ y.phase = j.phase /\ y.closing = j.closing /\ y.made = j.made
      /\ y.named = j.named /\ y.todo = j.todo /\ y.ok = FALSE
  BY DEF DemoType
<1>2. t \in Procs /\ t["worker"] = q["worker"] /\ t["adapter"] = q["adapter"] /\ t["server"] = "none"
  BY DEF Procs, ProcStates
<1>3. /\ Go(d, y, t) /\ j.phase \in {"run", "worker_exit", "close"} /\ UNCHANGED <<sessions, service>>
      /\ Good(d, j, v, lost) /\ Held(d, j, q)
  BY DEF ServerDies, JInv
<1> HIDE DEF y, t
<1>4. Good(d, y, v, lost)
  <2>1. CASE j.phase = "run"
    BY <1>1, <1>3, <2>1 DEF Good, OnPlan, Now, Upto
  <2>2. CASE j.phase \in {"worker_exit", "close"}
    BY <1>1, <1>3, <2>2 DEF Good, Closing
  <2> QED
    BY <1>3, <2>1, <2>2
<1>5. Held(d, y, t)
  BY <1>1, <1>2, <1>3 DEF Held, Now
<1> QED
  BY <1>1, <1>2, <1>3, <1>4, <1>5, OwnKeeps

LEMMA DiesKeeps ==
  ASSUME JInv, NEW d \in Demos, NEW x \in {"server", "adapter", "worker"}, Dies(d, x) PROVE JInv'
<1> PICK j \in DemoType : j = demo[d]
  BY DEF JInv, JTypeOK
<1> PICK v \in [Sessions -> SrvStates] : v = srv[d]
  BY DEF JInv, JTypeOK
<1> PICK q \in Procs : q = proc[d]
  BY DEF JInv, JTypeOK
<1> DEFINE t == [q EXCEPT ![x] = "none"]
<1>1. /\ t \in Procs /\ t[x] = "none"
      /\ \A y \in {"server", "adapter", "worker"} : y # x => t[y] = q[y]
  BY DEF Procs, ProcStates
<1>2. /\ proc' = [proc EXCEPT ![d] = t] /\ demo' = [demo EXCEPT ![d] = j]
      /\ srv' = [srv EXCEPT ![d] = v] /\ lost' = lost /\ Served'
      /\ Good(d, j, v, lost) /\ Held(d, j, q)
  BY DEF Dies, JInv, JTypeOK, sessions, service, Served
<1> HIDE DEF t
<1>3. Held(d, j, t)
  BY <1>1, <1>2 DEF Held, Runs
<1> QED
  BY <1>1, <1>2, <1>3, Alone

\* A process is killed, or its block is left: then it was killed or is gone, and the
\* next block finds what it needs.
LEMMA ExitContextKeeps == ASSUME JInv, NEW d \in Demos, ExitContext(d) PROVE JInv'
<1> PICK j \in DemoType : j = demo[d]
  BY DEF JInv, JTypeOK
<1> PICK v \in [Sessions -> SrvStates] : v = srv[d]
  BY DEF JInv, JTypeOK
<1> PICK q \in Procs : q = proc[d]
  BY DEF JInv, JTypeOK
<1> PICK x : x = ProcessOf[j.phase]
  OBVIOUS
<1>1. \/ j.phase = "worker_exit" /\ x = "worker" /\ Outer[j.phase] = "close"
      \/ j.phase = "adapter_exit" /\ x = "adapter" /\ Outer[j.phase] = "server_exit"
      \/ j.phase = "server_exit" /\ x = "server" /\ Outer[j.phase] = "end"
  BY DEF ExitContext, ProcessOf, Outer
<1>2. Good(d, j, v, lost) /\ Held(d, j, q) /\ UNCHANGED <<sessions, service>>
  BY DEF ExitContext, JInv
<1>3. CASE q[x] = "term" /\ proc' = [proc EXCEPT ![d][x] = "kill"] /\ UNCHANGED demo
  <2> DEFINE t == [q EXCEPT ![x] = "kill"]
  <2>1. /\ t \in Procs /\ t[x] = "kill"
        /\ \A y \in {"server", "adapter", "worker"} : y # x => t[y] = q[y]
    BY <1>1 DEF Procs, ProcStates
  <2>2. /\ proc' = [proc EXCEPT ![d] = t] /\ demo' = [demo EXCEPT ![d] = j]
        /\ srv' = [srv EXCEPT ![d] = v] /\ lost' = lost /\ Served'
    BY <1>2, <1>3 DEF JInv, JTypeOK, sessions, service, Served
  <2> HIDE DEF t
  <2>3. Held(d, j, t)
    BY <1>1, <1>2, <2>1 DEF Held, Runs
  <2> QED
    BY <1>2, <2>1, <2>2, <2>3, Alone
<1>4. ASSUME NEW fine \in BOOLEAN, q[x] \in {"kill", "none"}, Left(d, fine) PROVE JInv'
  <2> PICK p \in Phases : p = Outer[j.phase]
    BY <1>1 DEF Phases
  <2> PICK ok \in BOOLEAN : ok = (j.ok /\ fine)
    BY DEF DemoType
  <2> DEFINE y == [j EXCEPT !.phase = p, !.ok = ok]
             t == [q EXCEPT ![x] = "none"]
  <2>1. /\ y \in DemoType /\ y.phase = p /\ y.closing = j.closing /\ y.made = j.made
        /\ y.named = j.named /\ y.ok = ok
    BY DEF DemoType
  <2>2. /\ t \in Procs /\ t[x] = "none"
        /\ \A z \in {"server", "adapter", "worker"} : z # x => t[z] = q[z]
    BY <1>1 DEF Procs, ProcStates
  <2>3. Go(d, y, t)
    <3>1. Forgotten(q[x]) = "none"
      BY <1>4 DEF Forgotten
    <3>2. t = [q EXCEPT ![x] = Forgotten(@)]
      BY <3>1
    <3>3. y = [j EXCEPT !.phase = Outer[@], !.ok = @ /\ fine]
      OBVIOUS
    <3> QED
      BY <1>4, <3>2, <3>3 DEF Left
  <2> HIDE DEF y, t
  <2>4. Good(d, y, v, lost)
    <3>1. CASE j.phase = "worker_exit"
      BY <1>1, <1>2, <2>1, <3>1 DEF Good, Closing
    <3>2. CASE j.phase # "worker_exit"
      BY <1>1, <2>1, <3>2 DEF Good
    <3> QED
      BY <3>1, <3>2
  <2>5. Held(d, y, t)
    BY <1>1, <1>2, <2>1, <2>2 DEF Held, Runs
  <2> QED
    BY <1>2, <2>1, <2>2, <2>3, <2>4, <2>5, OwnKeeps
<1> QED
  <2>1. \/ q[x] = "term" /\ proc' = [proc EXCEPT ![d][x] = "kill"] /\ UNCHANGED demo
        \/ \E fine \in BOOLEAN : q[x] \in {"kill", "none"} /\ Left(d, fine)
    BY DEF ExitContext
  <2> QED
    BY <1>3, <1>4, <2>1

LEMMA JobEndsKeeps == ASSUME JInv, NEW d \in Demos, JobEnds(d) PROVE JInv'
<1> PICK ok \in BOOLEAN : ok = demo[d].ok
  BY DEF JInv, JTypeOK, DemoType
<1> PICK q \in Procs : q = proc[d]
  BY DEF JInv, JTypeOK
<1> DEFINE y == [NewDemo EXCEPT !.phase = "adapter_exit", !.ok = ok]
           v == [s \in Sessions |-> "none"]
<1>1. y \in DemoType /\ y.phase = "adapter_exit"
  <2>1. /\ "adapter_exit" \in Phases /\ <<>> \in Seq(Steps) /\ <<>> \in Seq(Sessions)
        /\ {} \in SUBSET Sessions
    BY DEF Phases
  <2> QED
    BY <2>1 DEF NewDemo, DemoType
<1>2. v \in [Sessions -> SrvStates]
  BY DEF SrvStates
<1>3. /\ Go(d, y, q) /\ srv' = [srv EXCEPT ![d] = v] /\ Served' /\ Held(d, demo[d], q)
      /\ demo[d].phase = "close"
  BY DEF JobEnds, JInv, service, Served
<1>4. \A e \in Demos, s \in Sessions : e # d => (<<e, s>> \in lost' <=> <<e, s>> \in lost)
  BY DEF JobEnds
<1> HIDE DEF y, v
<1>5. Good(d, y, v, lost') /\ Held(d, y, q)
  BY <1>1, <1>3 DEF Good, Held
<1> QED
  BY <1>1, <1>2, <1>3, <1>4, <1>5, GoKeeps

-----------------------------------------------------------------------------
(* The steps of the service, and the theorems                              *)

LEMMA ServiceKeeps ==
  ASSUME JInv, (\E d \in Demos : ServiceStep(d) \/ RemoteDies(d)) \/ Stop PROVE JInv'
<1>1. /\ task \in [Demos -> TaskStates] /\ remote \in [Demos -> ProcStates]
      /\ \A e \in Demos : /\ remote[e] = "up" => task[e] \in {"hello", "command", "exec"}
                          /\ remote[e] = "term" => task[e] = "stopping" \/ e \in cut
      /\ svc = "open" => cut = {}
  BY DEF JInv, Served
<1>2. UNCHANGED <<demo, proc, srv, lost>>
  BY DEF ServiceStep, Handle, HandleFails, HandleStops, HandleLeaves, RemoteDies, Stop, sessions
<1>3. Served'
  <2>1. ASSUME NEW d \in Demos, Handle(d) PROVE Served'
    BY <1>1, <2>1 DEF Handle, Served, TaskStates, ProcStates
  <2>2. ASSUME NEW d \in Demos, HandleFails(d) PROVE Served'
    BY <1>1, <2>2 DEF HandleFails, Served, TaskStates, ProcStates
  <2>3. ASSUME NEW d \in Demos, HandleStops(d) PROVE Served'
    BY <1>1, <2>3 DEF HandleStops, Forgotten, Served, TaskStates, ProcStates
  <2>4. ASSUME NEW d \in Demos, HandleLeaves(d) PROVE Served'
    BY <1>1, <2>4 DEF HandleLeaves, Served, TaskStates
  <2>5. ASSUME NEW d \in Demos, RemoteDies(d) PROVE Served'
    BY <1>1, <2>5 DEF RemoteDies, Served, ProcStates
  <2>6. CASE Stop
    <3>1. /\ svc = "open" /\ svc' = "closed"
          /\ task' = [d \in Demos |-> CASE task[d] \in {"hello", "command", "exec"} -> "stopping"
                                        [] task[d] = "stopping" -> "leaving"
                                        [] task[d] = "leaving" -> "gone"
                                        [] OTHER -> task[d]]
          /\ remote' = [d \in Demos |-> Forgotten(Terminated(remote[d]))]
          /\ cut' = {d \in Demos : task[d] = "stopping" /\ remote[d] = "term"}
      BY <2>6 DEF Stop
    <3>2. task' \in [Demos -> TaskStates]
      BY <1>1, <3>1 DEF TaskStates
    <3>3. \A y \in ProcStates : /\ Forgotten(Terminated(y)) \in ProcStates \ {"up"}
                                /\ Forgotten(Terminated(y)) = "term" => y \in {"up", "term"}
      BY DEF Forgotten, Terminated, ProcStates
    <3>4. /\ remote' \in [Demos -> ProcStates]
          /\ \A e \in Demos : remote'[e] # "up" /\ (remote'[e] = "term" => remote[e] \in {"up", "term"})
      BY <1>1, <3>1, <3>3
    <3>5. ASSUME NEW e \in Demos, remote'[e] = "term" PROVE task'[e] = "stopping" \/ e \in cut'
      <4>1. task[e] \in {"hello", "command", "exec"} \/ (task[e] = "stopping" /\ remote[e] = "term")
        BY <1>1, <3>1, <3>4, <3>5
      <4> QED
        BY <3>1, <4>1
    <3> QED
      BY <3>1, <3>2, <3>4, <3>5 DEF Served
  <2> QED
    BY <2>1, <2>2, <2>3, <2>4, <2>5, <2>6 DEF ServiceStep
<1>4. JTypeOK'
  BY <1>2 DEF JInv, JTypeOK
<1>5. \A d \in Demos : Good(d, demo'[d], srv'[d], lost') /\ Held(d, demo'[d], proc'[d])
  BY <1>2 DEF JInv
<1> QED
  BY <1>3, <1>4, <1>5 DEF JInv

LEMMA JInitOK == ASSUME JInit PROVE JInv
<1>1. NewDemo \in DemoType
  <2>1. "server" \in Phases /\ <<>> \in Seq(Steps) /\ <<>> \in Seq(Sessions) /\ {} \in SUBSET Sessions
    BY DEF Phases
  <2> QED
    BY <2>1 DEF NewDemo, DemoType
<1>2. JTypeOK
  BY <1>1 DEF JInit, JTypeOK, SrvStates, Procs, ProcStates
<1>3. /\ NewDemo.phase = "server" /\ NewDemo.made = <<>> /\ NewDemo.closing = <<>>
      /\ NewDemo.named = {}
  BY DEF NewDemo
<1>4. \A d \in Demos : Good(d, NewDemo, srv[d], lost) /\ Held(d, NewDemo, proc[d])
  BY <1>3 DEF JInit, Good, Held, Runs
<1>5. Served
  BY DEF JInit, Served, TaskStates, ProcStates
<1> QED
  BY <1>2, <1>4, <1>5 DEF JInv, JInit

LEMMA JNextOK == ASSUME JInv, [JNext]_jvars PROVE JInv'
<1>1. CASE UNCHANGED jvars
  <2>1. UNCHANGED <<demo, proc, srv, lost, svc, task, remote, cut>>
    BY <1>1 DEF jvars
  <2>2. JTypeOK' /\ Served'
    BY <2>1 DEF JInv, JTypeOK, Served
  <2>3. \A d \in Demos : Good(d, demo'[d], srv'[d], lost') /\ Held(d, demo'[d], proc'[d])
    BY <2>1 DEF JInv
  <2> QED
    BY <2>2, <2>3 DEF JInv
<1>2. CASE (\E d \in Demos : ServiceStep(d) \/ RemoteDies(d)) \/ Stop
  BY <1>2, ServiceKeeps
<1>3. ASSUME NEW d \in Demos, DemoStep(d) \/ ServerDies(d) PROVE JInv'
  BY <1>3, StartDaemonKeeps, ExitContextKeeps, WorkerKeeps, ExchangeKeeps, RemoteKeeps,
     CloseSessionKeeps, JobEndsKeeps, ServerDiesKeeps DEF DemoStep
<1>4. ASSUME NEW d \in Demos, NEW x \in {"server", "adapter", "worker"}, Dies(d, x) PROVE JInv'
  BY <1>4, DiesKeeps
<1> QED
  BY <1>1, <1>2, <1>3, <1>4 DEF JNext

\* Whatever fails in whichever order, for any number of demos and any limit of the
\* service: a running job's sessions are where its plan says, one that closes is owed a
\* BYE for every session that may be open, and every process that runs has the block or
\* the handler that is to stop it.
THEOREM JobsInvariant == JSpec => []JInv
<1>1. JInit => JInv
  BY JInitOK
<1>2. JInv /\ [JNext]_jvars => JInv'
  BY JNextOK
<1> QED
  BY <1>1, <1>2, PTL DEF JSpec

\* The context managers of worker() and daemon() stop what they started before they are
\* left, whichever step fails and whether a process heeds SIGTERM, SIGKILL or neither:
\* no local worker runs outside its block, no daemon after its demo, and no remote
\* worker without a handler, unless close() cancelled the handler while it stopped it.
THEOREM NothingStrays == JSpec => []NoStray
<1>1. JInv => NoStray
  <2> SUFFICES ASSUME JInv, NEW d \in Demos
               PROVE  /\ Runs(proc[d]["worker"]) =>
                           \/ demo[d].phase = "worker_exit"
                           \/ /\ demo[d].phase = "run"
                              /\ Head(demo[d].todo) \in {St("open", "local"), St("request", "local"), St("execute", "-")}
                      /\ Runs(remote[d]) => task[d] \in {"hello", "command", "exec", "stopping"} \/ d \in cut
                      /\ demo[d].phase \in {"server_exit", "end"} => ~Runs(proc[d]["adapter"])
                      /\ demo[d].phase = "end" => ~Runs(proc[d]["server"])
    BY DEF NoStray
  <2>1. Held(d, demo[d], proc[d]) /\ Served
    BY DEF JInv
  <2>2. ASSUME demo[d].phase = "run", Now(d, demo[d]) \in 2..4
        PROVE  Head(demo[d].todo) \in {St("open", "local"), St("request", "local"), St("execute", "-")}
    <3>1. Head(demo[d].todo) = P(d)[Now(d, demo[d])]
      BY <2>2, Running
    <3>2. Now(d, demo[d]) = 2 \/ Now(d, demo[d]) = 3 \/ Now(d, demo[d]) = 4
      BY <2>2
    <3> QED
      BY <3>1, <3>2, PlanSteps
  <2>3. Runs(remote[d]) => task[d] \in {"hello", "command", "exec", "stopping"} \/ d \in cut
    BY <2>1 DEF Served, Runs
  <2> QED
    BY <2>1, <2>2, <2>3 DEF Held
<1> QED
  BY <1>1, JobsInvariant, PTL

\* run_job reports a job accepted only when the server has accepted the observation of
\* every session the job made and has confirmed the end of each.
THEOREM AcceptanceIsDecided == JSpec => []AcceptedIsDecided
<1>1. JInv => AcceptedIsDecided
  <2> SUFFICES ASSUME JInv, NEW d \in Demos, JobOver(d), demo[d].ok
               PROVE  /\ demo[d].made # <<>>
                      /\ \A i \in DOMAIN demo[d].made : srv[d][demo[d].made[i]] = "done"
    BY DEF AcceptedIsDecided
  <2>1. /\ demo[d] \in DemoType /\ demo[d].closing = <<>>
        /\ Closing(d, demo[d], srv[d], lost)
    BY DEF JInv, JTypeOK, Good, JobOver
  <2>2. Of(<<>>) = {}
    BY DEF Of
  <2>3. demo[d].made # <<>> /\ \A s \in Of(demo[d].made) : srv[d][s] = "done"
    BY <2>1, <2>2 DEF Closing
  <2>4. DOMAIN demo[d].made = 1..Len(demo[d].made)
    BY <2>1, Fields
  <2> QED
    BY <2>3, <2>4 DEF Of
<1> QED
  BY <1>1, JobsInvariant, PTL

\* The `finally' of run_job closes every session it made, even when an earlier close
\* failed: none stays open on a running server unless a datagram of its own was lost.
THEOREM NothingLeaks == JSpec => []NoLeak
<1>1. JInv => NoLeak
  <2> SUFFICES ASSUME JInv, NEW d \in Demos, NEW s \in Sessions, JobOver(d),
                      srv[d][s] \in {"open", "accepted"}
               PROVE  <<d, s>> \in lost
    BY DEF NoLeak
  <2>1. demo[d].closing = <<>> /\ Closing(d, demo[d], srv[d], lost)
    BY DEF JInv, Good, JobOver
  <2>2. Of(<<>>) = {}
    BY DEF Of
  <2> QED
    BY <2>1, <2>2 DEF Closing
<1> QED
  BY <1>1, JobsInvariant, PTL
=============================================================================
