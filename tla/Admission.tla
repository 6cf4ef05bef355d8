----------------------------- MODULE Admission -----------------------------
(***************************************************************************)
(* The permission registry of arena-admission/1: AdmissionRegistry and     *)
(* BoundChallenge of scripts/session_admission.py, on top of               *)
(* AttestationServer.submit of scripts/tpm_attestation.py.                 *)
(*                                                                         *)
(* Every section that runs under the registry lock or under a verifier's   *)
(* lock is one action.  A submit releases the registry lock while it       *)
(* verifies, so it is four actions of a worker thread, and every other     *)
(* operation and the clock may run between any two of them.                *)
(*                                                                         *)
(* Entry objects outlive the dictionary: `entry' holds every object ever   *)
(* created and `live' the admission ids that self.entries maps.            *)
(***************************************************************************)
EXTENDS Integers, FiniteSets

CONSTANTS Ids,          \* admission ids that secrets.token_hex may yield
          Challenges,   \* verifier objects that may be created
          Controllers,  \* certificates of game servers
          Attestors,    \* certificates of attesting clients
          Peers,        \* (game_session_id, peer_id) pairs
          Workers,      \* threads that may run a submit
          MAXIMUM,      \* self.maximum
          BINDING,      \* self.binding_ms
          CHALLENGE,    \* self.challenge_ms
          LEASE,        \* self.lease_ms
          MaxTime       \* bound of the model: the last instant of the clock

ASSUME RolesAssumption == Controllers \cap Attestors = {}

ASSUME LimitsAssumption == /\ MAXIMUM \in Nat \ {0}
                           /\ BINDING \in Nat \ {0}
                           /\ CHALLENGE \in Nat \ {0}
                           /\ LEASE \in Nat \ {0}
                           /\ MaxTime \in Nat

VARIABLES now,        \* self.clock()
          live,       \* the keys of self.entries
          entry,      \* every Entry object, by its admission id
          challenge,  \* every BoundChallenge object
          flight      \* what each worker thread holds while it submits

vars == <<now, live, entry, challenge, flight>>

NoOne == "none"
NoChallenge == "no_challenge"
NoId == "no_id"

ASSUME NullAssumption == NoChallenge \notin Challenges /\ NoId \notin Ids

States == {"REGISTERED", "CHALLENGED", "VERIFYING", "ALLOWED", "DENIED",
           "EXPIRED", "REVOKED"}

\* An id that no registration has drawn yet.
Unborn == [state |-> "UNBORN", controller |-> NoOne, attestor |-> NoOne,
           peer |-> NoOne, deadline |-> 0, lease_deadline |-> 0,
           challenge_deadline |-> 0, verifier |-> NoChallenge]

\* A verifier object not created yet. `issued', `attempts' and `passed' are
\* history: when the challenge was issued, how many submits were taken for it,
\* and whether its last one passed in time.
Unissued == [issued |-> 0, deadline |-> 0, used |-> FALSE, attempts |-> 0,
             passed |-> FALSE]

Idle == [phase |-> "idle", id |-> NoId, verifier |-> NoChallenge,
         decision |-> "none"]

Min2(a, b) == IF a < b THEN a ELSE b

-----------------------------------------------------------------------------
Init == /\ now = 0
        /\ live = {}
        /\ entry = [i \in Ids |-> Unborn]
        /\ challenge = [c \in Challenges |-> Unissued]
        /\ flight = [w \in Workers |-> Idle]

\* time.monotonic() advances while nothing, or anything, is going on.
Tick == /\ now < MaxTime
        /\ now' = now + 1
        /\ UNCHANGED <<live, entry, challenge, flight>>

-----------------------------------------------------------------------------
(* The registry's operations                                               *)

\* Mutant of Expire: only the binding ends.
ExpireBindingOnly(e) ==
  IF e.state # "REVOKED" /\ now >= e.deadline THEN [e EXCEPT !.state = "EXPIRED"] ELSE e

\* The state _status leaves behind: expiry is lazy, it happens here.
Expire(e) ==
  IF e.state # "REVOKED" /\ now >= e.deadline THEN [e EXCEPT !.state = "EXPIRED"]
  ELSE IF e.state = "ALLOWED" /\ now >= e.lease_deadline
       THEN [e EXCEPT !.state = "EXPIRED"]
       ELSE e

\* What _register keeps of self.entries, whether or not it then refuses.
Kept == {i \in live : now < entry[i].deadline /\ entry[i].state # "REVOKED"}

\* Mutant of Taken: an admission still in progress does not count.
TakenByAllowed(k, p) == \E i \in Kept : /\ entry[i].controller = k /\ entry[i].peer = p
                                       /\ entry[i].state = "ALLOWED"

Taken(k, p) == \E i \in Kept : entry[i].controller = k /\ entry[i].peer = p

Register(k, p, a) ==
  /\ ~Taken(k, p)
  /\ Cardinality(Kept) < MAXIMUM
  /\ \E i \in Ids :
       /\ entry[i].state = "UNBORN"
       /\ live' = Kept \cup {i}
       /\ entry' = [entry EXCEPT ![i] =
            Expire([Unborn EXCEPT !.state = "REGISTERED", !.controller = k,
                                  !.attestor = a, !.peer = p,
                                  !.deadline = now + BINDING])]
  /\ UNCHANGED <<now, challenge, flight>>

\* PEER_ALREADY_REGISTERED and ADMISSION_LIMIT: the pruning stays.
RegisterRefused(k, p) ==
  /\ Taken(k, p) \/ Cardinality(Kept) >= MAXIMUM
  /\ live' = Kept
  /\ UNCHANGED <<now, entry, challenge, flight>>

Status(k, i) ==
  /\ i \in live /\ entry[i].controller = k
  /\ entry' = [entry EXCEPT ![i] = Expire(entry[i])]
  /\ UNCHANGED <<now, live, challenge, flight>>

Revoke(k, i) ==
  /\ i \in live /\ entry[i].controller = k
  /\ entry' = [entry EXCEPT ![i] = Expire([entry[i] EXCEPT !.state = "REVOKED"])]
  /\ UNCHANGED <<now, live, challenge, flight>>

\* The guards that challenge and submit share.
Open(a, i) == /\ i \in live /\ entry[i].attestor = a
              /\ entry[i].state # "REVOKED"
              /\ now < entry[i].deadline

\* Mutant of Pending: a verification in progress is forgotten.
PendingUnsubmitted(i) ==
  entry[i].state = "CHALLENGED" /\ now < entry[i].challenge_deadline

\* CHALLENGE_PENDING: neither a verification nor a fresh challenge is replaced.
Pending(i) == \/ entry[i].state = "VERIFYING"
              \/ entry[i].state = "CHALLENGED" /\ now < entry[i].challenge_deadline

\* BoundChallenge(...).issue: a verifier of its own, with one session.
Issue(c) == [challenge EXCEPT ![c] = [Unissued EXCEPT !.issued = now,
                                                      !.deadline = now + CHALLENGE]]

Challenge(a, i) ==
  /\ Open(a, i)
  /\ ~Pending(i)
  /\ \E c \in Challenges :
       /\ challenge[c].deadline = 0
       /\ challenge' = Issue(c)
       /\ entry' = [entry EXCEPT ![i].verifier = c,
                                 ![i].state = "CHALLENGED",
                                 ![i].challenge_deadline = now + CHALLENGE]
  /\ UNCHANGED <<now, live, flight>>

\* The first locked section of submit.
SubmitBegin(w, a, i) ==
  /\ flight[w].phase = "idle"
  /\ Open(a, i)
  /\ entry[i].state = "CHALLENGED"
  /\ entry' = [entry EXCEPT ![i].state = "VERIFYING"]
  /\ flight' = [flight EXCEPT ![w] = [phase |-> "submitted", id |-> i,
                                      verifier |-> entry[i].verifier,
                                      decision |-> "none"]]
  /\ challenge' = [challenge EXCEPT ![entry[i].verifier].attempts = @ + 1]
  /\ UNCHANGED <<now, live>>

-----------------------------------------------------------------------------
(* AttestationServer.submit, with no registry lock held                    *)

Decide(w, d) == flight' = [flight EXCEPT ![w].phase = "decided", ![w].decision = d]

\* submit raises: INVALID_SCHEMA or INVALID_SESSION at once, or anything verify
\* does not expect of its tools.
VerifierRaise(w) ==
  /\ flight[w].phase \in {"submitted", "checking"}
  /\ Decide(w, "RAISED")
  /\ UNCHANGED <<now, live, entry, challenge>>

\* UNKNOWN_SESSION (evidence for another challenge), CHALLENGE_REUSED or
\* CHALLENGE_EXPIRED: denied under the verifier's lock, before any quote is read.
VerifierRefuse(w) ==
  /\ flight[w].phase = "submitted"
  /\ Decide(w, "DENY")
  /\ UNCHANGED <<now, live, entry, challenge>>

\* The evidence names this session: it is the challenge's one attempt.
VerifierAccept(w) ==
  LET c == flight[w].verifier IN
  /\ flight[w].phase = "submitted"
  /\ ~challenge[c].used
  /\ now < challenge[c].deadline
  /\ challenge' = [challenge EXCEPT ![c].used = TRUE]
  /\ flight' = [flight EXCEPT ![w].phase = "checking"]
  /\ UNCHANGED <<now, live, entry>>

\* QuoteVerifier.verify returns, or fails: the quote is good, is not (wrong
\* signature, nonce, PCRs, or malformed), or the tools break or time out. A good
\* quote still has to arrive before the challenge's deadline.
VerifierDecide(w) ==
  LET c == flight[w].verifier
      fresh == now < challenge[c].deadline
  IN
  /\ flight[w].phase = "checking"
  /\ \E outcome \in {"pass", "fail", "error"} :
       /\ Decide(w, CASE outcome = "error" -> "INDETERMINATE"
                      [] outcome = "pass" /\ fresh -> "ALLOW"
                      [] OTHER -> "DENY")
       /\ challenge' = [challenge EXCEPT ![c].passed = outcome = "pass" /\ fresh]
  /\ UNCHANGED <<now, live, entry>>

-----------------------------------------------------------------------------
(* The last locked section of submit                                       *)

Land(w) == flight' = [flight EXCEPT ![w] = Idle]

\* Mutant of Granted: the lease starts when the answer lands.
GrantedOnArrival(e, decision) ==
  [e EXCEPT !.state = IF decision = "ALLOW" THEN "ALLOWED" ELSE "DENIED",
            !.lease_deadline = Min2(e.deadline, now + LEASE)]

\* The lease starts when the challenge was issued, not when the answer landed.
Granted(e, decision) ==
  [e EXCEPT !.state = IF decision = "ALLOW" THEN "ALLOWED" ELSE "DENIED",
            !.lease_deadline = Min2(e.deadline,
                                    (e.challenge_deadline - CHALLENGE) + LEASE)]

\* ADMISSION_CLOSED unless the dictionary still maps the id to this object and
\* nobody has moved it on from VERIFYING.
Current(i) == i \in live /\ entry[i].state = "VERIFYING"

SubmitFinish(w) ==
  LET i == flight[w].id IN
  /\ flight[w].phase = "decided" /\ flight[w].decision # "RAISED"
  /\ entry' = IF Current(i)
              THEN [entry EXCEPT ![i] = Expire(Granted(entry[i], flight[w].decision))]
              ELSE entry
  /\ Land(w)
  /\ UNCHANGED <<now, live, challenge>>

\* Mutant of SubmitRaise: the exception passes without touching the entry.
SubmitRaiseForgets(w) ==
  /\ flight[w].phase = "decided" /\ flight[w].decision = "RAISED"
  /\ Land(w)
  /\ UNCHANGED <<now, live, entry, challenge>>

\* Mutant of SubmitRaise: the exception gives the challenge back.
SubmitRaiseReturns(w) ==
  LET i == flight[w].id IN
  /\ flight[w].phase = "decided" /\ flight[w].decision = "RAISED"
  /\ entry' = IF entry[i].state = "VERIFYING"
              THEN [entry EXCEPT ![i].state = "CHALLENGED"]
              ELSE entry
  /\ Land(w)
  /\ UNCHANGED <<now, live, challenge>>
\* submit raised: DENIED if still VERIFYING, and the exception goes on.
SubmitRaise(w) ==
  LET i == flight[w].id IN
  /\ flight[w].phase = "decided" /\ flight[w].decision = "RAISED"
  /\ entry' = IF entry[i].state = "VERIFYING"
              THEN [entry EXCEPT ![i].state = "DENIED"]
              ELSE entry
  /\ Land(w)
  /\ UNCHANGED <<now, live, challenge>>

-----------------------------------------------------------------------------
Verifier(w) == \/ VerifierRaise(w) \/ VerifierRefuse(w) \/ VerifierAccept(w)
               \/ VerifierDecide(w)

Worker(w) == Verifier(w) \/ SubmitFinish(w) \/ SubmitRaise(w)

Next ==
  \/ Tick
  \/ \E k \in Controllers, p \in Peers, a \in Attestors : Register(k, p, a)
  \/ \E k \in Controllers, p \in Peers : RegisterRefused(k, p)
  \/ \E k \in Controllers, i \in Ids : Status(k, i) \/ Revoke(k, i)
  \/ \E a \in Attestors, i \in Ids : Challenge(a, i)
  \/ \E w \in Workers, a \in Attestors, i \in Ids : SubmitBegin(w, a, i)
  \/ \E w \in Workers : Worker(w)

Spec == Init /\ [][Next]_vars

-----------------------------------------------------------------------------
(* Properties                                                              *)

EntryType ==
  [state : States \cup {"UNBORN"}, controller : Controllers \cup {NoOne},
   attestor : Attestors \cup {NoOne}, peer : Peers \cup {NoOne},
   deadline : Nat, lease_deadline : Int, challenge_deadline : Nat,
   verifier : Challenges \cup {NoChallenge}]

ChallengeType ==
  [issued : Nat, deadline : Nat, used : BOOLEAN, attempts : Nat, passed : BOOLEAN]

FlightType ==
  [phase : {"idle", "submitted", "checking", "decided"}, id : Ids \cup {NoId},
   verifier : Challenges \cup {NoChallenge},
   decision : {"none", "ALLOW", "DENY", "INDETERMINATE", "RAISED"}]

\* Every variable has its type.
TypeOK == /\ now \in Nat
          /\ live \subseteq Ids
          /\ entry \in [Ids -> EntryType]
          /\ challenge \in [Challenges -> ChallengeType]
          /\ flight \in [Workers -> FlightType]

\* The answer a status request would get at this instant.
Allows(i) == i \in live /\ Expire(entry[i]).state = "ALLOWED"

Closed(i) == i \notin live \/ entry[i].state = "REVOKED" \/ now >= entry[i].deadline

InFlight(i) == {w \in Workers : flight[w].phase # "idle" /\ flight[w].id = i}

\* An ALLOWED entry owes its state to its newest challenge: that challenge passed
\* while it was still valid, and the permission ends no later than LEASE after
\* the challenge was issued, and with the binding. A renewal suspends the old
\* permission, and a late verification does not prolong it (dispatch, "submit").
AllowedIsFresh ==
  \A i \in Ids : entry[i].state = "ALLOWED" =>
    LET c == entry[i].verifier IN
    /\ c \in Challenges
    /\ challenge[c].passed
    /\ entry[i].lease_deadline <= challenge[c].issued + LEASE
    /\ entry[i].lease_deadline <= entry[i].deadline

\* A challenge is submitted at most once, whatever the evidence: not again after
\* malformed evidence, an expired challenge or a failed tool.
OneAttempt == \A c \in Challenges : challenge[c].attempts <= 1

\* At most one thread verifies for an entry, so the state a thread finds
\* VERIFYING when it takes the lock again is the one it set itself; and what it
\* verifies nobody has verified before, also when the verifier raised.
SingleVerification == OneAttempt /\ \A i \in Ids : Cardinality(InFlight(i)) <= 1

\* A game server has at most one admission per connection in the dictionary, and
\* the dictionary stays within its limit (_register).
OneLivePerPeer ==
  /\ \A i, j \in live : /\ entry[i].controller = entry[j].controller
                        /\ entry[i].peer = entry[j].peer
                        => i = j
  /\ Cardinality(live) <= MAXIMUM

\* Revocation, expiry of the binding and pruning are final: whatever a thread
\* still has in flight, no later step answers ALLOWED for that admission.
ClosedIsFinal ==
  [][\A i \in Ids : entry[i].state # "UNBORN" /\ Closed(i)
                     => Closed(i)' /\ ~Allows(i)']_vars

\* Every verification of an entry in the dictionary comes to an end: no outcome
\* of the verifier leaves the entry stuck, refusing new challenges.
VerificationResolves ==
  \A i \in Ids : i \in live /\ entry[i].state = "VERIFYING"
                 ~> i \notin live \/ entry[i].state # "VERIFYING"

-----------------------------------------------------------------------------
(* What a game server sees of an admission is a permission with an end.    *)

Perm(i) == CASE entry[i].state = "REVOKED" -> "revoked"
             [] Allows(i) -> "granted"
             [] ~Closed(i) /\ entry[i].state \in {"CHALLENGED", "VERIFYING"} -> "asked"
             [] OTHER -> "none"

Until(i) == CASE Perm(i) = "granted" -> entry[i].lease_deadline
              [] Perm(i) = "asked" ->
                   Min2(entry[i].deadline, challenge[entry[i].verifier].issued + LEASE)
              [] OTHER -> 0

P == INSTANCE Permission WITH clock <- now, perm <- [i \in Ids |-> Perm(i)],
                              until <- [i \in Ids |-> Until(i)]

\* The registry, with its lazy expiry, its pruning and its unlocked verification,
\* implements permissions that end on time and are revoked for good.
ImplementsPermission == P!Spec

=============================================================================
