-------------------------- MODULE AdmissionProofs --------------------------
(***************************************************************************)
(* The registry's safety properties for any number of connections,         *)
(* challenges and threads and for all time limits, and that the service in *)
(* front of it keeps them, for any limits on its handlers.                 *)
(***************************************************************************)
EXTENDS AdmissionService, FiniteSetTheorems, TLAPS

(* The inductive invariant *)

\* An entry that waits for its challenge, or was allowed by it, still has it.
HasChallenge(i) ==
  /\ entry[i].state \in {"CHALLENGED", "VERIFYING", "ALLOWED"} =>
       /\ entry[i].verifier \in Challenges
       /\ entry[i].challenge_deadline = challenge[entry[i].verifier].issued + CHALLENGE
  /\ entry[i].verifier \in Challenges => challenge[entry[i].verifier].deadline # 0
  /\ entry[i].state = "UNBORN" => entry[i].verifier = NoChallenge

\* A challenge that is still waiting was not tried.
Untried(i) ==
  entry[i].state = "CHALLENGED" => challenge[entry[i].verifier].attempts = 0

Fresh(i) ==
  entry[i].state = "ALLOWED" =>
    /\ challenge[entry[i].verifier].passed
    /\ entry[i].lease_deadline <= challenge[entry[i].verifier].issued + LEASE
    /\ entry[i].lease_deadline <= entry[i].deadline

\* While a thread works for an entry nobody can challenge it again.
Held(w) ==
  flight[w].phase # "idle" =>
    LET i == flight[w].id IN
    /\ i \in Ids
    /\ flight[w].verifier \in Challenges
    /\ entry[i].verifier = flight[w].verifier
    /\ entry[i].state \in {"VERIFYING", "REVOKED", "EXPIRED"}
    /\ entry[i].state = "EXPIRED" => now >= entry[i].deadline
    /\ flight[w].decision = "ALLOW" =>
         flight[w].phase = "decided" /\ challenge[flight[w].verifier].passed

Alone == \A v, w \in Workers :
  flight[v].phase # "idle" /\ flight[w].phase # "idle" /\ flight[v].id = flight[w].id
    => v = w

OwnChallenge == \A i, j \in Ids :
  entry[i].verifier \in Challenges /\ entry[i].verifier = entry[j].verifier => i = j

LiveBorn == \A i \in live : entry[i].state # "UNBORN"

AInv == /\ TypeOK
        /\ \A i \in Ids : HasChallenge(i) /\ Untried(i) /\ Fresh(i)
        /\ \A w \in Workers : Held(w)
        /\ Alone
        /\ OwnChallenge
        /\ LiveBorn
        /\ OneAttempt

-----------------------------------------------------------------------------
LEMMA ExpireType ==
  ASSUME NEW e \in EntryType
  PROVE  /\ Expire(e) \in EntryType
         /\ Expire(e).verifier = e.verifier
         /\ Expire(e).deadline = e.deadline
         /\ Expire(e).lease_deadline = e.lease_deadline
         /\ Expire(e).challenge_deadline = e.challenge_deadline
         /\ Expire(e).controller = e.controller
         /\ Expire(e).peer = e.peer
         /\ Expire(e).state \in {e.state, "EXPIRED"}
         /\ e.state = "REVOKED" => Expire(e) = e
         /\ Expire(e).state # e.state =>
              now >= e.deadline \/ (e.state = "ALLOWED" /\ now >= e.lease_deadline)
BY DEF Expire, EntryType, States

LEMMA InitInv == Init => AInv
<1> SUFFICES ASSUME Init PROVE AInv
  OBVIOUS
<1>1. TypeOK
  <2>1. Unborn \in EntryType
    BY DEF Unborn, EntryType
  <2>2. Unissued \in ChallengeType
    BY DEF Unissued, ChallengeType
  <2>3. Idle \in FlightType
    BY DEF Idle, FlightType
  <2> QED
    BY <2>1, <2>2, <2>3 DEF Init, TypeOK
<1>2. \A i \in Ids : HasChallenge(i) /\ Untried(i) /\ Fresh(i)
  BY NullAssumption DEF Init, Unborn, HasChallenge, Untried, Fresh
<1>3. (\A w \in Workers : Held(w)) /\ Alone
  BY DEF Init, Idle, Held, Alone
<1>4. OwnChallenge /\ LiveBorn
  BY NullAssumption DEF Init, Unborn, OwnChallenge, LiveBorn
<1>5. OneAttempt
  BY DEF Init, Unissued, OneAttempt
<1> QED
  BY <1>1, <1>2, <1>3, <1>4, <1>5 DEF AInv

-----------------------------------------------------------------------------
(* Each action preserves the invariant                                     *)

LEMMA TickInv ==
  ASSUME AInv, Tick
  PROVE  AInv'
<1>1. /\ now' = now + 1 /\ live' = live /\ entry' = entry /\ challenge' = challenge
      /\ flight' = flight
  BY DEF Tick
<1>2. TypeOK'
  BY <1>1 DEF AInv, TypeOK
<1>3. \A i \in Ids : HasChallenge(i)' /\ Untried(i)' /\ Fresh(i)'
  BY <1>1 DEF AInv, HasChallenge, Untried, Fresh
<1>4. \A w \in Workers : Held(w)'
  <2> SUFFICES ASSUME NEW w \in Workers, flight[w].phase # "idle"
               PROVE  Held(w)'
    BY <1>1 DEF Held
  <2>1. Held(w) /\ flight[w].id \in Ids /\ now \in Nat
        /\ entry[flight[w].id] \in EntryType
    BY DEF AInv, Held, TypeOK
  <2>2. entry[flight[w].id].deadline \in Nat
    BY <2>1 DEF EntryType
  <2> QED
    BY <1>1, <2>1, <2>2 DEF Held
<1> QED
  BY <1>1, <1>2, <1>3, <1>4 DEF AInv, Alone, OwnChallenge, LiveBorn, OneAttempt

LEMMA RegisterInv ==
  ASSUME AInv, NEW k \in Controllers, NEW p \in Peers, NEW a \in Attestors,
         Register(k, p, a)
  PROVE  AInv'
<1> DEFINE e == [Unborn EXCEPT !.state = "REGISTERED", !.controller = k,
                               !.attestor = a, !.peer = p, !.deadline = now + BINDING]
<1>1. /\ now' = now /\ challenge' = challenge /\ flight' = flight
  BY DEF Register
<1>2. PICK i \in Ids : /\ entry[i].state = "UNBORN"
                       /\ live' = Kept \cup {i}
                       /\ entry' = [entry EXCEPT ![i] = Expire(e)]
  BY DEF Register
<1>3. /\ e \in EntryType /\ e.state = "REGISTERED" /\ e.verifier = NoChallenge
  <2>1. now + BINDING \in Nat
    BY LimitsAssumption DEF AInv, TypeOK
  <2>2. Unborn \in EntryType /\ Unborn.verifier = NoChallenge
    BY DEF Unborn, EntryType
  <2> QED
    BY <2>1, <2>2 DEF EntryType, States
<1> HIDE DEF e
<1>4. /\ Expire(e) \in EntryType /\ Expire(e).verifier = NoChallenge
      /\ Expire(e).state \in {"REGISTERED", "EXPIRED"}
  BY <1>3, ExpireType
<1>5. entry \in [Ids -> EntryType] /\ live \subseteq Ids
  BY DEF AInv, TypeOK
<1>6. TypeOK'
  BY <1>1, <1>2, <1>4, <1>5 DEF AInv, TypeOK, Kept
<1>7. \A j \in Ids : HasChallenge(j)' /\ Untried(j)' /\ Fresh(j)'
  BY <1>1, <1>2, <1>4, <1>5, NullAssumption DEF AInv, HasChallenge, Untried, Fresh
<1>8. \A w \in Workers : Held(w)'
  BY <1>1, <1>2, <1>4, <1>5 DEF AInv, Held
<1>9. OwnChallenge'
  BY <1>2, <1>4, <1>5, NullAssumption DEF AInv, OwnChallenge
<1>10. LiveBorn'
  BY <1>2, <1>4, <1>5 DEF AInv, LiveBorn, Kept
<1> QED
  BY <1>1, <1>6, <1>7, <1>8, <1>9, <1>10 DEF AInv, Alone, OneAttempt

LEMMA RefusedInv ==
  ASSUME AInv, NEW k \in Controllers, NEW p \in Peers, RegisterRefused(k, p)
  PROVE  AInv'
<1>1. /\ now' = now /\ entry' = entry /\ challenge' = challenge /\ flight' = flight
      /\ live' = Kept /\ Kept \subseteq live
  BY DEF RegisterRefused, Kept
<1> QED
  BY <1>1 DEF AInv, TypeOK, HasChallenge, Untried, Fresh, Held, Alone, OwnChallenge,
              LiveBorn, OneAttempt

\* An entry changes to a state that waits for nothing and allows nothing, or stays.
LEMMA CloseInv ==
  ASSUME AInv, NEW i \in Ids, NEW e \in EntryType,
         now' = now, live' = live, challenge' = challenge, flight' = flight,
         entry' = [entry EXCEPT ![i] = e],
         e.verifier = entry[i].verifier, e.deadline = entry[i].deadline,
         e = entry[i] \/ e.state \in {"EXPIRED", "REVOKED"},
         e.state = "EXPIRED" => \/ entry[i].state \in {"EXPIRED", "ALLOWED"}
                               \/ now >= entry[i].deadline
  PROVE  AInv'
<1>1. entry \in [Ids -> EntryType]
  BY DEF AInv, TypeOK
<1>2. TypeOK'
  BY <1>1 DEF AInv, TypeOK
<1>3. \A j \in Ids : HasChallenge(j)' /\ Untried(j)' /\ Fresh(j)'
  BY <1>1 DEF AInv, HasChallenge, Untried, Fresh
<1>4. \A w \in Workers : Held(w)'
  BY <1>1 DEF AInv, Held
<1>5. OwnChallenge' /\ LiveBorn'
  BY <1>1 DEF AInv, OwnChallenge, LiveBorn
<1> QED
  BY <1>2, <1>3, <1>4, <1>5 DEF AInv, Alone, OneAttempt

LEMMA StatusInv ==
  ASSUME AInv, NEW k \in Controllers, NEW i \in Ids, Status(k, i)
  PROVE  AInv'
<1>1. entry[i] \in EntryType
  BY DEF AInv, TypeOK
<1>2. /\ Expire(entry[i]) \in EntryType
      /\ Expire(entry[i]).verifier = entry[i].verifier
      /\ Expire(entry[i]).deadline = entry[i].deadline
      /\ Expire(entry[i]) = entry[i] \/ Expire(entry[i]).state = "EXPIRED"
      /\ Expire(entry[i]).state = "EXPIRED" =>
           entry[i].state \in {"EXPIRED", "ALLOWED"} \/ now >= entry[i].deadline
  BY <1>1, ExpireType DEF Expire
<1> QED
  BY <1>2, CloseInv DEF Status

LEMMA RevokeInv ==
  ASSUME AInv, NEW k \in Controllers, NEW i \in Ids, Revoke(k, i)
  PROVE  AInv'
<1> DEFINE e == [entry[i] EXCEPT !.state = "REVOKED"]
<1>1. entry[i] \in EntryType
  BY DEF AInv, TypeOK
<1>2. /\ e \in EntryType /\ e.state = "REVOKED"
      /\ e.verifier = entry[i].verifier /\ e.deadline = entry[i].deadline
  BY <1>1 DEF EntryType, States
<1>3. Expire(e) = e
  BY <1>2, ExpireType
<1> QED
  BY <1>2, <1>3, CloseInv DEF Revoke

LEMMA ChallengeInv ==
  ASSUME AInv, NEW a \in Attestors, NEW i \in Ids, Challenge(a, i)
  PROVE  AInv'
<1>1. now' = now /\ live' = live /\ flight' = flight
  BY DEF Challenge
<1>2. PICK c \in Challenges :
        /\ challenge[c].deadline = 0
        /\ challenge' = Issue(c)
        /\ entry' = [entry EXCEPT ![i].verifier = c, ![i].state = "CHALLENGED",
                                  ![i].challenge_deadline = now + CHALLENGE]
  BY DEF Challenge
<1> DEFINE e == [entry[i] EXCEPT !.verifier = c, !.state = "CHALLENGED",
                                 !.challenge_deadline = now + CHALLENGE]
           d == [Unissued EXCEPT !.issued = now, !.deadline = now + CHALLENGE]
<1>3. /\ entry \in [Ids -> EntryType] /\ challenge \in [Challenges -> ChallengeType]
      /\ now \in Nat /\ entry[i] \in EntryType
  BY DEF AInv, TypeOK
<1>4. entry' = [entry EXCEPT ![i] = e] /\ challenge' = [challenge EXCEPT ![c] = d]
  BY <1>2, <1>3 DEF Issue
<1>5. /\ e \in EntryType /\ e.verifier = c /\ e.state = "CHALLENGED"
      /\ e.challenge_deadline = now + CHALLENGE
  <2>1. now + CHALLENGE \in Nat
    BY <1>3, LimitsAssumption
  <2> QED
    BY <1>3, <2>1 DEF EntryType, States
<1>6. /\ d \in ChallengeType /\ d.issued = now /\ d.deadline = now + CHALLENGE
      /\ d.attempts = 0
  <2>1. now + CHALLENGE \in Nat
    BY <1>3, LimitsAssumption
  <2>2. Unissued \in ChallengeType /\ Unissued.attempts = 0
    BY DEF Unissued, ChallengeType
  <2> QED
    BY <1>3, <2>1, <2>2 DEF ChallengeType
<1> HIDE DEF e, d
<1>7. \A j \in Ids : entry[j].verifier # c
  BY <1>2 DEF AInv, HasChallenge
<1>8. d.deadline # 0
  BY <1>3, <1>6, LimitsAssumption
<1>9. \A w \in Workers : flight[w].phase # "idle" => flight[w].id # i
  <2> SUFFICES ASSUME NEW w \in Workers, flight[w].phase # "idle", flight[w].id = i
               PROVE  FALSE
    OBVIOUS
  <2>1. /\ entry[i].state \in {"VERIFYING", "REVOKED", "EXPIRED"}
        /\ entry[i].state = "EXPIRED" => now >= entry[i].deadline
    BY DEF AInv, Held
  <2>2. /\ entry[i].state # "VERIFYING" /\ entry[i].state # "REVOKED"
        /\ now < entry[i].deadline /\ entry[i].deadline \in Nat
    BY <1>3 DEF Challenge, Open, Pending, EntryType
  <2> QED
    BY <1>3, <2>1, <2>2
<1>10. TypeOK'
  BY <1>1, <1>3, <1>4, <1>5, <1>6 DEF AInv, TypeOK
<1>11. \A j \in Ids : HasChallenge(j)' /\ Untried(j)' /\ Fresh(j)'
  BY <1>3, <1>4, <1>5, <1>6, <1>7, <1>8 DEF AInv, HasChallenge, Untried, Fresh
<1>12. \A w \in Workers : Held(w)'
  BY <1>1, <1>3, <1>4, <1>5, <1>6, <1>7, <1>9 DEF AInv, Held
<1>13. OwnChallenge'
  BY <1>3, <1>4, <1>5, <1>7 DEF AInv, OwnChallenge
<1>14. LiveBorn'
  BY <1>1, <1>3, <1>4, <1>5 DEF AInv, LiveBorn
<1>15. OneAttempt'
  BY <1>3, <1>4, <1>6 DEF AInv, OneAttempt
<1> QED
  BY <1>1, <1>10, <1>11, <1>12, <1>13, <1>14, <1>15 DEF AInv, Alone

LEMMA SubmitBeginInv ==
  ASSUME AInv, NEW w \in Workers, NEW a \in Attestors, NEW i \in Ids,
         SubmitBegin(w, a, i)
  PROVE  AInv'
<1> DEFINE c == entry[i].verifier
           e == [entry[i] EXCEPT !.state = "VERIFYING"]
           d == [challenge[c] EXCEPT !.attempts = @ + 1]
           f == [phase |-> "submitted", id |-> i, verifier |-> c, decision |-> "none"]
<1>1. /\ now' = now /\ live' = live /\ entry[i].state = "CHALLENGED"
      /\ flight[w].phase = "idle"
  BY DEF SubmitBegin
<1>2. /\ entry \in [Ids -> EntryType] /\ challenge \in [Challenges -> ChallengeType]
      /\ flight \in [Workers -> FlightType] /\ entry[i] \in EntryType
  BY DEF AInv, TypeOK
<1>3. /\ c \in Challenges /\ challenge[c] \in ChallengeType /\ challenge[c].attempts = 0
      /\ entry[i].challenge_deadline = challenge[c].issued + CHALLENGE
      /\ challenge[c].deadline # 0
  BY <1>1, <1>2 DEF AInv, HasChallenge, Untried
<1>4. /\ entry' = [entry EXCEPT ![i] = e] /\ challenge' = [challenge EXCEPT ![c] = d]
      /\ flight' = [flight EXCEPT ![w] = f]
  BY <1>2 DEF SubmitBegin
<1>5. /\ e \in EntryType /\ e.verifier = c /\ e.state = "VERIFYING"
      /\ e.challenge_deadline = entry[i].challenge_deadline
  BY <1>2 DEF EntryType, States
<1>6. /\ d \in ChallengeType /\ d.issued = challenge[c].issued /\ d.attempts = 1
      /\ d.deadline = challenge[c].deadline
  BY <1>3 DEF ChallengeType
<1>7. /\ f \in FlightType /\ f.phase = "submitted" /\ f.id = i /\ f.verifier = c
      /\ f.decision = "none"
  BY <1>3 DEF FlightType
<1>8. \A v \in Workers : flight[v].phase # "idle" => flight[v].id # i
  BY <1>1 DEF AInv, Held
<1>9. \A j \in Ids : entry[j].verifier = c => j = i
  BY <1>3 DEF AInv, OwnChallenge
<1> HIDE DEF c, d, e, f
<1>10. TypeOK'
  BY <1>1, <1>2, <1>4, <1>5, <1>6, <1>7 DEF AInv, TypeOK
<1>11. \A j \in Ids : HasChallenge(j)' /\ Untried(j)' /\ Fresh(j)'
  <2> TAKE j \in Ids
  <2>1. CASE j = i
    BY <2>1, <1>2, <1>3, <1>4, <1>5, <1>6 DEF HasChallenge, Untried, Fresh
  <2>2. CASE j # i
    <3>1. entry'[j] = entry[j] /\ entry[j].verifier # c
      BY <2>2, <1>2, <1>4, <1>9
    <3>2. HasChallenge(j) /\ Untried(j) /\ Fresh(j)
      BY DEF AInv
    <3>3. entry[j].verifier \in Challenges =>
            challenge'[entry[j].verifier] = challenge[entry[j].verifier]
      BY <1>2, <1>4, <3>1
    <3> QED
      BY <3>1, <3>2, <3>3 DEF HasChallenge, Untried, Fresh
  <2> QED
    BY <2>1, <2>2
<1>12. \A v \in Workers : Held(v)'
  <2> SUFFICES ASSUME NEW v \in Workers, v # w, flight[v].phase # "idle"
               PROVE  Held(v)'
    BY <1>1, <1>2, <1>3, <1>4, <1>5, <1>7 DEF Held
  <2>1. flight'[v] = flight[v] /\ flight[v].id # i /\ Held(v)
    BY <1>2, <1>4, <1>8 DEF AInv
  <2>2. flight[v].id \in Ids /\ flight[v].verifier \in Challenges
        /\ entry[flight[v].id].verifier = flight[v].verifier
    BY <2>1 DEF Held
  <2>3. flight[v].verifier # c
    BY <1>9, <2>1, <2>2
  <2>4. /\ entry'[flight[v].id] = entry[flight[v].id]
        /\ challenge'[flight[v].verifier] = challenge[flight[v].verifier]
    BY <1>2, <1>4, <2>1, <2>2, <2>3
  <2> QED
    BY <1>1, <2>1, <2>4 DEF Held
<1>13. Alone'
  BY <1>2, <1>4, <1>7, <1>8 DEF AInv, Alone
<1>14. OwnChallenge'
  BY <1>2, <1>4, <1>5, <1>9 DEF AInv, OwnChallenge, c
<1>15. LiveBorn'
  BY <1>1, <1>2, <1>4, <1>5 DEF AInv, LiveBorn
<1>16. OneAttempt'
  BY <1>2, <1>4, <1>6 DEF AInv, OneAttempt
<1> QED
  BY <1>10, <1>11, <1>12, <1>13, <1>14, <1>15, <1>16 DEF AInv

\* What a thread at work may rely on.
LEMMA AtWork ==
  ASSUME AInv, NEW w \in Workers, flight[w].phase # "idle"
  PROVE  /\ flight[w].id \in Ids /\ flight[w].verifier \in Challenges
         /\ entry[flight[w].id].verifier = flight[w].verifier
         /\ flight[w] \in FlightType /\ entry[flight[w].id] \in EntryType
         /\ challenge[flight[w].verifier] \in ChallengeType
         /\ \A v \in Workers : v # w /\ flight[v].phase # "idle" =>
              flight[v].id # flight[w].id /\ flight[v].verifier # flight[w].verifier
         /\ \A j \in Ids : entry[j].verifier = flight[w].verifier => j = flight[w].id
<1>1. /\ flight[w].id \in Ids /\ flight[w].verifier \in Challenges
      /\ entry[flight[w].id].verifier = flight[w].verifier
  BY DEF AInv, Held
<1>2. /\ flight[w] \in FlightType /\ entry[flight[w].id] \in EntryType
      /\ challenge[flight[w].verifier] \in ChallengeType
  BY <1>1 DEF AInv, TypeOK
<1>3. \A j \in Ids : entry[j].verifier = flight[w].verifier => j = flight[w].id
  BY <1>1 DEF AInv, OwnChallenge
<1>4. ASSUME NEW v \in Workers, v # w, flight[v].phase # "idle"
      PROVE  flight[v].id # flight[w].id /\ flight[v].verifier # flight[w].verifier
  <2>1. flight[v].id # flight[w].id
    BY <1>4 DEF AInv, Alone
  <2>2. flight[v].id \in Ids /\ entry[flight[v].id].verifier = flight[v].verifier
    BY <1>4 DEF AInv, Held
  <2> QED
    BY <2>1, <2>2, <1>3
<1> QED
  BY <1>1, <1>2, <1>3, <1>4

\* A thread that works without the registry lock touches only its own challenge,
\* and that challenge only in what it was used for and whether it passed.
LEMMA VerifierInv ==
  ASSUME AInv, NEW w \in Workers, flight[w].phase # "idle",
         NEW f \in FlightType, f.phase # "idle", f.id = flight[w].id,
         f.verifier = flight[w].verifier,
         NEW d \in ChallengeType, d.issued = challenge[f.verifier].issued,
         d.deadline = challenge[f.verifier].deadline,
         d.attempts = challenge[f.verifier].attempts,
         f.decision = "ALLOW" => f.phase = "decided" /\ d.passed,
         now' = now, live' = live, entry' = entry,
         flight' = [flight EXCEPT ![w] = f],
         challenge' = [challenge EXCEPT ![f.verifier] = d]
  PROVE  AInv'
<1> DEFINE c == flight[w].verifier
           i == flight[w].id
<1>1. /\ i \in Ids /\ c \in Challenges /\ entry[i].verifier = c
      /\ \A v \in Workers : v # w /\ flight[v].phase # "idle" =>
           flight[v].id # i /\ flight[v].verifier # c
      /\ \A j \in Ids : entry[j].verifier = c => j = i
  BY AtWork
<1>2. /\ entry \in [Ids -> EntryType] /\ challenge \in [Challenges -> ChallengeType]
      /\ flight \in [Workers -> FlightType]
  BY DEF AInv, TypeOK
<1>3. entry[i].state \in {"VERIFYING", "REVOKED", "EXPIRED"}
  BY DEF AInv, Held
<1>4. /\ challenge'[c] = d /\ \A b \in Challenges : b # c => challenge'[b] = challenge[b]
      /\ flight'[w] = f /\ \A v \in Workers : v # w => flight'[v] = flight[v]
  BY <1>1, <1>2
<1> HIDE DEF c, i
<1>5. TypeOK'
  BY <1>2 DEF AInv, TypeOK
<1>6. \A j \in Ids : HasChallenge(j)' /\ Untried(j)' /\ Fresh(j)'
  <2> TAKE j \in Ids
  <2>1. HasChallenge(j) /\ Untried(j) /\ Fresh(j)
    BY DEF AInv
  <2>2. CASE j = i
    BY <1>1, <1>3, <1>4, <2>1, <2>2 DEF HasChallenge, Untried, Fresh, c
  <2>3. CASE j # i
    BY <1>1, <1>4, <2>1, <2>3 DEF HasChallenge, Untried, Fresh
  <2> QED
    BY <2>2, <2>3
<1>7. \A v \in Workers : Held(v)'
  <2> TAKE v \in Workers
  <2>1. Held(v) /\ Held(w)
    BY DEF AInv
  <2>2. CASE v = w
    BY <1>1, <1>4, <2>1, <2>2 DEF Held, c, i
  <2>3. CASE v # w
    BY <1>1, <1>4, <2>1, <2>3 DEF Held
  <2> QED
    BY <2>2, <2>3
<1>8. Alone'
  BY <1>1, <1>4 DEF AInv, Alone, i
<1>9. OneAttempt'
  BY <1>1, <1>4 DEF AInv, OneAttempt, c
<1> QED
  BY <1>5, <1>6, <1>7, <1>8, <1>9 DEF AInv, OwnChallenge, LiveBorn

LEMMA RaiseInv ==
  ASSUME AInv, NEW w \in Workers, VerifierRaise(w) \/ VerifierRefuse(w)
  PROVE  AInv'
<1>1. PICK x \in {"RAISED", "DENY"} :
        flight' = [flight EXCEPT ![w].phase = "decided", ![w].decision = x]
  BY DEF VerifierRaise, VerifierRefuse, Decide
<1> DEFINE f == [flight[w] EXCEPT !.phase = "decided", !.decision = x]
           d == challenge[f.verifier]
<1>2. flight[w].phase # "idle" /\ now' = now /\ live' = live /\ entry' = entry
      /\ challenge' = challenge
  BY DEF VerifierRaise, VerifierRefuse
<1>3. /\ flight[w].verifier \in Challenges /\ flight[w] \in FlightType
      /\ challenge[flight[w].verifier] \in ChallengeType
  BY <1>2, AtWork
<1>4. flight \in [Workers -> FlightType] /\ challenge \in [Challenges -> ChallengeType]
  BY DEF AInv, TypeOK
<1>5. /\ f \in FlightType /\ f.phase # "idle" /\ f.id = flight[w].id
      /\ f.verifier = flight[w].verifier /\ f.decision # "ALLOW"
  BY <1>3 DEF FlightType
<1>6. flight' = [flight EXCEPT ![w] = f] /\ challenge' = [challenge EXCEPT ![f.verifier] = d]
  BY <1>1, <1>2, <1>3, <1>4, <1>5
<1> HIDE DEF f
<1> QED
  BY <1>2, <1>3, <1>5, <1>6, VerifierInv

LEMMA AcceptInv ==
  ASSUME AInv, NEW w \in Workers, VerifierAccept(w)
  PROVE  AInv'
<1> DEFINE f == [flight[w] EXCEPT !.phase = "checking"]
           d == [challenge[flight[w].verifier] EXCEPT !.used = TRUE]
<1>1. flight[w].phase = "submitted" /\ now' = now /\ live' = live /\ entry' = entry
  BY DEF VerifierAccept
<1>2. /\ flight[w].verifier \in Challenges /\ flight[w] \in FlightType
      /\ challenge[flight[w].verifier] \in ChallengeType
  BY <1>1, AtWork
<1>3. flight[w].decision # "ALLOW"
  BY <1>1 DEF AInv, Held
<1>4. flight \in [Workers -> FlightType] /\ challenge \in [Challenges -> ChallengeType]
  BY DEF AInv, TypeOK
<1>5. /\ f \in FlightType /\ f.phase # "idle" /\ f.id = flight[w].id
      /\ f.verifier = flight[w].verifier /\ f.decision # "ALLOW"
  BY <1>2, <1>3 DEF FlightType
<1>6. /\ d \in ChallengeType /\ d.issued = challenge[f.verifier].issued
      /\ d.deadline = challenge[f.verifier].deadline
      /\ d.attempts = challenge[f.verifier].attempts
  BY <1>2, <1>5 DEF ChallengeType
<1>7. flight' = [flight EXCEPT ![w] = f] /\ challenge' = [challenge EXCEPT ![f.verifier] = d]
  BY <1>2, <1>4, <1>5 DEF VerifierAccept
<1> HIDE DEF f, d
<1> QED
  BY <1>1, <1>5, <1>6, <1>7, VerifierInv

LEMMA DecideInv ==
  ASSUME AInv, NEW w \in Workers, VerifierDecide(w)
  PROVE  AInv'
<1> DEFINE c == flight[w].verifier
           fresh == now < challenge[c].deadline
<1>1. flight[w].phase = "checking" /\ now' = now /\ live' = live /\ entry' = entry
  BY DEF VerifierDecide
<1>2. PICK outcome \in {"pass", "fail", "error"} :
        /\ Decide(w, CASE outcome = "error" -> "INDETERMINATE"
                       [] outcome = "pass" /\ fresh -> "ALLOW"
                       [] OTHER -> "DENY")
        /\ challenge' = [challenge EXCEPT ![c].passed = outcome = "pass" /\ fresh]
  BY DEF VerifierDecide
<1> DEFINE passed == outcome = "pass" /\ fresh
           x == CASE outcome = "error" -> "INDETERMINATE"
                  [] outcome = "pass" /\ fresh -> "ALLOW"
                  [] OTHER -> "DENY"
           f == [flight[w] EXCEPT !.phase = "decided", !.decision = x]
           d == [challenge[c] EXCEPT !.passed = passed]
<1>3. /\ c \in Challenges /\ flight[w] \in FlightType /\ challenge[c] \in ChallengeType
  BY <1>1, AtWork
<1>4. flight \in [Workers -> FlightType] /\ challenge \in [Challenges -> ChallengeType]
  BY DEF AInv, TypeOK
<1>5. /\ x \in {"INDETERMINATE", "ALLOW", "DENY"}
      /\ x = "ALLOW" => passed
      /\ passed \in BOOLEAN
  OBVIOUS
<1>6. flight' = [flight EXCEPT ![w] = f] /\ challenge' = [challenge EXCEPT ![c] = d]
  BY <1>2, <1>3, <1>4 DEF Decide
<1> HIDE DEF x, passed
<1>7. /\ f \in FlightType /\ f.phase = "decided" /\ f.id = flight[w].id
      /\ f.verifier = c /\ f.decision = x
  <2>1. x \in {"none", "ALLOW", "DENY", "INDETERMINATE", "RAISED"}
    BY <1>5
  <2> QED
    BY <1>3, <2>1 DEF FlightType
<1>8. /\ d \in ChallengeType /\ d.issued = challenge[c].issued
      /\ d.deadline = challenge[c].deadline /\ d.attempts = challenge[c].attempts
      /\ d.passed = passed
  BY <1>3, <1>5 DEF ChallengeType
<1> HIDE DEF f, d
<1> QED
  BY <1>1, <1>5, <1>6, <1>7, <1>8, VerifierInv

\* A thread lands: its entry, if it changes, leaves VERIFYING, and if it becomes
\* ALLOWED its challenge has passed.
LEMMA LandInv ==
  ASSUME AInv, NEW w \in Workers, flight[w].phase # "idle",
         NEW e \in EntryType, e.verifier = entry[flight[w].id].verifier,
         \/ e = entry[flight[w].id]
         \/ /\ entry[flight[w].id].state = "VERIFYING"
            /\ e.state \in {"ALLOWED", "DENIED", "EXPIRED"}
            /\ e.challenge_deadline = entry[flight[w].id].challenge_deadline
            /\ e.state = "ALLOWED" =>
                 /\ challenge[flight[w].verifier].passed
                 /\ e.lease_deadline <= challenge[flight[w].verifier].issued + LEASE
                 /\ e.lease_deadline <= e.deadline,
         now' = now, live' = live, challenge' = challenge,
         entry' = [entry EXCEPT ![flight[w].id] = e],
         flight' = [flight EXCEPT ![w] = Idle]
  PROVE  AInv'
<1> DEFINE c == flight[w].verifier
           i == flight[w].id
<1>1. /\ i \in Ids /\ c \in Challenges /\ entry[i].verifier = c
      /\ \A v \in Workers : v # w /\ flight[v].phase # "idle" => flight[v].id # i
  BY AtWork
<1>2. /\ entry \in [Ids -> EntryType] /\ flight \in [Workers -> FlightType]
  BY DEF AInv, TypeOK
<1>3. /\ entry'[i] = e /\ \A j \in Ids : j # i => entry'[j] = entry[j]
      /\ flight'[w] = Idle /\ \A v \in Workers : v # w => flight'[v] = flight[v]
      /\ Idle.phase = "idle"
  BY <1>1, <1>2 DEF Idle
<1>4. entry[i].state # "UNBORN" /\ e.state # "UNBORN" /\ e.state # "CHALLENGED"
  BY DEF AInv, Held
<1> HIDE DEF c, i
<1>5. TypeOK'
  <2>1. Idle \in FlightType
    BY DEF Idle, FlightType
  <2> QED
    BY <1>2, <2>1 DEF AInv, TypeOK
<1>6. \A j \in Ids : HasChallenge(j)' /\ Untried(j)' /\ Fresh(j)'
  <2> TAKE j \in Ids
  <2>1. HasChallenge(j) /\ Untried(j) /\ Fresh(j)
    BY DEF AInv
  <2>2. CASE j = i
    BY <1>1, <1>3, <1>4, <2>1, <2>2 DEF HasChallenge, Untried, Fresh, c, i
  <2>3. CASE j # i
    BY <1>3, <2>1, <2>3 DEF HasChallenge, Untried, Fresh
  <2> QED
    BY <2>2, <2>3
<1>7. \A v \in Workers : Held(v)'
  <2> TAKE v \in Workers
  <2>1. Held(v)
    BY DEF AInv
  <2>2. CASE v = w
    BY <1>3, <2>2 DEF Held
  <2>3. CASE v # w
    BY <1>1, <1>3, <2>1, <2>3 DEF Held
  <2> QED
    BY <2>2, <2>3
<1>8. Alone'
  BY <1>3 DEF AInv, Alone
<1>9. OwnChallenge'
  BY <1>1, <1>3 DEF AInv, OwnChallenge, i
<1>10. LiveBorn'
  BY <1>3, <1>4 DEF AInv, LiveBorn, TypeOK
<1> QED
  BY <1>5, <1>6, <1>7, <1>8, <1>9, <1>10 DEF AInv, OneAttempt

LEMMA FinishInv ==
  ASSUME AInv, NEW w \in Workers, SubmitFinish(w)
  PROVE  AInv'
<1> DEFINE i == flight[w].id
           c == flight[w].verifier
           g == Granted(entry[i], flight[w].decision)
<1>1. /\ flight[w].phase # "idle" /\ now' = now /\ live' = live
      /\ challenge' = challenge /\ flight' = [flight EXCEPT ![w] = Idle]
      /\ entry' = IF Current(i) THEN [entry EXCEPT ![i] = Expire(g)] ELSE entry
  BY DEF SubmitFinish, Land
<1>2. /\ i \in Ids /\ c \in Challenges /\ entry[i] \in EntryType
      /\ entry[i].verifier = c /\ challenge[c] \in ChallengeType
  BY <1>1, AtWork
<1>3. CASE ~Current(i)
  <2>1. entry' = [entry EXCEPT ![i] = entry[i]]
    BY <1>1, <1>2, <1>3 DEF AInv, TypeOK
  <2> HIDE DEF i
  <2> QED
    BY <1>1, <1>2, <2>1, LandInv DEF i
<1>4. CASE Current(i)
  <2> DEFINE lease == (entry[i].challenge_deadline - CHALLENGE) + LEASE
             m == Min2(entry[i].deadline, lease)
             s == IF flight[w].decision = "ALLOW" THEN "ALLOWED" ELSE "DENIED"
  <2>1. entry[i].state = "VERIFYING"
    BY <1>4 DEF Current
  <2>2. entry[i].challenge_deadline = challenge[c].issued + CHALLENGE
    BY <1>2, <2>1 DEF AInv, HasChallenge
  <2>3. /\ entry[i].challenge_deadline \in Nat /\ entry[i].deadline \in Nat
        /\ challenge[c].issued \in Nat
    BY <1>2 DEF EntryType, ChallengeType
  <2>4. lease = challenge[c].issued + LEASE /\ lease \in Int
    BY <2>2, <2>3, LimitsAssumption
  <2>5. m \in Int /\ m <= entry[i].deadline /\ m <= lease
    BY <2>3, <2>4 DEF Min2
  <2>6. g = [entry[i] EXCEPT !.state = s, !.lease_deadline = m]
    BY DEF Granted
  <2> HIDE DEF m, lease, g
  <2>7. /\ g \in EntryType /\ g.state \in {"ALLOWED", "DENIED"}
        /\ g.state = "ALLOWED" => flight[w].decision = "ALLOW"
        /\ g.verifier = entry[i].verifier /\ g.deadline = entry[i].deadline
        /\ g.lease_deadline = m
        /\ g.challenge_deadline = entry[i].challenge_deadline
    BY <1>2, <2>5, <2>6 DEF EntryType, States
  <2>8. /\ Expire(g) \in EntryType /\ Expire(g).verifier = entry[i].verifier
        /\ Expire(g).state \in {"ALLOWED", "DENIED", "EXPIRED"}
        /\ Expire(g).challenge_deadline = entry[i].challenge_deadline
        /\ Expire(g).lease_deadline = m /\ Expire(g).deadline = entry[i].deadline
        /\ Expire(g).state = "ALLOWED" => flight[w].decision = "ALLOW"
    BY <2>7, ExpireType
  <2>9. flight[w].decision = "ALLOW" => challenge[c].passed
    BY <1>1 DEF AInv, Held
  <2>10. entry' = [entry EXCEPT ![i] = Expire(g)]
    BY <1>1, <1>4
  <2> QED
    BY <1>1, <1>2, <2>1, <2>4, <2>5, <2>8, <2>9, <2>10, LandInv
<1> QED
  BY <1>3, <1>4

LEMMA SubmitRaiseInv ==
  ASSUME AInv, NEW w \in Workers, SubmitRaise(w)
  PROVE  AInv'
<1> DEFINE i == flight[w].id
           e == IF entry[i].state = "VERIFYING"
                THEN [entry[i] EXCEPT !.state = "DENIED"] ELSE entry[i]
<1>1. /\ flight[w].phase # "idle" /\ now' = now /\ live' = live
      /\ challenge' = challenge /\ flight' = [flight EXCEPT ![w] = Idle]
  BY DEF SubmitRaise, Land
<1>2. i \in Ids /\ entry[i] \in EntryType /\ entry \in [Ids -> EntryType]
  BY <1>1, AtWork DEF AInv, TypeOK
<1>3. entry' = [entry EXCEPT ![i] = e]
  BY <1>2 DEF SubmitRaise
<1>4. /\ e \in EntryType /\ e.verifier = entry[i].verifier
      /\ \/ e = entry[i]
         \/ /\ entry[i].state = "VERIFYING" /\ e.state = "DENIED"
            /\ e.challenge_deadline = entry[i].challenge_deadline
  BY <1>2 DEF EntryType, States
<1> HIDE DEF e
<1> QED
  BY <1>1, <1>3, <1>4, LandInv

LEMMA NextInv == AInv /\ [Next]_vars => AInv'
<1> SUFFICES ASSUME AInv, [Next]_vars PROVE AInv'
  OBVIOUS
<1>1. CASE UNCHANGED vars
  BY <1>1 DEF vars, AInv, TypeOK, HasChallenge, Untried, Fresh, Held, Alone,
              OwnChallenge, LiveBorn, OneAttempt
<1>2. CASE Next
  BY <1>2, TickInv, RegisterInv, RefusedInv, StatusInv, RevokeInv, ChallengeInv,
     SubmitBeginInv, RaiseInv, AcceptInv, DecideInv, FinishInv, SubmitRaiseInv
     DEF Next, Worker, Verifier
<1> QED
  BY <1>1, <1>2

-----------------------------------------------------------------------------
(* The theorems                                                            *)

\* The strengthened invariant holds in every reachable state.
THEOREM AdmissionInvariant == Spec => []AInv
BY InitInv, NextInv, PTL DEF Spec

\* Every variable of the registry keeps its type.
THEOREM AdmissionTypes == Spec => []TypeOK
<1>1. AInv => TypeOK
  BY DEF AInv
<1> QED
  BY <1>1, AdmissionInvariant, PTL

\* An entry is ALLOWED only by its newest challenge, passed while valid, and for
\* no longer than a lease from that challenge's issue (dispatch, "submit").
THEOREM GrantsAreFresh == Spec => []AllowedIsFresh
<1>1. AInv => AllowedIsFresh
  BY DEF AInv, AllowedIsFresh, HasChallenge, Fresh
<1> QED
  BY <1>1, AdmissionInvariant, PTL

\* No challenge is ever submitted twice.
THEOREM ChallengesAreTriedOnce == Spec => []OneAttempt
<1>1. AInv => OneAttempt
  BY DEF AInv
<1> QED
  BY <1>1, AdmissionInvariant, PTL

\* However many threads submit, at most one of them verifies for an entry, and each
\* verifies a challenge that is new.
THEOREM VerificationIsExclusive == Spec => []SingleVerification
<1>1. AInv => SingleVerification
  <2> SUFFICES ASSUME AInv, NEW i \in Ids PROVE Cardinality(InFlight(i)) <= 1
    BY DEF SingleVerification, AInv
  <2>1. CASE InFlight(i) = {}
    BY <2>1, FS_EmptySet
  <2>2. CASE InFlight(i) # {}
    <3>1. PICK w : w \in InFlight(i)
      BY <2>2
    <3>2. InFlight(i) = {w}
      BY <3>1 DEF AInv, Alone, InFlight
    <3>3. Cardinality({w}) = 1
      BY FS_Singleton
    <3> QED
      BY <3>2, <3>3
  <2> QED
    BY <2>1, <2>2
<1> QED
  BY <1>1, AdmissionInvariant, PTL

\* What no step takes back from an admission that was registered.
Onward(i) == /\ entry'[i].deadline = entry[i].deadline
             /\ entry'[i].controller = entry[i].controller
             /\ entry'[i].peer = entry[i].peer
             /\ i \in live' => i \in live
             /\ entry[i].state = "REVOKED" => entry'[i].state = "REVOKED"

LEMMA NextOnward ==
  ASSUME AInv, [Next]_vars, NEW i \in Ids, entry[i].state # "UNBORN"
  PROVE  Onward(i) /\ now' >= now
<1>1. /\ entry \in [Ids -> EntryType] /\ now \in Nat
      /\ \A j \in Ids : entry[j] \in EntryType
  BY DEF AInv, TypeOK
<1>2. CASE UNCHANGED vars
  BY <1>1, <1>2 DEF vars, Onward
<1>3. CASE Tick
  BY <1>1, <1>3 DEF Tick, Onward
<1>4. ASSUME NEW k \in Controllers, NEW p \in Peers, NEW a \in Attestors,
             Register(k, p, a)
      PROVE  Onward(i) /\ now' >= now
  BY <1>1, <1>4 DEF Register, Kept, Onward
<1>5. ASSUME NEW k \in Controllers, NEW p \in Peers, RegisterRefused(k, p)
      PROVE  Onward(i) /\ now' >= now
  BY <1>1, <1>5 DEF RegisterRefused, Kept, Onward
<1>6. ASSUME NEW k \in Controllers, NEW j \in Ids, Status(k, j)
      PROVE  Onward(i) /\ now' >= now
  <2>1. /\ Expire(entry[j]).deadline = entry[j].deadline
        /\ Expire(entry[j]).controller = entry[j].controller
        /\ Expire(entry[j]).peer = entry[j].peer
        /\ entry[j].state = "REVOKED" => Expire(entry[j]).state = "REVOKED"
    BY <1>1, ExpireType
  <2> QED
    BY <1>1, <1>6, <2>1 DEF Status, Onward
<1>7. ASSUME NEW k \in Controllers, NEW j \in Ids, Revoke(k, j)
      PROVE  Onward(i) /\ now' >= now
  <2> DEFINE e == [entry[j] EXCEPT !.state = "REVOKED"]
  <2>1. /\ e \in EntryType /\ e.state = "REVOKED" /\ e.deadline = entry[j].deadline
        /\ e.controller = entry[j].controller /\ e.peer = entry[j].peer
    BY <1>1 DEF EntryType, States
  <2>2. Expire(e) = e
    BY <2>1, ExpireType
  <2>3. entry' = [entry EXCEPT ![j] = e] /\ now' = now /\ live' = live
    BY <1>7, <2>2 DEF Revoke
  <2> HIDE DEF e
  <2> QED
    BY <1>1, <2>1, <2>3 DEF Onward
<1>8. ASSUME NEW a \in Attestors, NEW j \in Ids, Challenge(a, j)
      PROVE  Onward(i) /\ now' >= now
  BY <1>1, <1>8 DEF Challenge, Open, Onward, EntryType
<1>9. ASSUME NEW w \in Workers, NEW a \in Attestors, NEW j \in Ids, SubmitBegin(w, a, j)
      PROVE  Onward(i) /\ now' >= now
  BY <1>1, <1>9 DEF SubmitBegin, Open, Onward, EntryType
<1>10. ASSUME NEW w \in Workers, Verifier(w)
       PROVE  Onward(i) /\ now' >= now
  BY <1>1, <1>10 DEF Verifier, VerifierRaise, VerifierRefuse, VerifierAccept,
                     VerifierDecide, Onward
<1>11. ASSUME NEW w \in Workers, SubmitRaise(w)
       PROVE  Onward(i) /\ now' >= now
  BY <1>1, <1>11 DEF SubmitRaise, Onward, EntryType
<1>12. ASSUME NEW w \in Workers, SubmitFinish(w)
       PROVE  Onward(i) /\ now' >= now
  <2> DEFINE j == flight[w].id
             g == Granted(entry[j], flight[w].decision)
  <2>1. /\ now' = now /\ live' = live
        /\ entry' = IF Current(j) THEN [entry EXCEPT ![j] = Expire(g)] ELSE entry
        /\ flight[w].phase # "idle"
    BY <1>12 DEF SubmitFinish
  <2>2. j \in Ids
    BY <2>1, AtWork
  <2>3. /\ Expire(g).deadline = entry[j].deadline
        /\ Expire(g).controller = entry[j].controller
        /\ Expire(g).peer = entry[j].peer
    BY <1>1, <2>2 DEF Expire, Granted, EntryType
  <2> QED
    BY <1>1, <2>1, <2>2, <2>3 DEF Onward, Current
<1> QED
  BY <1>2, <1>3, <1>4, <1>5, <1>6, <1>7, <1>8, <1>9, <1>10, <1>11, <1>12
     DEF Next, Worker

LEMMA ClosedStays ==
  ASSUME AInv, AInv', [Next]_vars, NEW i \in Ids, entry[i].state # "UNBORN", Closed(i)
  PROVE  Closed(i)' /\ ~Allows(i)'
<1>1. Onward(i) /\ now' >= now
  BY NextOnward
<1>2. /\ now \in Nat /\ now' \in Nat /\ entry[i].deadline \in Nat
      /\ entry'[i] \in EntryType
  BY DEF AInv, TypeOK, EntryType
<1>3. Closed(i)'
  BY <1>1, <1>2 DEF Closed, Onward
<1>4. ~Allows(i)'
  BY <1>2, <1>3 DEF Closed, Allows, Expire, EntryType
<1> QED
  BY <1>3, <1>4

\* Revocation, expiry and pruning are final for every admission: no step, and no
\* answer still in flight, makes a closed admission ALLOWED again.
THEOREM ClosureIsFinal == Spec => ClosedIsFinal
<1>1. AInv /\ AInv' /\ [Next]_vars =>
        [\A i \in Ids : entry[i].state # "UNBORN" /\ Closed(i)
                          => Closed(i)' /\ ~Allows(i)']_vars
  BY ClosedStays
<1> QED
  BY <1>1, AdmissionInvariant, PTL DEF Spec, ClosedIsFinal

-----------------------------------------------------------------------------
(* One admission per connection                                            *)

\* The dictionary is finite, so that its size is a number.
LiveInv == IsFiniteSet(live) /\ OneLivePerPeer

LEMMA LiveShrinks ==
  ASSUME [Next]_vars,
         ~\E k \in Controllers, p \in Peers, a \in Attestors : Register(k, p, a)
  PROVE  live' \subseteq live
BY DEF Next, vars, Tick, RegisterRefused, Kept, Status, Revoke, Challenge, SubmitBegin,
       Worker, Verifier, VerifierRaise, VerifierRefuse, VerifierAccept, VerifierDecide,
       SubmitFinish, SubmitRaise

LEMMA LiveNext ==
  ASSUME AInv, LiveInv, [Next]_vars
  PROVE  LiveInv'
<1>1. \A i \in live : Onward(i)
  BY NextOnward DEF AInv, LiveBorn, TypeOK
<1>2. CASE live' \subseteq live
  <2>1. IsFiniteSet(live') /\ Cardinality(live') <= Cardinality(live)
    BY <1>2, FS_Subset DEF LiveInv
  <2>2. Cardinality(live') <= MAXIMUM
    <3>1. Cardinality(live) \in Nat /\ Cardinality(live') \in Nat
      BY <2>1, FS_CardinalityType DEF LiveInv
    <3> QED
      BY <2>1, <3>1, LimitsAssumption DEF LiveInv, OneLivePerPeer
  <2> QED
    BY <1>1, <1>2, <2>1, <2>2 DEF LiveInv, OneLivePerPeer, Onward
<1>3. ASSUME NEW k \in Controllers, NEW p \in Peers, NEW a \in Attestors,
             Register(k, p, a)
      PROVE  LiveInv'
  <2> DEFINE e == [Unborn EXCEPT !.state = "REGISTERED", !.controller = k,
                                 !.attestor = a, !.peer = p, !.deadline = now + BINDING]
  <2>1. PICK i \in Ids : /\ entry[i].state = "UNBORN"
                         /\ live' = Kept \cup {i}
                         /\ entry' = [entry EXCEPT ![i] = Expire(e)]
    BY <1>3 DEF Register
  <2>2. Expire(e).controller = k /\ Expire(e).peer = p
    BY DEF Expire, Unborn
  <2> HIDE DEF e
  <2>3. ~Taken(k, p) /\ Cardinality(Kept) < MAXIMUM
    BY <1>3 DEF Register
  <2>4. entry \in [Ids -> EntryType] /\ live \subseteq Ids /\ Kept \subseteq live
    BY DEF AInv, TypeOK, Kept
  <2>5. i \notin live /\ entry'[i] = Expire(e) /\ \A j \in live : entry'[j] = entry[j]
    BY <2>1, <2>4 DEF AInv, LiveBorn
  <2>6. IsFiniteSet(Kept) /\ Cardinality(Kept) \in Nat
    BY <2>4, FS_Subset, FS_CardinalityType DEF LiveInv
  <2>7. IsFiniteSet(live') /\ Cardinality(live') <= MAXIMUM
    <3>1. /\ IsFiniteSet(Kept \cup {i})
          /\ Cardinality(Kept \cup {i}) = Cardinality(Kept) + 1
      BY <2>4, <2>5, <2>6, FS_AddElement
    <3> QED
      BY <2>1, <2>3, <2>6, <3>1, LimitsAssumption
  <2>8. \A j, l \in live' : /\ entry'[j].controller = entry'[l].controller
                            /\ entry'[j].peer = entry'[l].peer
                            => j = l
    BY <2>1, <2>2, <2>3, <2>4, <2>5 DEF LiveInv, OneLivePerPeer, Taken
  <2> QED
    BY <2>7, <2>8 DEF LiveInv, OneLivePerPeer
<1> QED
  BY <1>2, <1>3, LiveShrinks

\* A game server never has two admissions for one connection in the dictionary,
\* and the dictionary never outgrows its limit (_register).
THEOREM OneAdmissionPerConnection == Spec => []OneLivePerPeer
<1>1. Init => LiveInv
  BY FS_EmptySet, LimitsAssumption DEF Init, LiveInv, OneLivePerPeer
<1>2. AInv /\ LiveInv /\ [Next]_vars => LiveInv'
  BY LiveNext
<1>3. LiveInv => OneLivePerPeer
  BY DEF LiveInv
<1> QED
  BY <1>1, <1>2, <1>3, AdmissionInvariant, PTL DEF Spec

-----------------------------------------------------------------------------
(* The registry implements Permission.                                     *)

\* What the mapping makes of an admission, without its nested conditionals.
Asked(i) == i \in live /\ now < entry[i].deadline
            /\ entry[i].state \in {"CHALLENGED", "VERIFYING"}

May(i) == i \in live /\ entry[i].state = "ALLOWED" /\ now < entry[i].lease_deadline

End(i) == Min2(entry[i].deadline, challenge[entry[i].verifier].issued + LEASE)

Mapped(i) ==
  /\ Perm(i) = IF entry[i].state = "REVOKED" THEN "revoked"
               ELSE IF May(i) THEN "granted" ELSE IF Asked(i) THEN "asked" ELSE "none"
  /\ Until(i) = IF May(i) THEN entry[i].lease_deadline
                ELSE IF Asked(i) THEN End(i) ELSE 0

LEMMA PermIs == AInv => \A i \in Ids : Mapped(i)
<1> SUFFICES ASSUME AInv, NEW i \in Ids PROVE Mapped(i)
  OBVIOUS
<1>1. /\ now \in Nat /\ entry[i] \in EntryType /\ entry[i].deadline \in Nat
      /\ entry[i].lease_deadline \in Int
  BY DEF AInv, TypeOK, EntryType
<1>2. entry[i].state = "ALLOWED" => entry[i].lease_deadline <= entry[i].deadline
  BY DEF AInv, Fresh
<1>3. Allows(i) <=> May(i)
  BY <1>1, <1>2 DEF Allows, May, Expire, EntryType
<1>4. ~Closed(i) /\ entry[i].state \in {"CHALLENGED", "VERIFYING"} <=> Asked(i)
  BY <1>1 DEF Closed, Asked
<1>5. May(i) => entry[i].state = "ALLOWED"
  BY DEF May
<1>6. Asked(i) => entry[i].state \in {"CHALLENGED", "VERIFYING"}
  BY DEF Asked
<1>7. Perm(i) = IF entry[i].state = "REVOKED" THEN "revoked"
                ELSE IF May(i) THEN "granted" ELSE IF Asked(i) THEN "asked" ELSE "none"
  BY <1>3, <1>4, <1>5, <1>6 DEF Perm
<1>8. Until(i) = IF May(i) THEN entry[i].lease_deadline
                 ELSE IF Asked(i) THEN End(i) ELSE 0
  BY <1>5, <1>6, <1>7 DEF Until, End
<1> QED
  BY <1>7, <1>8 DEF Mapped

LEMMA PermIsNext == AInv' => (\A i \in Ids : Mapped(i))'
BY PermIs, PTL

\* A step that leaves an admission's entry and its challenge's issue alone, and
\* takes it from the dictionary only when it is closed, leaves its permission alone.
LEMMA Untouched ==
  ASSUME AInv, AInv', NEW i \in Ids, now' = now, entry'[i] = entry[i],
         i \in live' => i \in live,
         i \in live => i \in live' \/ Closed(i),
         entry[i].verifier \in Challenges =>
           challenge'[entry[i].verifier].issued = challenge[entry[i].verifier].issued
  PROVE  Perm(i)' = Perm(i) /\ Until(i)' = Until(i)
<1>1. /\ now \in Nat /\ entry[i].deadline \in Nat /\ entry[i].lease_deadline \in Int
  BY DEF AInv, TypeOK, EntryType
<1>2. entry[i].state = "ALLOWED" => entry[i].lease_deadline <= entry[i].deadline
  BY DEF AInv, Fresh
<1>3. Asked(i)' <=> Asked(i)
  BY <1>1 DEF Asked, Closed
<1>4. May(i)' <=> May(i)
  BY <1>1, <1>2 DEF May, Closed
<1>5. Asked(i) => End(i)' = End(i)
  BY DEF Asked, End, AInv, HasChallenge
<1>6. Mapped(i) /\ Mapped(i)'
  BY PermIs, PermIsNext
<1>7. Perm(i)' = Perm(i)
  BY <1>3, <1>4, <1>6 DEF Mapped
<1>8. Until(i)' = Until(i)
  BY <1>3, <1>4, <1>5, <1>6 DEF Mapped
<1> QED
  BY <1>7, <1>8

\* The abstract steps, seen from one admission.
Same(i) == Perm(i)' = Perm(i) /\ Until(i)' = Until(i)

LEMMA Stutters ==
  ASSUME now' = now, \A i \in Ids : Same(i)
  PROVE  UNCHANGED P!pvars
BY DEF P!pvars, Same

LEMMA Asks ==
  ASSUME NEW i \in Ids, now' = now, \A j \in Ids : j # i => Same(j),
         Perm(i) # "revoked", Perm(i)' = "asked",
         Until(i)' \in (now + 1)..(now + LEASE)
  PROVE  P!PNext
<1>1. [j \in Ids |-> Perm(j)]' = [[j \in Ids |-> Perm(j)] EXCEPT ![i] = "asked"]
  BY DEF Same
<1>2. [j \in Ids |-> Until(j)]' = [[j \in Ids |-> Until(j)] EXCEPT ![i] = Until(i)']
  BY DEF Same
<1>3. P!Ask(i)
  BY <1>1, <1>2 DEF P!Ask
<1> QED
  BY <1>3 DEF P!PNext

LEMMA Grants ==
  ASSUME NEW i \in Ids, now' = now, \A j \in Ids : j # i => Same(j),
         Perm(i) = "asked", now < Until(i), Perm(i)' = "granted", Until(i)' = Until(i)
  PROVE  P!PNext
<1>1. [j \in Ids |-> Perm(j)]' = [[j \in Ids |-> Perm(j)] EXCEPT ![i] = "granted"]
  BY DEF Same
<1>2. [j \in Ids |-> Until(j)]' = [j \in Ids |-> Until(j)]
  BY DEF Same
<1>3. P!Grant(i)
  BY <1>1, <1>2 DEF P!Grant
<1> QED
  BY <1>3 DEF P!PNext

LEMMA Denies ==
  ASSUME NEW i \in Ids, now' = now, \A j \in Ids : j # i => Same(j),
         Perm(i) = "asked", Perm(i)' = "none", Until(i)' = 0
  PROVE  P!PNext
<1>1. P!Lose({i})
  BY DEF P!Lose, Same
<1>2. P!Deny(i)
  BY <1>1 DEF P!Deny
<1> QED
  BY <1>2 DEF P!PNext

LEMMA Revokes ==
  ASSUME NEW i \in Ids, now' = now, \A j \in Ids : j # i => Same(j),
         Perm(i)' = "revoked", Until(i)' = 0
  PROVE  P!PNext
<1>1. P!Revoke(i)
  BY DEF P!Revoke, Same
<1> QED
  BY <1>1 DEF P!PNext

\* One step of the registry is one abstract step, or none.
LEMMA TickMaps ==
  ASSUME AInv, AInv', Tick
  PROVE  P!PNext
<1> DEFINE S == {i \in Ids : Perm(i) \in {"asked", "granted"} /\ Perm(i)' = "none"}
<1>1. /\ now' = now + 1 /\ live' = live /\ entry' = entry /\ challenge' = challenge
      /\ now \in Nat
  BY DEF Tick, AInv, TypeOK
<1>2. ASSUME NEW i \in Ids
      PROVE  /\ i \in S => Perm(i)' = "none" /\ Until(i)' = 0
             /\ i \notin S => Perm(i)' = Perm(i) /\ Until(i)' = Until(i)
             /\ Perm(i)' = "granted" => now' < Until(i)'
  <2>1. Mapped(i) /\ Mapped(i)'
    BY PermIs, PermIsNext
  <2>2. entry[i].deadline \in Nat /\ entry[i].lease_deadline \in Int
    BY DEF AInv, TypeOK, EntryType
  <2>3. (Asked(i)' => Asked(i)) /\ (May(i)' => May(i))
    BY <1>1, <2>2 DEF Asked, May
  <2>4. (May(i) => entry[i].state = "ALLOWED") /\ (Asked(i) => entry[i].state # "ALLOWED")
    BY DEF Asked, May
  <2>5. End(i)' = End(i)
    BY <1>1 DEF End
  <2>6. May(i)' => now' < entry'[i].lease_deadline
    BY DEF May
  <2>7. (May(i) => entry[i].state # "REVOKED") /\ (Asked(i) => entry[i].state # "REVOKED")
    BY DEF Asked, May
  <2> QED
    BY <1>1, <2>1, <2>3, <2>4, <2>5, <2>6, <2>7 DEF Mapped
<1>3. P!Lose(S)
  BY <1>2 DEF P!Lose
<1>4. \A i \in Ids \ S : P!Current(i, now')
  BY <1>2 DEF P!Current
<1>5. S \in SUBSET {i \in Ids : [j \in Ids |-> Perm(j)][i] \in {"asked", "granted"}}
  OBVIOUS
<1>6. P!Pass
  BY <1>1, <1>3, <1>4, <1>5 DEF P!Pass
<1> QED
  BY <1>6 DEF P!PNext

LEMMA RegisterMaps ==
  ASSUME AInv, AInv', NEW k \in Controllers, NEW p \in Peers, NEW a \in Attestors,
         Register(k, p, a)
  PROVE  UNCHANGED P!pvars
<1> DEFINE e == [Unborn EXCEPT !.state = "REGISTERED", !.controller = k,
                               !.attestor = a, !.peer = p, !.deadline = now + BINDING]
<1>1. /\ now' = now /\ challenge' = challenge
  BY DEF Register
<1>2. PICK i \in Ids : /\ entry[i].state = "UNBORN"
                       /\ live' = Kept \cup {i}
                       /\ entry' = [entry EXCEPT ![i] = Expire(e)]
  BY DEF Register
<1>3. Expire(e).state \in {"REGISTERED", "EXPIRED"}
  BY DEF Expire, Unborn
<1> HIDE DEF e
<1>4. entry \in [Ids -> EntryType]
  BY DEF AInv, TypeOK
<1>5. Same(i)
  <2>1. Mapped(i) /\ Mapped(i)'
    BY PermIs, PermIsNext
  <2>2. entry'[i].state \in {"REGISTERED", "EXPIRED"}
    BY <1>2, <1>3, <1>4
  <2>3. ~Asked(i) /\ ~May(i) /\ ~Asked(i)' /\ ~May(i)'
    BY <1>2, <2>2 DEF Asked, May
  <2> QED
    BY <1>2, <2>1, <2>2, <2>3 DEF Mapped, Same
<1>6. ASSUME NEW j \in Ids, j # i PROVE Same(j)
  <2>1. entry'[j] = entry[j]
    BY <1>2, <1>4, <1>6
  <2>2. now \in Nat /\ entry[j].deadline \in Nat
    BY DEF AInv, TypeOK, EntryType
  <2>3. (j \in live' => j \in live) /\ (j \in live => j \in live' \/ Closed(j))
    BY <1>2, <1>6, <2>2 DEF Kept, Closed
  <2> QED
    BY <1>1, <2>1, <2>3, Untouched DEF Same
<1> QED
  BY <1>1, <1>5, <1>6, Stutters

LEMMA RefusedMaps ==
  ASSUME AInv, AInv', NEW k \in Controllers, NEW p \in Peers, RegisterRefused(k, p)
  PROVE  UNCHANGED P!pvars
<1>1. /\ now' = now /\ challenge' = challenge /\ entry' = entry /\ live' = Kept
  BY DEF RegisterRefused
<1>2. ASSUME NEW j \in Ids PROVE Same(j)
  <2>1. now \in Nat /\ entry[j].deadline \in Nat
    BY DEF AInv, TypeOK, EntryType
  <2>2. (j \in live' => j \in live) /\ (j \in live => j \in live' \/ Closed(j))
    BY <1>1, <2>1 DEF Kept, Closed
  <2> QED
    BY <1>1, <2>2, Untouched DEF Same
<1> QED
  BY <1>1, <1>2, Stutters

\* A step on one entry is a step on one permission.
LEMMA OthersSame ==
  ASSUME AInv, AInv', NEW i \in Ids, NEW e, now' = now, live' = live,
         entry' = [entry EXCEPT ![i] = e],
         \A c \in Challenges : (\E j \in Ids : j # i /\ entry[j].verifier = c)
                               => challenge'[c].issued = challenge[c].issued
  PROVE  \A j \in Ids : j # i => Same(j)
<1> SUFFICES ASSUME NEW j \in Ids, j # i PROVE Same(j)
  OBVIOUS
<1>1. entry'[j] = entry[j]
  BY DEF AInv, TypeOK
<1> QED
  BY <1>1, Untouched DEF Same

LEMMA StatusMaps ==
  ASSUME AInv, AInv', NEW k \in Controllers, NEW i \in Ids, Status(k, i)
  PROVE  UNCHANGED P!pvars
<1>1. /\ now' = now /\ challenge' = challenge /\ live' = live /\ i \in live
      /\ entry' = [entry EXCEPT ![i] = Expire(entry[i])]
  BY DEF Status
<1>2. entry[i] \in EntryType /\ entry'[i] = Expire(entry[i])
  BY <1>1 DEF AInv, TypeOK
<1>3. CASE Expire(entry[i]) = entry[i]
  BY <1>1, <1>2, <1>3, OthersSame, Untouched, Stutters DEF Same
<1>4. CASE Expire(entry[i]) # entry[i]
  <2>1. Mapped(i) /\ Mapped(i)'
    BY PermIs, PermIsNext
  <2>2. /\ entry'[i].state = "EXPIRED" /\ entry[i].state # "REVOKED"
        /\ now >= entry[i].deadline
           \/ (entry[i].state = "ALLOWED" /\ now >= entry[i].lease_deadline)
    BY <1>2, <1>4 DEF Expire, EntryType
  <2>3. ~Asked(i)' /\ ~May(i)'
    BY <2>2 DEF Asked, May
  <2>4. ~Asked(i) /\ ~May(i)
    <3>1. /\ now \in Nat /\ entry[i].deadline \in Nat
          /\ entry[i].lease_deadline \in Int
      BY DEF AInv, TypeOK, EntryType
    <3>2. entry[i].state = "ALLOWED" => entry[i].lease_deadline <= entry[i].deadline
      BY DEF AInv, Fresh
    <3> QED
      BY <2>2, <3>1, <3>2 DEF Asked, May
  <2>5. Same(i)
    BY <2>1, <2>2, <2>3, <2>4 DEF Mapped, Same
  <2> QED
    BY <1>1, <2>5, OthersSame, Stutters
<1> QED
  BY <1>3, <1>4

LEMMA RevokeMaps ==
  ASSUME AInv, AInv', NEW k \in Controllers, NEW i \in Ids, Revoke(k, i)
  PROVE  P!PNext
<1> DEFINE e == [entry[i] EXCEPT !.state = "REVOKED"]
<1>1. entry \in [Ids -> EntryType] /\ entry[i] \in EntryType
  BY DEF AInv, TypeOK
<1>2. e \in EntryType /\ e.state = "REVOKED"
  BY <1>1 DEF EntryType, States
<1>3. Expire(e) = e
  BY <1>2, ExpireType
<1>4. /\ now' = now /\ challenge' = challenge /\ live' = live
      /\ entry' = [entry EXCEPT ![i] = e]
  BY <1>3 DEF Revoke
<1> HIDE DEF e
<1>5. entry'[i].state = "REVOKED"
  BY <1>1, <1>2, <1>4
<1>6. Mapped(i)'
  BY PermIsNext
<1>7. ~Asked(i)' /\ ~May(i)'
  BY <1>5 DEF Asked, May
<1> QED
  BY <1>4, <1>5, <1>6, <1>7, OthersSame, Revokes DEF Mapped

LEMMA ChallengeMaps ==
  ASSUME AInv, AInv', NEW a \in Attestors, NEW i \in Ids, Challenge(a, i)
  PROVE  P!PNext
<1>1. /\ now' = now /\ live' = live /\ i \in live /\ entry[i].state # "REVOKED"
      /\ now < entry[i].deadline
  BY DEF Challenge, Open
<1>2. PICK c \in Challenges :
        /\ challenge[c].deadline = 0
        /\ challenge' = Issue(c)
        /\ entry' = [entry EXCEPT ![i].verifier = c, ![i].state = "CHALLENGED",
                                  ![i].challenge_deadline = now + CHALLENGE]
  BY DEF Challenge
<1> DEFINE e == [entry[i] EXCEPT !.verifier = c, !.state = "CHALLENGED",
                                 !.challenge_deadline = now + CHALLENGE]
<1>3. /\ entry \in [Ids -> EntryType] /\ challenge \in [Challenges -> ChallengeType]
      /\ now \in Nat /\ entry[i] \in EntryType
  BY DEF AInv, TypeOK
<1>4. entry' = [entry EXCEPT ![i] = e]
  BY <1>2, <1>3
<1>5. /\ e.verifier = c /\ e.state = "CHALLENGED" /\ e.deadline = entry[i].deadline
      /\ entry[i].deadline \in Nat
  BY <1>3 DEF EntryType
<1> HIDE DEF e
<1>6. /\ challenge'[c].issued = now
      /\ \A d \in Challenges : d # c => challenge'[d] = challenge[d]
  BY <1>2, <1>3 DEF Issue, Unissued
<1>7. \A j \in Ids : entry[j].verifier # c
  BY <1>2 DEF AInv, HasChallenge
<1>8. \A j \in Ids : j # i => Same(j)
  BY <1>1, <1>4, <1>6, <1>7, OthersSame
<1>9. entry'[i] = e
  BY <1>3, <1>4
<1>10. Asked(i)' /\ ~May(i)'
  BY <1>1, <1>5, <1>9 DEF Asked, May
<1>11. End(i)' \in (now + 1)..(now + LEASE)
  <2>1. End(i)' = Min2(entry[i].deadline, now + LEASE)
    BY <1>5, <1>6, <1>9 DEF End
  <2> QED
    BY <1>1, <1>3, <1>5, <2>1, LimitsAssumption DEF Min2
<1>12. Mapped(i) /\ Mapped(i)'
  BY PermIs, PermIsNext
<1>13. Perm(i) # "revoked" /\ Perm(i)' = "asked" /\ Until(i)' = End(i)'
  BY <1>1, <1>5, <1>9, <1>10, <1>12 DEF Mapped
<1> QED
  BY <1>1, <1>8, <1>11, <1>13, Asks

\* The first section of a submit, and the verification, show nobody anything.
LEMMA SubmitBeginMaps ==
  ASSUME AInv, AInv', NEW w \in Workers, NEW a \in Attestors, NEW i \in Ids,
         SubmitBegin(w, a, i)
  PROVE  UNCHANGED P!pvars
<1> DEFINE e == [entry[i] EXCEPT !.state = "VERIFYING"]
<1>1. /\ now' = now /\ live' = live /\ entry[i].state = "CHALLENGED"
      /\ entry \in [Ids -> EntryType] /\ challenge \in [Challenges -> ChallengeType]
  BY DEF SubmitBegin, AInv, TypeOK
<1>2. entry' = [entry EXCEPT ![i] = e]
  BY <1>1 DEF SubmitBegin
<1>3. /\ e.verifier = entry[i].verifier /\ e.state = "VERIFYING"
      /\ e.deadline = entry[i].deadline
  BY <1>1 DEF EntryType
<1>4. entry'[i] = e
  BY <1>1, <1>2
<1> HIDE DEF e
<1>5. \A c \in Challenges : challenge'[c].issued = challenge[c].issued
  <2> TAKE c \in Challenges
  <2>1. challenge[c] \in ChallengeType
    BY <1>1
  <2>2. challenge' = [challenge EXCEPT ![entry[i].verifier].attempts = @ + 1]
    BY DEF SubmitBegin
  <2> QED
    BY <1>1, <2>1, <2>2 DEF ChallengeType
<1>6. \A j \in Ids : j # i => Same(j)
  BY <1>1, <1>2, <1>5, OthersSame
<1>7. Same(i)
  <2>1. Mapped(i) /\ Mapped(i)'
    BY PermIs, PermIsNext
  <2>2. (Asked(i)' <=> Asked(i)) /\ ~May(i) /\ ~May(i)'
    BY <1>1, <1>3, <1>4 DEF Asked, May
  <2>3. entry[i].verifier \in Challenges
    BY <1>1 DEF AInv, HasChallenge
  <2>4. End(i)' = End(i)
    BY <1>3, <1>4, <1>5, <2>3 DEF End
  <2> QED
    BY <1>1, <1>3, <1>4, <2>1, <2>2, <2>4 DEF Mapped, Same
<1> QED
  BY <1>1, <1>6, <1>7, Stutters

LEMMA VerifierMaps ==
  ASSUME AInv, AInv', NEW w \in Workers, Verifier(w)
  PROVE  UNCHANGED P!pvars
<1>1. /\ now' = now /\ live' = live /\ entry' = entry
  BY DEF Verifier, VerifierRaise, VerifierRefuse, VerifierAccept, VerifierDecide
<1>2. \A c \in Challenges : challenge'[c].issued = challenge[c].issued
  <2> TAKE c \in Challenges
  <2>1. challenge \in [Challenges -> ChallengeType] /\ challenge[c] \in ChallengeType
    BY DEF AInv, TypeOK
  <2> QED
    BY <2>1 DEF Verifier, VerifierRaise, VerifierRefuse, VerifierAccept, VerifierDecide,
                ChallengeType
<1>3. \A i \in Ids : Same(i)
  BY <1>1, <1>2, Untouched DEF Same
<1> QED
  BY <1>1, <1>3, Stutters

LEMMA RaiseMaps ==
  ASSUME AInv, AInv', NEW w \in Workers, SubmitRaise(w)
  PROVE  [P!PNext]_(P!pvars)
<1>1. /\ flight[w].phase # "idle" /\ now' = now /\ live' = live
      /\ challenge' = challenge
  BY DEF SubmitRaise
<1> PICK i \in Ids : i = flight[w].id
  BY <1>1, AtWork
<1> DEFINE e == IF entry[i].state = "VERIFYING"
                THEN [entry[i] EXCEPT !.state = "DENIED"] ELSE entry[i]
<1>2. entry[i] \in EntryType /\ entry \in [Ids -> EntryType]
  BY DEF AInv, TypeOK
<1>3. entry' = [entry EXCEPT ![i] = e] /\ entry'[i] = e
  BY <1>2 DEF SubmitRaise
<1>4. /\ entry[i].state = "VERIFYING" => e.state = "DENIED"
      /\ entry[i].state # "VERIFYING" => e = entry[i]
  BY <1>2 DEF EntryType
<1> HIDE DEF e
<1>5. \A j \in Ids : j # i => Same(j)
  BY <1>1, <1>2, <1>3, OthersSame
<1>6. CASE entry[i].state = "VERIFYING"
  <2>1. Mapped(i) /\ Mapped(i)'
    BY <1>2, PermIs, PermIsNext
  <2>2. ~Asked(i)' /\ ~May(i)' /\ ~May(i) /\ entry'[i].state # "REVOKED"
    BY <1>3, <1>4, <1>6 DEF Asked, May
  <2>3. Perm(i)' = "none" /\ Until(i)' = 0
    BY <2>1, <2>2 DEF Mapped
  <2>4. CASE Asked(i)
    BY <1>1, <1>2, <1>5, <1>6, <2>1, <2>2, <2>3, <2>4, Denies DEF Mapped
  <2>5. CASE ~Asked(i)
    <3>1. Same(i)
      BY <1>6, <2>1, <2>2, <2>3, <2>5 DEF Mapped, Same
    <3> QED
      BY <1>1, <1>5, <3>1, Stutters
  <2> QED
    BY <2>4, <2>5
<1>7. CASE entry[i].state # "VERIFYING"
  <2>1. Same(i)
    BY <1>1, <1>2, <1>3, <1>4, <1>7, Untouched DEF Same
  <2> QED
    BY <1>1, <1>5, <2>1, Stutters
<1> QED
  BY <1>6, <1>7

LEMMA FinishMaps ==
  ASSUME AInv, AInv', NEW w \in Workers, SubmitFinish(w)
  PROVE  [P!PNext]_(P!pvars)
<1>0. flight[w].phase # "idle"
  BY DEF SubmitFinish
<1> PICK i \in Ids : i = flight[w].id
  BY <1>0, AtWork
<1> DEFINE g == Granted(entry[i], flight[w].decision)
           lease == (entry[i].challenge_deadline - CHALLENGE) + LEASE
<1>1. /\ now' = now /\ live' = live /\ challenge' = challenge
      /\ entry' = IF Current(i) THEN [entry EXCEPT ![i] = Expire(g)] ELSE entry
  BY DEF SubmitFinish
<1>2. entry[i] \in EntryType /\ entry \in [Ids -> EntryType] /\ now \in Nat
  BY DEF AInv, TypeOK
<1>3. CASE ~Current(i)
  <2>1. \A j \in Ids : Same(j)
    BY <1>1, <1>3, Untouched DEF Same
  <2> QED
    BY <1>1, <2>1, Stutters
<1>4. CASE Current(i)
  <2>1. i \in live /\ entry[i].state = "VERIFYING"
    BY <1>4 DEF Current
  <2>2. entry' = [entry EXCEPT ![i] = Expire(g)] /\ entry'[i] = Expire(g)
    BY <1>1, <1>2, <1>4
  <2>3. /\ entry[i].challenge_deadline = challenge[entry[i].verifier].issued + CHALLENGE
        /\ entry[i].verifier \in Challenges
    BY <1>2, <2>1 DEF AInv, HasChallenge
  <2>4. /\ entry[i].challenge_deadline \in Nat /\ entry[i].deadline \in Nat
        /\ challenge[entry[i].verifier].issued \in Nat
    BY <1>2, <2>3 DEF EntryType, ChallengeType, AInv, TypeOK
  <2>5. lease = challenge[entry[i].verifier].issued + LEASE /\ lease \in Int
    BY <2>3, <2>4, LimitsAssumption
  <2>6. /\ End(i) = Min2(entry[i].deadline, lease) /\ End(i) \in Int
        /\ End(i) <= entry[i].deadline
    BY <2>4, <2>5 DEF End, Min2
  <2>7. g = [entry[i] EXCEPT
               !.state = IF flight[w].decision = "ALLOW" THEN "ALLOWED" ELSE "DENIED",
               !.lease_deadline = End(i)]
    BY <2>6 DEF Granted
  <2> HIDE DEF g, lease
  <2>8. /\ g.state \in {"ALLOWED", "DENIED"} /\ g.deadline = entry[i].deadline
        /\ g.lease_deadline = End(i)
    BY <1>2, <2>7 DEF EntryType
  <2>9. /\ Expire(g).state \in {"ALLOWED", "DENIED", "EXPIRED"}
        /\ Expire(g).state = "ALLOWED" => now < End(i) /\ Expire(g) = g
    BY <1>2, <2>4, <2>6, <2>7, <2>8 DEF Expire, EntryType
  <2>10. \A j \in Ids : j # i => Same(j)
    BY <1>1, <1>2, <2>2, OthersSame
  <2>11. Mapped(i) /\ Mapped(i)'
    BY <1>2, PermIs, PermIsNext
  <2>12. ~Asked(i)' /\ ~May(i)
    BY <2>1, <2>2, <2>9 DEF Asked, May
  <2>13. CASE Expire(g).state = "ALLOWED"
    <3>1. now < End(i) /\ now < entry[i].deadline
      BY <1>2, <2>4, <2>6, <2>9, <2>13
    <3>2. Asked(i)
      BY <2>1, <3>1 DEF Asked
    <3>3. May(i)' /\ entry'[i].lease_deadline = End(i)
      BY <1>1, <2>1, <2>2, <2>8, <2>9, <2>13 DEF May
    <3>4. Perm(i) = "asked" /\ Until(i) = End(i)
      BY <2>1, <2>11, <2>12, <3>2 DEF Mapped
    <3>5. Perm(i)' = "granted" /\ Until(i)' = End(i)
      BY <2>2, <2>11, <2>13, <3>3 DEF Mapped
    <3> QED
      BY <1>1, <1>2, <2>10, <3>1, <3>4, <3>5, Grants
  <2>14. CASE Expire(g).state # "ALLOWED"
    <3>1. ~May(i)' /\ entry'[i].state # "REVOKED"
      BY <2>2, <2>9, <2>14 DEF May
    <3>2. Perm(i)' = "none" /\ Until(i)' = 0
      BY <2>11, <2>12, <3>1 DEF Mapped
    <3>3. CASE Asked(i)
      <4>1. Perm(i) = "asked"
        BY <2>1, <2>11, <2>12, <3>3 DEF Mapped
      <4> QED
        BY <1>1, <1>2, <2>10, <3>2, <4>1, Denies
    <3>4. CASE ~Asked(i)
      <4>1. Same(i)
        BY <2>1, <2>11, <2>12, <3>2, <3>4 DEF Mapped, Same
      <4> QED
        BY <1>1, <2>10, <4>1, Stutters
    <3> QED
      BY <3>3, <3>4
  <2> QED
    BY <2>13, <2>14
<1> QED
  BY <1>3, <1>4

LEMMA InitMaps == Init => P!PInit
<1> SUFFICES ASSUME Init PROVE P!PInit
  OBVIOUS
<1>1. now \in Nat /\ \A i \in Ids : Perm(i) = "none"
  BY DEF Init, Unborn, Perm, Allows
<1>2. \A i \in Ids : Until(i) = 0
  BY <1>1 DEF Until
<1> QED
  BY <1>1, <1>2 DEF P!PInit

LEMMA StepMaps == AInv /\ AInv' /\ [Next]_vars => [P!PNext]_(P!pvars)
<1> SUFFICES ASSUME AInv, AInv', [Next]_vars PROVE [P!PNext]_(P!pvars)
  OBVIOUS
<1>1. CASE UNCHANGED vars
  BY <1>1, Untouched, Stutters DEF vars, Same
<1>2. CASE Next
  BY <1>2, TickMaps, RegisterMaps, RefusedMaps, StatusMaps, RevokeMaps, ChallengeMaps,
     SubmitBeginMaps, VerifierMaps, RaiseMaps, FinishMaps DEF Next, Worker
<1> QED
  BY <1>1, <1>2

\* The registry implements Permission: with lazy expiry, pruning, retries and
\* verification outside the lock, what a game server sees of an admission is a
\* permission that ends on time and that revocation ends for good.
THEOREM RegistryImplementsPermission == Spec => ImplementsPermission
BY InitMaps, StepMaps, AdmissionInvariant, PTL DEF Spec, ImplementsPermission, P!Spec

-----------------------------------------------------------------------------
(* The service in front of the registry                                    *)

LEMMA ServiceSteps == [SNext]_svars => [Next]_vars
<1> SUFFICES ASSUME [SNext]_svars PROVE [Next]_vars
  OBVIOUS
<1>1. CASE UNCHANGED svars
  BY <1>1 DEF svars
<1>2. CASE LoadRegistry \/ Close \/ Stopped
  BY <1>2 DEF LoadRegistry, Close, Stopped
<1>3. CASE ServiceTick
  BY <1>3 DEF ServiceTick, Next
<1>4. ASSUME NEW t \in Workers, Accept(t) \/ Handler(t) \/ GiveUp(t) PROVE [Next]_vars
  <2>1. CASE \/ Accept(t) \/ GiveUp(t) \/ Receive(t) \/ HandleError(t) \/ HandleSubmit(t)
             \/ ThreadReject(t) \/ HandleReturn(t) \/ Reply(t) \/ Leave(t)
    BY <2>1 DEF Accept, GiveUp, Receive, HandleError, HandleSubmit, ThreadReject,
                HandleReturn, Reply, Leave
  <2>2. CASE HandleDispatch(t)
    BY <2>2 DEF HandleDispatch, Next
  <2>3. CASE ThreadBegin(t)
    BY <2>3 DEF ThreadBegin, Next
  <2>4. CASE ThreadVerify(t) \/ ThreadFinish(t)
    BY <2>4 DEF ThreadVerify, ThreadFinish, Next, Worker
  <2> QED
    BY <1>4, <2>1, <2>2, <2>3, <2>4 DEF Handler
<1> QED
  BY <1>1, <1>2, <1>3, <1>4 DEF SNext

\* Whatever the handlers, threads and clients of AdmissionService do, the registry
\* makes the registry's steps only.
THEOREM ServiceIsRegistry == SSpec => Spec
<1>1. SInit => Init
  BY DEF SInit
<1> QED
  BY <1>1, ServiceSteps, PTL DEF SSpec, Spec

\* So game servers that ask the service see permissions that end on time and that
\* revocation ends for good, however requests are refused, time out or are cut off.
THEOREM ServiceImplementsPermission == SSpec => ImplementsPermission
  BY ServiceIsRegistry, RegistryImplementsPermission, PTL

\* And every safety property of the registry.
THEOREM ServiceIsSafe == SSpec => [](AllowedIsFresh /\ OneLivePerPeer /\ SingleVerification)
  BY ServiceIsRegistry, GrantsAreFresh, OneAdmissionPerConnection, VerificationIsExclusive, PTL

-----------------------------------------------------------------------------
(* The service's own invariant                                             *)

Places == {"free", "reading", "dispatch", "starting", "verifying", "returned",
           "replying", "leaving"}
InThread == {"starting", "verifying", "returned"}

\* The handlers that have taken a verification slot.
Handed == {t \in Workers : pc[t] \in InThread}

ServiceTypes == /\ pc \in [Workers -> Places]
                /\ closing \in BOOLEAN /\ stopped \in BOOLEAN

\* verifications counts the handlers in a thread, at most all there are.
SlotsCounted == IsFiniteSet(Tasks) /\ verifications = Cardinality(Handed)

\* A thread works for the registry exactly while its handler waits for it.
ThreadsOwned == \A t \in Workers : /\ flight[t].phase # "idle" <=> pc[t] = "verifying"
                                   /\ flight[t].phase = "idle" => flight[t] = Idle

\* close() awaits all handlers that are left, and there come no more.
Gathered == /\ closing => awaited = Tasks
            /\ stopped => closing /\ awaited = {}

SInv == ServiceTypes /\ SlotsCounted /\ ThreadsOwned /\ Gathered

\* A handler goes to another place.
LEMMA Moved ==
  ASSUME SInv, NEW t \in Workers, NEW to \in Places, pc' = [pc EXCEPT ![t] = to]
  PROVE  /\ pc' \in [Workers -> Places] /\ pc'[t] = to
         /\ \A u \in Workers : u # t => pc'[u] = pc[u]
         /\ to # "free" => Tasks' = Tasks \cup {t}
         /\ to # "free" /\ pc[t] # "free" => Tasks' = Tasks
         /\ to = "free" => Tasks' = Tasks \ {t}
         /\ to \in InThread => Handed' = Handed \cup {t}
         /\ to \notin InThread => Handed' = Handed \ {t}
         /\ (to \in InThread <=> pc[t] \in InThread) => Handed' = Handed
         /\ pc[t] # "free" => t \in Tasks
         /\ t \in Handed <=> pc[t] \in InThread
<1>1. pc \in [Workers -> Places]
  BY DEF SInv, ServiceTypes
<1>2. /\ pc' \in [Workers -> Places] /\ pc'[t] = to
      /\ \A u \in Workers : u # t => pc'[u] = pc[u]
  BY <1>1
<1>3. (to # "free" => Tasks' = Tasks \cup {t}) /\ (to = "free" => Tasks' = Tasks \ {t})
  BY <1>2 DEF Tasks
<1>4. (to \in InThread => Handed' = Handed \cup {t}) /\ (to \notin InThread => Handed' = Handed \ {t})
  BY <1>2 DEF Handed
<1>5. to # "free" /\ pc[t] # "free" => Tasks' = Tasks
  BY <1>2 DEF Tasks
<1>6. (to \in InThread <=> pc[t] \in InThread) => Handed' = Handed
  BY <1>2 DEF Handed
<1>7. (pc[t] # "free" => t \in Tasks) /\ (t \in Handed <=> pc[t] \in InThread)
  BY DEF Tasks, Handed
<1> QED
  BY <1>2, <1>3, <1>4, <1>5, <1>6, <1>7

\* A handler goes on where no thread and no slot is involved.
LEMMA GoesOnInv ==
  ASSUME SInv, NEW t \in Workers, NEW to \in Places \ (InThread \cup {"free"}),
         pc[t] \notin InThread \cup {"free"}, pc' = [pc EXCEPT ![t] = to],
         flight' = flight, UNCHANGED service
  PROVE  SInv'
<1>1. /\ verifications' = verifications /\ closing' = closing /\ awaited' = awaited
      /\ stopped' = stopped
  BY DEF service
<1>2. Tasks' = Tasks /\ Handed' = Handed
  BY Moved
<1>3. ThreadsOwned'
  <2>1. "verifying" \in InThread
    BY DEF InThread
  <2> QED
    BY <2>1, Moved DEF SInv, ThreadsOwned
<1>4. ServiceTypes'
  BY <1>1, Moved DEF SInv, ServiceTypes
<1> QED
  BY <1>1, <1>2, <1>3, <1>4 DEF SInv, SlotsCounted, Gathered

\* Nobody moves.
LEMMA StaysInv ==
  ASSUME SInv, pc' = pc, flight' = flight, verifications' = verifications,
         closing' = closing, awaited' = awaited, stopped' = stopped
  PROVE  SInv'
<1>1. Tasks' = Tasks /\ Handed' = Handed
  BY DEF Tasks, Handed
<1> QED
  BY <1>1 DEF SInv, ServiceTypes, SlotsCounted, ThreadsOwned, Gathered

LEMMA ServiceAcceptInv ==
  ASSUME SInv, NEW t \in Workers, Accept(t) PROVE SInv'
<1>1. /\ pc[t] = "free" /\ pc' = [pc EXCEPT ![t] = "reading"] /\ ~closing /\ flight' = flight
      /\ verifications' = verifications /\ closing' = closing /\ awaited' = awaited
      /\ stopped' = stopped
  BY DEF Accept, Goto, vars, service
<1>2. "reading" \in Places /\ "reading" \notin InThread /\ "free" \notin InThread
  BY DEF Places, InThread
<1>3. Tasks' = Tasks \cup {t} /\ Handed' = Handed
  BY <1>1, <1>2, Moved
<1>4. SlotsCounted'
  BY <1>1, <1>3, FS_AddElement DEF SInv, SlotsCounted
<1>5. ThreadsOwned'
  BY <1>1, <1>2, Moved DEF SInv, ThreadsOwned
<1>6. ServiceTypes'
  BY <1>1, <1>2, Moved DEF SInv, ServiceTypes
<1> QED
  BY <1>1, <1>4, <1>5, <1>6 DEF SInv, Gathered

LEMMA HandleSubmitInv ==
  ASSUME SInv, NEW t \in Workers, HandleSubmit(t) PROVE SInv'
<1>1. /\ pc[t] = "dispatch" /\ pc' = [pc EXCEPT ![t] = "starting"] /\ flight' = flight
      /\ verifications' = verifications + 1 /\ closing' = closing /\ awaited' = awaited
      /\ stopped' = stopped
  BY DEF HandleSubmit, Goto, vars
<1>2. "starting" \in Places /\ "starting" \in InThread /\ "dispatch" \notin InThread
  BY DEF Places, InThread
<1>3. Tasks' = Tasks /\ Handed' = Handed \cup {t} /\ t \notin Handed
  BY <1>1, <1>2, Moved
<1>4. SlotsCounted'
  <2>1. Handed \subseteq Tasks
    BY DEF Handed, Tasks, InThread
  <2>2. IsFiniteSet(Handed)
    BY <2>1, FS_Subset DEF SInv, SlotsCounted
  <2>3. Cardinality(Handed \cup {t}) = Cardinality(Handed) + 1
    BY <1>3, <2>2, FS_AddElement
  <2> QED
    BY <1>1, <1>3, <2>3 DEF SInv, SlotsCounted
<1>5. ThreadsOwned'
  BY <1>1, <1>2, Moved DEF SInv, ThreadsOwned
<1>6. ServiceTypes'
  BY <1>1, <1>2, Moved DEF SInv, ServiceTypes
<1> QED
  BY <1>1, <1>3, <1>4, <1>5, <1>6 DEF SInv, Gathered

LEMMA HandleReturnInv ==
  ASSUME SInv, NEW t \in Workers, HandleReturn(t) PROVE SInv'
<1>1. /\ pc[t] = "returned" /\ pc' = [pc EXCEPT ![t] = "replying"] /\ flight' = flight
      /\ verifications' = verifications - 1 /\ closing' = closing /\ awaited' = awaited
      /\ stopped' = stopped
  BY DEF HandleReturn, Goto, vars
<1>2. "replying" \in Places /\ "replying" \notin InThread /\ "returned" \in InThread
  BY DEF Places, InThread
<1>3. Tasks' = Tasks /\ Handed' = Handed \ {t} /\ t \in Handed
  BY <1>1, <1>2, Moved
<1>4. SlotsCounted'
  <2>1. Handed \subseteq Tasks
    BY DEF Handed, Tasks, InThread
  <2>2. IsFiniteSet(Handed)
    BY <2>1, FS_Subset DEF SInv, SlotsCounted
  <2>3. Cardinality(Handed \ {t}) = Cardinality(Handed) - 1
    BY <1>3, <2>2, FS_RemoveElement
  <2> QED
    BY <1>1, <1>3, <2>3 DEF SInv, SlotsCounted
<1>5. ThreadsOwned'
  BY <1>1, <1>2, Moved DEF SInv, ThreadsOwned
<1>6. ServiceTypes'
  BY <1>1, <1>2, Moved DEF SInv, ServiceTypes
<1> QED
  BY <1>1, <1>3, <1>4, <1>5, <1>6 DEF SInv, Gathered

\* Within a thread: its slot stays taken, and only its own flight changes.
LEMMA ThreadInv ==
  ASSUME SInv, NEW t \in Workers, NEW to \in InThread, pc[t] \in InThread,
         pc' = [pc EXCEPT ![t] = to], UNCHANGED service,
         \A u \in Workers : u # t => flight'[u] = flight[u],
         flight'[t].phase # "idle" <=> to = "verifying",
         flight'[t].phase = "idle" => flight'[t] = Idle
  PROVE  SInv'
<1>1. /\ verifications' = verifications /\ closing' = closing /\ awaited' = awaited
      /\ stopped' = stopped
  BY DEF service
<1>2. to \in Places /\ to # "free" /\ pc[t] # "free"
  BY DEF Places, InThread
<1>3. Tasks' = Tasks /\ Handed' = Handed
  BY <1>2, Moved
<1>4. ThreadsOwned'
  BY <1>2, Moved DEF SInv, ThreadsOwned
<1>5. ServiceTypes'
  BY <1>1, <1>2, Moved DEF SInv, ServiceTypes
<1> QED
  BY <1>1, <1>3, <1>4, <1>5 DEF SInv, SlotsCounted, Gathered

LEMMA ThreadBeginInv ==
  ASSUME AInv, SInv, NEW t \in Workers, ThreadBegin(t) PROVE SInv'
<1>1. pc[t] = "starting" /\ pc' = [pc EXCEPT ![t] = "verifying"] /\ UNCHANGED service
  BY DEF ThreadBegin, Goto
<1>2. flight \in [Workers -> FlightType]
  BY DEF AInv, TypeOK
<1>3. PICK f : f.phase = "submitted" /\ flight' = [flight EXCEPT ![t] = f]
  BY DEF ThreadBegin, SubmitBegin
<1> QED
  BY <1>1, <1>2, <1>3, ThreadInv DEF InThread

LEMMA ThreadRejectInv ==
  ASSUME SInv, NEW t \in Workers, ThreadReject(t) PROVE SInv'
<1>1. /\ pc[t] = "starting" /\ pc' = [pc EXCEPT ![t] = "returned"] /\ UNCHANGED service
      /\ flight' = flight
  BY DEF ThreadReject, Goto, vars
<1>2. flight[t].phase = "idle" /\ flight[t] = Idle
  BY <1>1 DEF SInv, ThreadsOwned
<1> QED
  BY <1>1, <1>2, ThreadInv DEF InThread

LEMMA ThreadVerifyInv ==
  ASSUME AInv, SInv, NEW t \in Workers, ThreadVerify(t) PROVE SInv'
<1>1. pc[t] = "verifying" /\ pc' = pc /\ UNCHANGED service /\ Verifier(t)
  BY DEF ThreadVerify, handlers
<1>2. flight \in [Workers -> FlightType] /\ pc \in [Workers -> Places]
  BY DEF AInv, TypeOK, SInv, ServiceTypes
<1>3. pc' = [pc EXCEPT ![t] = "verifying"]
  BY <1>1, <1>2
<1>4. /\ \A u \in Workers : u # t => flight'[u] = flight[u]
      /\ flight'[t].phase \in {"checking", "decided"}
  BY <1>1, <1>2 DEF Verifier, VerifierRaise, VerifierRefuse, VerifierAccept, VerifierDecide,
                    Decide, FlightType
<1> QED
  BY <1>1, <1>3, <1>4, ThreadInv DEF InThread

LEMMA ThreadFinishInv ==
  ASSUME AInv, SInv, NEW t \in Workers, ThreadFinish(t) PROVE SInv'
<1>1. /\ pc[t] = "verifying" /\ pc' = [pc EXCEPT ![t] = "returned"] /\ UNCHANGED service
      /\ flight' = [flight EXCEPT ![t] = Idle]
  BY DEF ThreadFinish, Goto, SubmitFinish, SubmitRaise, Land
<1>2. flight \in [Workers -> FlightType]
  BY DEF AInv, TypeOK
<1>3. flight'[t] = Idle /\ Idle.phase = "idle" /\ \A u \in Workers : u # t => flight'[u] = flight[u]
  BY <1>1, <1>2 DEF Idle
<1> QED
  BY <1>1, <1>3, ThreadInv DEF InThread

LEMMA LeaveInv ==
  ASSUME SInv, NEW t \in Workers, Leave(t) PROVE SInv'
<1>1. /\ pc[t] = "leaving" /\ pc' = [pc EXCEPT ![t] = "free"] /\ flight' = flight
      /\ verifications' = verifications /\ closing' = closing /\ awaited' = awaited \ {t}
      /\ stopped' = stopped
  BY DEF Leave, Goto, vars
<1>2. "free" \in Places /\ "free" \notin InThread /\ "leaving" \notin InThread
  BY DEF Places, InThread
<1>3. Tasks' = Tasks \ {t} /\ Handed' = Handed
  BY <1>1, <1>2, Moved
<1>4. SlotsCounted'
  BY <1>1, <1>3, FS_RemoveElement DEF SInv, SlotsCounted
<1>5. ThreadsOwned'
  BY <1>1, <1>2, Moved DEF SInv, ThreadsOwned
<1>6. ServiceTypes'
  BY <1>1, <1>2, Moved DEF SInv, ServiceTypes
<1> QED
  BY <1>1, <1>3, <1>4, <1>5, <1>6 DEF SInv, Gathered

LEMMA ServiceNextInv == AInv /\ SInv /\ [SNext]_svars => SInv'
<1> SUFFICES ASSUME AInv, SInv, [SNext]_svars PROVE SInv'
  OBVIOUS
<1>1. CASE UNCHANGED svars \/ LoadRegistry \/ ServiceTick
  BY <1>1, StaysInv DEF svars, handlers, service, vars, LoadRegistry, ServiceTick, Tick
<1>2. CASE Close
  <2>1. /\ pc' = pc /\ flight' = flight /\ verifications' = verifications /\ ~closing /\ closing'
        /\ closing' \in BOOLEAN /\ awaited' = Tasks /\ stopped' = stopped
    BY <1>2 DEF Close, vars
  <2>2. Tasks' = Tasks /\ Handed' = Handed
    BY <2>1 DEF Tasks, Handed
  <2> QED
    BY <2>1, <2>2 DEF SInv, ServiceTypes, SlotsCounted, ThreadsOwned, Gathered
<1>3. CASE Stopped
  <2>1. /\ pc' = pc /\ flight' = flight /\ verifications' = verifications /\ closing
        /\ closing' = closing /\ awaited = {} /\ awaited' = awaited /\ stopped' \in BOOLEAN
    BY <1>3 DEF Stopped, vars
  <2>2. Tasks' = Tasks /\ Handed' = Handed
    BY <2>1 DEF Tasks, Handed
  <2> QED
    BY <2>1, <2>2 DEF SInv, ServiceTypes, SlotsCounted, ThreadsOwned, Gathered
<1>4. ASSUME NEW t \in Workers, Accept(t) \/ Handler(t) \/ GiveUp(t) PROVE SInv'
  <2>1. CASE GiveUp(t)
    BY <2>1, StaysInv DEF GiveUp, service, vars
  <2>2. CASE Receive(t) \/ HandleError(t) \/ Reply(t)
    <3>1. /\ pc[t] \in {"reading", "dispatch", "replying"} /\ flight' = flight /\ UNCHANGED service
          /\ \E to \in {"dispatch", "leaving", "replying"} : pc' = [pc EXCEPT ![t] = to]
      BY <2>2 DEF Receive, HandleError, Reply, Goto, vars
    <3> QED
      BY <3>1, GoesOnInv DEF Places, InThread
  <2>3. CASE HandleDispatch(t)
    <3>1. flight' = flight
      BY <2>3 DEF HandleDispatch, Register, RegisterRefused, Status, Revoke, Challenge
    <3>2. pc[t] = "dispatch" /\ pc' = [pc EXCEPT ![t] = "replying"] /\ UNCHANGED service
      BY <2>3 DEF HandleDispatch, Goto
    <3> QED
      BY <3>1, <3>2, GoesOnInv DEF Places, InThread
  <2> QED
    BY <1>4, <2>1, <2>2, <2>3, ServiceAcceptInv, HandleSubmitInv, HandleReturnInv, ThreadBeginInv,
       ThreadRejectInv, ThreadVerifyInv, ThreadFinishInv, LeaveInv DEF Handler
<1> QED
  BY <1>1, <1>2, <1>3, <1>4 DEF SNext

LEMMA ServiceInitInv == SInit => SInv
<1> SUFFICES ASSUME SInit PROVE SInv
  OBVIOUS
<1>1. /\ pc = [t \in Workers |-> "free"] /\ verifications = 0 /\ closing = FALSE /\ stopped = FALSE
      /\ flight = [w \in Workers |-> Idle]
  BY DEF SInit, Init
<1>2. Tasks = {} /\ Handed = {}
  BY <1>1 DEF Tasks, Handed, InThread
<1>3. SlotsCounted
  BY <1>1, <1>2, FS_EmptySet DEF SlotsCounted
<1>4. ServiceTypes /\ Gathered
  BY <1>1 DEF ServiceTypes, Places, Gathered
<1>5. ThreadsOwned
  BY <1>1 DEF ThreadsOwned, Idle
<1> QED
  BY <1>3, <1>4, <1>5 DEF SInv

\* The service's invariant: a verification slot is taken exactly by the handlers
\* between to_thread and its finally, a thread holds a registry entry only for a
\* handler that waits for it, and close() gathers every handler there is.
THEOREM ServiceInvariant == SSpec => []SInv
<1>1. SSpec => []AInv
  BY ServiceIsRegistry, AdmissionInvariant, PTL
<1> QED
  BY <1>1, ServiceInitInv, ServiceNextInv, PTL DEF SSpec

\* The safety half of CloseCompletes: when close() has returned no thread is left that
\* could restore an entry, and no verification slot is lost.
THEOREM ClosedIsQuiet == SSpec => []StoppedIsQuiet
<1>1. SInv => StoppedIsQuiet
  <2> SUFFICES ASSUME SInv, stopped
               PROVE  Tasks = {} /\ verifications = 0 /\ \A w \in Workers : flight[w] = Idle
    BY DEF StoppedIsQuiet
  <2>1. Tasks = {}
    BY DEF SInv, Gathered
  <2>2. \A w \in Workers : pc[w] = "free"
    BY <2>1 DEF Tasks
  <2>3. Handed = {}
    BY <2>2 DEF Handed, InThread
  <2>4. verifications = 0
    BY <2>3, FS_EmptySet DEF SInv, SlotsCounted
  <2>5. \A w \in Workers : flight[w] = Idle
    BY <2>2 DEF SInv, ThreadsOwned
  <2> QED
    BY <2>1, <2>4, <2>5
<1> QED
  BY <1>1, ServiceInvariant, PTL
=============================================================================
