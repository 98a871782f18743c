--------------------------- MODULE AccountProofs ---------------------------
(***************************************************************************)
(* Proofs about the accounts: AuthSession (who signs in with one, and the  *)
(* keys of the handshakes) and StaffRegister (who edits and lists them),   *)
(* for any number of users, requests, keys, restarts, accounts and pages.  *)
(*                                                                         *)
(* AuthSession: typing; the session of a user; the keys.                   *)
(* StaffRegister: typing, with what a request says of the account it is    *)
(* for; the pages and typing of the list; what the checks before a write   *)
(* have found; what a walk through the list has left behind; the columns.  *)
(***************************************************************************)
EXTENDS AuthSession, StaffRegister, TLAPS, FiniteSetTheorems

-----------------------------------------------------------------------------
(* Facts about requests in flight.                                         *)

\* What the step of a request says about its data.
LEMMA JobShapes ==
    ASSUME TypeOK, NEW h \in Requests
    PROVE  /\ job[h].at \in {"read", "write", "answer"} => job[h] \in Job
           /\ job[h].at \in {"sealed", "clear"} => job[h] \in Answer
           /\ job[h].at = "refused" => job[h] \in Refusal
           /\ job[h] # Idle =>
                job[h].at \in {"read", "write", "answer", "sealed", "clear", "refused"}
<1>1. job[h] \in Job \cup Answer \cup Refusal \cup {Idle}
  BY DEF TypeOK
<1>2. CASE job[h] \in Job
  BY <1>2 DEF Job
<1>3. CASE job[h] \in Answer
  BY <1>3 DEF Answer
<1>4. CASE job[h] \in Refusal
  BY <1>4 DEF Refusal
<1>5. CASE job[h] = Idle
  BY <1>5 DEF Idle
<1> QED
  BY <1>1, <1>2, <1>3, <1>4, <1>5

\* A request that moves on keeps its other fields.
LEMMA MovedJobs ==
    ASSUME TypeOK, NEW h \in Requests, job[h] \in Job,
           NEW at \in {"read", "write", "answer"}, Move(h, at)
    PROVE  /\ job' \in [Requests -> Job \cup Answer \cup Refusal \cup {Idle}]
           /\ job'[h] = [job[h] EXCEPT !.at = at] /\ job'[h] \in Job
           /\ job'[h].at = at /\ job'[h].kind = job[h].kind /\ job'[h].user = job[h].user
           /\ job'[h].key = job[h].key /\ job'[h].sealed = job[h].sealed
           /\ job'[h].cross = job[h].cross /\ job'[h].lapsed = job[h].lapsed
           /\ \A g \in Requests \ {h} : job'[g] = job[g]
<1>1. job' = [job EXCEPT ![h] = [job[h] EXCEPT !.at = at]]
  BY DEF Move
<1>2. [job[h] EXCEPT !.at = at] \in Job
  BY DEF Job
<1>3. job'[h] = [job[h] EXCEPT !.at = at]
  BY <1>1 DEF TypeOK
<1>4. /\ job'[h].at = at /\ job'[h].kind = job[h].kind /\ job'[h].user = job[h].user
      /\ job'[h].key = job[h].key /\ job'[h].sealed = job[h].sealed
      /\ job'[h].cross = job[h].cross /\ job'[h].lapsed = job[h].lapsed
  BY <1>3 DEF Job
<1> QED
  BY <1>1, <1>2, <1>3, <1>4 DEF TypeOK

\* A lookup drops keys and adds none, and the keys it drops are over.
LEMMA LookUpDrops ==
    ASSUME NEW k \in Keys, LookUp(k)
    PROVE  /\ held' \subseteq held /\ copied' \subseteq copied
           /\ \A x \in held \ held' : phase[x] = "over"
BY DEF LookUp

-----------------------------------------------------------------------------
(* Typing.                                                                 *)

\* What arrives is refused or becomes a request in flight.
Incoming(kind, u, key, sealed) ==
    IF Decrypts(kind, sealed) /\ ~ Usable(key)
    THEN [at |-> "refused", key |-> key]
    ELSE [at |-> "read", kind |-> kind, user |-> u, key |-> key,
          sealed |-> Decrypts(kind, sealed), cross |-> FALSE, lapsed |-> FALSE]

LEMMA Arrivals ==
    ASSUME TypeOK, NEW h \in Requests, NEW kind \in Kinds, NEW u \in Users,
           NEW key \in Keys \cup {NoKey}, NEW sealed \in BOOLEAN,
           Arrive(h, kind, u, key, sealed)
    PROVE  /\ job' = [job EXCEPT ![h] = Incoming(kind, u, key, sealed)]
           /\ Decrypts(kind, sealed) => key \in Keys
           /\ Incoming(kind, u, key, sealed) \in Job \cup Refusal
           /\ held' \subseteq held /\ copied' \subseteq copied
           /\ \A x \in held \ held' : phase[x] = "over"
<1>1. Decrypts(kind, sealed) => key \in Keys
  BY DEF Arrive, Decrypts
<1>2. Decrypts(kind, sealed) \in BOOLEAN
  BY DEF Decrypts
<1>3. Incoming(kind, u, key, sealed) \in Job \cup Refusal
  BY <1>1, <1>2 DEF Incoming, Job, Refusal
<1>4. /\ held' \subseteq held /\ copied' \subseteq copied
      /\ \A x \in held \ held' : phase[x] = "over"
  BY <1>1, LookUpDrops DEF Arrive
<1> QED
  BY <1>1, <1>3, <1>4 DEF Arrive, Incoming

\* Every step keeps the types.
LEMMA StepsTyped == TypeOK /\ [Next]_vars => TypeOK'
<1> SUFFICES ASSUME TypeOK, [Next]_vars PROVE TypeOK'
  OBVIOUS
<1> USE AuthAssumption
<1>1. ASSUME NEW h \in Requests, NEW kind \in Kinds, NEW u \in Users,
             NEW key \in Keys \cup {NoKey}, NEW sealed \in BOOLEAN,
             Arrive(h, kind, u, key, sealed)
      PROVE  TypeOK'
  <2>1. PICK j \in Job \cup Refusal : job' = [job EXCEPT ![h] = j]
    BY <1>1, Arrivals
  <2>2. held' \subseteq held /\ copied' \subseteq copied
    BY <1>1, Arrivals
  <2> QED
    BY <1>1, <2>1, <2>2 DEF TypeOK, Arrive, account
<1>2. ASSUME NEW h \in Requests, ReadUser(h) PROVE TypeOK'
  <2>1. job[h] \in Job
    BY <1>2, JobShapes DEF ReadUser, Passes
  <2>2. PICK at \in {"answer", "write"} : Move(h, at)
    BY <1>2 DEF ReadUser
  <2> QED
    BY <1>2, <2>1, <2>2, MovedJobs DEF TypeOK, ReadUser, account, keyring
<1>3. ASSUME NEW h \in Requests, Deny(h) \/ Finish(h) PROVE TypeOK'
  BY <1>3 DEF TypeOK, Deny, Finish, Leave, account, keyring
<1>4. ASSUME NEW h \in Requests, StoreToken(h) PROVE TypeOK'
  <2>1. job[h] \in Job
    BY <1>4, JobShapes DEF StoreToken
  <2>2. job' \in [Requests -> Job \cup Answer \cup Refusal \cup {Idle}]
    BY <1>4, <2>1, MovedJobs DEF StoreToken
  <2>3. PICK u \in Users : u = job[h].user
    BY <2>1 DEF Job
  <2>4. /\ session' = [session EXCEPT ![u] = TRUE] /\ issued' = [issued EXCEPT ![u] = TRUE]
        /\ ended' = [ended EXCEPT ![u] = ended[u] /\ job[h].kind = "refresh"]
        /\ crossed' = [crossed EXCEPT ![u] = job[h].kind = "refresh"
                                               /\ (crossed[u] \/ job[h].cross)]
    BY <1>4, <2>3 DEF StoreToken, Issue, TypeOK
  <2>5. ended' \in [Users -> BOOLEAN] /\ crossed' \in [Users -> BOOLEAN]
    BY <2>4 DEF TypeOK
  <2>6. /\ session' \in [Users -> BOOLEAN] /\ issued' \in [Users -> BOOLEAN]
        /\ \A x \in Users : session'[x] => issued'[x]
    BY <2>4 DEF TypeOK
  <2> QED
    BY <1>4, <2>2, <2>5, <2>6 DEF TypeOK, StoreToken, keyring
<1>5. ASSUME NEW h \in Requests, ClearToken(h) PROVE TypeOK'
  <2>1. job[h] \in Job
    BY <1>5, JobShapes DEF ClearToken
  <2>2. PICK u \in Users : u = job[h].user
    BY <2>1 DEF Job
  <2>3. job' = [g \in Requests |->
                  CASE g = h          -> [job[g] EXCEPT !.at = "answer"]
                    [] Crossing(g, u) -> [job[g] EXCEPT !.cross = TRUE]
                    [] OTHER          -> job[g]]
    BY <1>5, <2>2 DEF ClearToken
  <2>4. ASSUME NEW g \in Requests
        PROVE  job'[g] \in Job \cup Answer \cup Refusal \cup {Idle}
    <3>1. ASSUME job[g] \in Job
          PROVE  [job[g] EXCEPT !.at = "answer"] \in Job /\ [job[g] EXCEPT !.cross = TRUE] \in Job
      BY <3>1 DEF Job
    <3>2. Crossing(g, u) => job[g] \in Job
      BY JobShapes DEF Crossing
    <3> QED
      BY <2>1, <2>3, <3>1, <3>2 DEF TypeOK
  <2>5. job' \in [Requests -> Job \cup Answer \cup Refusal \cup {Idle}]
    BY <2>3, <2>4
  <2> QED
    BY <1>5, <2>2, <2>5 DEF TypeOK, ClearToken, keyring
<1>6. ASSUME NEW h \in Requests, SendAnswer(h) PROVE TypeOK'
  <2>1. job[h] \in Job
    BY <1>6, JobShapes DEF SendAnswer
  <2>2. PICK key \in Keys \cup {NoKey} : key = job[h].key
    BY <2>1 DEF Job
  <2>3. PICK j : /\ j \in Answer
                 /\ job' = [job EXCEPT ![h] = j]
    <3>1. \A at \in {"sealed", "clear"} :
            [at |-> at, key |-> key, sealed |-> job[h].sealed, lapsed |-> job[h].lapsed]
              \in Answer
      BY <2>1, <2>2 DEF Job, Answer
    <3> QED
      BY <1>6, <2>2, <3>1 DEF SendAnswer
  <2>4. held' \subseteq held /\ copied' \subseteq copied
    BY <1>6, <2>2, LookUpDrops DEF SendAnswer
  <2> QED
    BY <1>6, <2>3, <2>4 DEF TypeOK, SendAnswer, account
<1>7. ASSUME NEW k \in Keys, NEW arrives \in BOOLEAN, Handshake(k, arrives) PROVE TypeOK'
  BY <1>7 DEF TypeOK, Handshake, account
<1>8. ASSUME NEW k \in Keys, Expire(k) PROVE TypeOK'
  <2>1. ASSUME NEW h \in Requests
        PROVE  job'[h] \in Job \cup Answer \cup Refusal \cup {Idle}
    <3>1. ASSUME job[h] \in Job PROVE [job[h] EXCEPT !.lapsed = TRUE] \in Job
      BY <3>1 DEF Job
    <3> QED
      BY <1>8, <3>1, JobShapes DEF Expire, TypeOK
  <2>2. job' \in [Requests -> Job \cup Answer \cup Refusal \cup {Idle}]
    BY <1>8, <2>1 DEF Expire
  <2> QED
    BY <1>8, <2>2 DEF TypeOK, Expire, account
<1>9. ASSUME Restart PROVE TypeOK'
  BY <1>9 DEF TypeOK, Restart, account
<1>10. CASE UNCHANGED vars
  BY <1>10 DEF TypeOK, vars
<1> QED
  BY <1>1, <1>2, <1>3, <1>4, <1>5, <1>6, <1>7, <1>8, <1>9, <1>10 DEF Next, Serve

LEMMA TypedAtStart == Init => TypeOK
BY AuthAssumption DEF Init, TypeOK

\* Every reachable state is typed, and only a user who was given tokens has a session.
THEOREM Typing == Spec => []TypeOK
BY TypedAtStart, StepsTyped, PTL DEF Spec

-----------------------------------------------------------------------------
(* The session of a user: a refresh that is about to store its token for a *)
(* user who has logged out and has no session read before the logout.      *)

OldRead(h) ==
    /\ job[h].at = "write" /\ job[h].kind = "refresh"
    /\ ended[job[h].user] /\ ~ session[job[h].user]

OldReadIsCross == \A h \in Requests : OldRead(h) => job[h].cross

SessionInv == TypeOK /\ EndedSessionsStayEnded /\ OldReadIsCross

\* A step that changes no session and moves no request to its write.
LEMMA QuietSession ==
    ASSUME SessionInv, session' = session, ended' = ended, crossed' = crossed,
           \A h \in Requests : job'[h].at = "write" =>
             /\ job[h].at = "write" /\ job'[h].kind = job[h].kind
             /\ job'[h].user = job[h].user /\ job'[h].cross = job[h].cross
    PROVE  EndedSessionsStayEnded' /\ OldReadIsCross'
<1>1. EndedSessionsStayEnded'
  BY DEF SessionInv, EndedSessionsStayEnded
<1>2. OldReadIsCross'
  BY DEF SessionInv, OldReadIsCross, OldRead
<1> QED
  BY <1>1, <1>2

LEMMA SessionSteps == SessionInv /\ [Next]_vars => EndedSessionsStayEnded' /\ OldReadIsCross'
<1> SUFFICES ASSUME SessionInv, [Next]_vars PROVE EndedSessionsStayEnded' /\ OldReadIsCross'
  OBVIOUS
<1>0. TypeOK
  BY DEF SessionInv
<1>1. ASSUME NEW h \in Requests, NEW kind \in Kinds, NEW u \in Users,
             NEW key \in Keys \cup {NoKey}, NEW sealed \in BOOLEAN,
             Arrive(h, kind, u, key, sealed)
      PROVE  EndedSessionsStayEnded' /\ OldReadIsCross'
  <2>1. PICK j : j = Incoming(kind, u, key, sealed)
    OBVIOUS
  <2>2. j.at # "write"
    BY <2>1 DEF Incoming
  <2>3. job' = [job EXCEPT ![h] = j]
    BY <1>0, <1>1, <2>1, Arrivals
  <2> QED
    BY <1>0, <1>1, <2>2, <2>3, QuietSession DEF TypeOK, Arrive, account
<1>2. ASSUME NEW h \in Requests, ReadUser(h) PROVE EndedSessionsStayEnded' /\ OldReadIsCross'
  <2>1. job[h] \in Job
    BY <1>0, <1>2, JobShapes DEF ReadUser, Passes
  <2>2. PICK at \in {"answer", "write"} : Move(h, at)
    BY <1>2 DEF ReadUser
  <2>3. /\ job'[h].kind = job[h].kind /\ job'[h].user = job[h].user
        /\ \A g \in Requests \ {h} : job'[g] = job[g]
    BY <1>0, <2>1, <2>2, MovedJobs
  <2>4. job[h].kind = "refresh" => session[job[h].user]
    BY <1>2 DEF ReadUser, Passes
  <2>5. UNCHANGED <<session, ended, crossed>>
    BY <1>2 DEF ReadUser, account
  <2>6. EndedSessionsStayEnded'
    BY <2>5 DEF SessionInv, EndedSessionsStayEnded
  <2>7. OldReadIsCross'
    BY <2>3, <2>4, <2>5 DEF SessionInv, OldReadIsCross, OldRead
  <2> QED
    BY <2>6, <2>7
<1>3. ASSUME NEW h \in Requests, Deny(h) \/ Finish(h)
      PROVE  EndedSessionsStayEnded' /\ OldReadIsCross'
  BY <1>0, <1>3, QuietSession DEF TypeOK, Deny, Finish, Leave, Idle, account
<1>4. ASSUME NEW h \in Requests, StoreToken(h) PROVE EndedSessionsStayEnded' /\ OldReadIsCross'
  <2>1. job[h] \in Job
    BY <1>0, <1>4, JobShapes DEF StoreToken
  <2>2. PICK u \in Users : u = job[h].user
    BY <2>1 DEF Job
  <2>3. /\ job'[h].at = "answer" /\ \A g \in Requests \ {h} : job'[g] = job[g]
    BY <1>0, <1>4, <2>1, MovedJobs DEF StoreToken
  <2>4. /\ session' = [session EXCEPT ![u] = TRUE]
        /\ ended' = [ended EXCEPT ![u] = ended[u] /\ job[h].kind = "refresh"]
        /\ crossed' = [crossed EXCEPT ![u] = job[h].kind = "refresh"
                                               /\ (crossed[u] \/ job[h].cross)]
    BY <1>0, <1>4, <2>2 DEF StoreToken, TypeOK
  <2>5. ended[u] /\ job[h].kind = "refresh" => crossed[u] \/ job[h].cross
    BY <1>4, <2>2 DEF StoreToken, SessionInv, EndedSessionsStayEnded, OldReadIsCross, OldRead
  <2>6. EndedSessionsStayEnded'
    BY <1>0, <2>4, <2>5 DEF SessionInv, EndedSessionsStayEnded, TypeOK
  <2>7. ASSUME NEW g \in Requests, OldRead(g)' PROVE job'[g].cross
    <3>1. g # h /\ job'[g] = job[g]
      BY <2>3, <2>7 DEF OldRead
    <3>2. job[g].user \in Users
      BY <1>0, <2>7, <3>1, JobShapes DEF OldRead, Job
    <3>3. job[g].user # u
      BY <1>0, <2>4, <2>7, <3>1, <3>2 DEF OldRead, TypeOK
    <3>4. OldRead(g)
      BY <1>0, <2>4, <2>7, <3>1, <3>2, <3>3 DEF OldRead, TypeOK
    <3> QED
      BY <3>1, <3>4 DEF SessionInv, OldReadIsCross
  <2> QED
    BY <2>6, <2>7 DEF OldReadIsCross
<1>5. ASSUME NEW h \in Requests, ClearToken(h) PROVE EndedSessionsStayEnded' /\ OldReadIsCross'
  <2>1. job[h] \in Job
    BY <1>0, <1>5, JobShapes DEF ClearToken
  <2>2. PICK u \in Users : u = job[h].user
    BY <2>1 DEF Job
  <2>3. job' = [g \in Requests |->
                  CASE g = h          -> [job[g] EXCEPT !.at = "answer"]
                    [] Crossing(g, u) -> [job[g] EXCEPT !.cross = TRUE]
                    [] OTHER          -> job[g]]
    BY <1>5, <2>2 DEF ClearToken
  <2>4. /\ session' = [session EXCEPT ![u] = FALSE] /\ ended' = [ended EXCEPT ![u] = TRUE]
        /\ crossed' = [crossed EXCEPT ![u] = FALSE]
    BY <1>5, <2>2 DEF ClearToken
  <2>5. EndedSessionsStayEnded'
    BY <1>0, <2>4 DEF SessionInv, EndedSessionsStayEnded, TypeOK
  <2>6. ASSUME NEW g \in Requests, OldRead(g)' PROVE job'[g].cross
    <3>1. g # h
      <4>1. job'[h] = [job[h] EXCEPT !.at = "answer"]
        BY <1>5, <2>3 DEF ClearToken, Crossing
      <4>2. job'[h].at = "answer"
        BY <2>1, <4>1 DEF Job
      <4>3. job'[g].at = "write"
        BY <2>6 DEF OldRead
      <4> QED
        BY <4>2, <4>3
    <3>2. CASE Crossing(g, u)
      <4>1. job[g] \in Job
        BY <1>0, <3>2, JobShapes DEF Crossing
      <4>2. job'[g] = [job[g] EXCEPT !.cross = TRUE]
        BY <2>3, <3>1, <3>2
      <4> QED
        BY <4>1, <4>2 DEF Job
    <3>3. CASE ~ Crossing(g, u)
      <4>1. job'[g] = job[g]
        BY <2>3, <3>1, <3>3
      <4>2. job[g].user \in Users
        BY <1>0, <2>6, <4>1, JobShapes DEF OldRead, Job
      <4>3. job[g].user # u
        BY <2>6, <3>3, <4>1 DEF OldRead, Crossing
      <4>4. OldRead(g)
        BY <1>0, <2>4, <2>6, <4>1, <4>2, <4>3 DEF OldRead, TypeOK
      <4> QED
        BY <4>1, <4>4 DEF SessionInv, OldReadIsCross
    <3> QED
      BY <3>2, <3>3
  <2> QED
    BY <2>5, <2>6 DEF OldReadIsCross
<1>6. ASSUME NEW h \in Requests, SendAnswer(h) PROVE EndedSessionsStayEnded' /\ OldReadIsCross'
  <2>1. PICK j : j.at # "write" /\ job' = [job EXCEPT ![h] = j]
    BY <1>6 DEF SendAnswer
  <2> QED
    BY <1>0, <1>6, <2>1, QuietSession DEF TypeOK, SendAnswer, account
<1>7. ASSUME NEW k \in Keys, NEW arrives \in BOOLEAN, Handshake(k, arrives)
      PROVE  EndedSessionsStayEnded' /\ OldReadIsCross'
  BY <1>7, QuietSession DEF Handshake, account
<1>8. ASSUME NEW k \in Keys, Expire(k) PROVE EndedSessionsStayEnded' /\ OldReadIsCross'
  <2>1. ASSUME NEW h \in Requests
        PROVE  /\ job'[h].at = job[h].at
               /\ job[h].at = "write" => /\ job'[h].kind = job[h].kind
                                         /\ job'[h].user = job[h].user
                                         /\ job'[h].cross = job[h].cross
    <3>1. CASE job[h].at \in {"read", "write", "answer"} /\ job[h].key = k
      <4>1. job[h] \in Job
        BY <1>0, <3>1, JobShapes
      <4>2. job'[h] = [job[h] EXCEPT !.lapsed = TRUE]
        BY <1>8, <3>1 DEF Expire
      <4> QED
        BY <4>1, <4>2 DEF Job
    <3>2. CASE ~ (job[h].at \in {"read", "write", "answer"} /\ job[h].key = k)
      BY <1>8, <3>2 DEF Expire
    <3> QED
      BY <3>1, <3>2
  <2> QED
    BY <1>8, <2>1, QuietSession DEF Expire, account
<1>9. ASSUME Restart PROVE EndedSessionsStayEnded' /\ OldReadIsCross'
  BY <1>9, QuietSession DEF Restart, Idle, account
<1>10. CASE UNCHANGED vars
  BY <1>10, QuietSession DEF vars
<1> QED
  BY <1>1, <1>2, <1>3, <1>4, <1>5, <1>6, <1>7, <1>8, <1>9, <1>10 DEF Next, Serve

\* However refreshes, logins and logouts of a user overlap, a session that a logout ended
\* comes back without a login only through a refresh that had read it before the logout.
THEOREM LogoutHolds == Spec => []EndedSessionsStayEnded
<1>1. Init => SessionInv
  BY TypedAtStart
     DEF Init, SessionInv, EndedSessionsStayEnded, OldReadIsCross, OldRead, Idle
<1>2. SessionInv /\ [Next]_vars => SessionInv'
  BY StepsTyped, SessionSteps DEF SessionInv
<1>3. SessionInv => EndedSessionsStayEnded
  BY DEF SessionInv
<1> QED
  BY <1>1, <1>2, <1>3, PTL DEF Spec

-----------------------------------------------------------------------------
(* Keys: memory holds every key that is valid and has seen no restart, and *)
(* an encrypted request holds its key until that expires.                  *)

KeysRemembered == \A k \in Keys : phase[k] = "valid" /\ k \notin lost => k \in held

\* An encrypted request under way, whose key has not expired since it arrived.
Covered(h) == job[h].at \in {"read", "write", "answer"} /\ job[h].sealed /\ ~ job[h].lapsed

CoveredKeysWork ==
    \A h \in Requests :
        Covered(h) => job[h].key \in Keys \cap held /\ phase[job[h].key] = "valid"

KeyInv == /\ TypeOK /\ KeysRemembered /\ CoveredKeysWork
          /\ ClearAnswersAreLate /\ RefusedKeysWereLost

\* A step that drops only keys that are over, and starts no request.
LEMMA QuietKeys ==
    ASSUME KeyInv, phase' = phase, lost' = lost,
           \A k \in held \ held' : k \in Keys => phase[k] = "over",
           \A h \in Requests :
             /\ Covered(h)' => Covered(h) /\ job'[h].key = job[h].key
             /\ job'[h].at = "clear" /\ job'[h].sealed =>
                  job'[h].lapsed \/ (job[h].at = "clear" /\ job'[h] = job[h])
             /\ job'[h].at = "refused" => job[h].at = "refused" /\ job'[h] = job[h]
    PROVE  KeysRemembered' /\ CoveredKeysWork' /\ ClearAnswersAreLate' /\ RefusedKeysWereLost'
<1>1. KeysRemembered'
  BY DEF KeyInv, KeysRemembered
<1>2. CoveredKeysWork'
  <2> SUFFICES ASSUME NEW h \in Requests, Covered(h)'
               PROVE  job'[h].key \in Keys \cap held' /\ phase'[job'[h].key] = "valid"
    BY DEF CoveredKeysWork
  <2>1. PICK k : k = job[h].key
    OBVIOUS
  <2>2. k \in Keys /\ k \in held /\ phase[k] = "valid" /\ job'[h].key = k
    BY <2>1 DEF KeyInv, CoveredKeysWork
  <2> QED
    BY <2>2
<1>3. ClearAnswersAreLate'
  BY DEF KeyInv, ClearAnswersAreLate
<1>4. RefusedKeysWereLost'
  BY DEF KeyInv, RefusedKeysWereLost
<1> QED
  BY <1>1, <1>2, <1>3, <1>4

LEMMA KeySteps ==
    KeyInv /\ [Next]_vars =>
      KeysRemembered' /\ CoveredKeysWork' /\ ClearAnswersAreLate' /\ RefusedKeysWereLost'
<1> SUFFICES ASSUME KeyInv, [Next]_vars
             PROVE  KeysRemembered' /\ CoveredKeysWork' /\ ClearAnswersAreLate' /\ RefusedKeysWereLost'
  OBVIOUS
<1> DEFINE Goal == KeysRemembered' /\ CoveredKeysWork' /\ ClearAnswersAreLate' /\ RefusedKeysWereLost'
<1>0. TypeOK
  BY DEF KeyInv
<1>1. ASSUME NEW h \in Requests, NEW kind \in Kinds, NEW u \in Users,
             NEW key \in Keys \cup {NoKey}, NEW sealed \in BOOLEAN,
             Arrive(h, kind, u, key, sealed)
      PROVE  Goal
  <2>1. PICK j : j = Incoming(kind, u, key, sealed)
    OBVIOUS
  <2>2. /\ job' = [job EXCEPT ![h] = j] /\ j \in Job \cup Refusal
        /\ Decrypts(kind, sealed) => key \in Keys
        /\ held' \subseteq held
        /\ \A x \in held \ held' : phase[x] = "over"
    BY <1>0, <1>1, <2>1, Arrivals
  <2>3. UNCHANGED <<phase, lost>> /\ (key \in Keys => phase[key] # "new")
    BY <1>1 DEF Arrive
  <2>4. KeysRemembered'
    BY <2>2, <2>3 DEF KeyInv, KeysRemembered
  <2>5. CASE Decrypts(kind, sealed) /\ ~ Usable(key)
    <3>1. j = [at |-> "refused", key |-> key] /\ key \in Keys
      BY <2>1, <2>2, <2>5 DEF Incoming
    <3>2. phase[key] = "over" \/ key \in lost
      BY <1>0, <2>3, <2>5, <3>1 DEF KeyInv, KeysRemembered, Usable, TypeOK
    <3>3. RefusedKeysWereLost'
      BY <1>0, <2>2, <2>3, <3>1, <3>2 DEF KeyInv, RefusedKeysWereLost, TypeOK
    <3>4. CoveredKeysWork'
      BY <1>0, <2>2, <2>3, <3>1 DEF KeyInv, CoveredKeysWork, Covered, TypeOK
    <3>5. ClearAnswersAreLate'
      BY <1>0, <2>2, <2>3, <3>1 DEF KeyInv, ClearAnswersAreLate, TypeOK
    <3> QED
      BY <2>4, <3>3, <3>4, <3>5
  <2>6. CASE ~ (Decrypts(kind, sealed) /\ ~ Usable(key))
    <3>1. /\ j.at = "read" /\ j.key = key /\ j.sealed = Decrypts(kind, sealed)
      BY <2>1, <2>6 DEF Incoming
    <3>2. j.sealed => key \in Keys \cap held' /\ phase[key] = "valid"
      BY <2>2, <2>6, <3>1 DEF Usable
    <3>3. RefusedKeysWereLost'
      BY <1>0, <2>2, <2>3, <3>1 DEF KeyInv, RefusedKeysWereLost, TypeOK
    <3>4. CoveredKeysWork'
      BY <1>0, <2>2, <2>3, <3>1, <3>2 DEF KeyInv, CoveredKeysWork, Covered, TypeOK
    <3>5. ClearAnswersAreLate'
      BY <1>0, <2>2, <2>3, <3>1 DEF KeyInv, ClearAnswersAreLate, TypeOK
    <3> QED
      BY <2>4, <3>3, <3>4, <3>5
  <2> QED
    BY <2>5, <2>6
<1>2. ASSUME NEW h \in Requests, ReadUser(h) PROVE Goal
  <2>1. job[h] \in Job /\ job[h].at = "read"
    BY <1>0, <1>2, JobShapes DEF ReadUser, Passes
  <2>2. PICK at \in {"answer", "write"} : Move(h, at)
    BY <1>2 DEF ReadUser
  <2>3. /\ job'[h].at \in {"answer", "write"} /\ job'[h].key = job[h].key
        /\ job'[h].sealed = job[h].sealed /\ job'[h].lapsed = job[h].lapsed
        /\ \A g \in Requests \ {h} : job'[g] = job[g]
    BY <1>0, <2>1, <2>2, MovedJobs
  <2>4. UNCHANGED <<held, phase, lost>>
    BY <1>2 DEF ReadUser, keyring
  <2> QED
    BY <2>1, <2>3, <2>4, QuietKeys DEF Covered
<1>3. ASSUME NEW h \in Requests, Deny(h) \/ Finish(h) PROVE Goal
  <2>1. job' = [job EXCEPT ![h] = Idle] /\ UNCHANGED <<held, phase, lost>>
    BY <1>3 DEF Deny, Finish, Leave, keyring
  <2>2. Idle.at = "idle"
    BY DEF Idle
  <2> QED
    BY <1>0, <2>1, <2>2, QuietKeys DEF Covered, TypeOK
<1>4. ASSUME NEW h \in Requests, StoreToken(h) PROVE Goal
  <2>1. job[h] \in Job /\ job[h].at = "write"
    BY <1>0, <1>4, JobShapes DEF StoreToken
  <2>2. /\ job'[h].at = "answer" /\ job'[h].key = job[h].key
        /\ job'[h].sealed = job[h].sealed /\ job'[h].lapsed = job[h].lapsed
        /\ \A g \in Requests \ {h} : job'[g] = job[g]
    BY <1>0, <1>4, <2>1, MovedJobs DEF StoreToken
  <2>3. UNCHANGED <<held, phase, lost>>
    BY <1>4 DEF StoreToken, keyring
  <2> QED
    BY <2>1, <2>2, <2>3, QuietKeys DEF Covered
<1>5. ASSUME NEW h \in Requests, ClearToken(h) PROVE Goal
  <2>1. job[h] \in Job /\ job[h].at = "write"
    BY <1>0, <1>5, JobShapes DEF ClearToken
  <2>2. PICK u : u = job[h].user
    OBVIOUS
  <2>3. job' = [g \in Requests |->
                  CASE g = h          -> [job[g] EXCEPT !.at = "answer"]
                    [] Crossing(g, u) -> [job[g] EXCEPT !.cross = TRUE]
                    [] OTHER          -> job[g]]
    BY <1>5, <2>2 DEF ClearToken
  <2>4. ASSUME NEW g \in Requests
        PROVE  \/ job'[g] = job[g]
               \/ /\ job[g].at = "write" /\ job'[g].at \in {"write", "answer"}
                  /\ job'[g].key = job[g].key /\ job'[g].sealed = job[g].sealed
                  /\ job'[g].lapsed = job[g].lapsed
    <3>1. CASE g = h
      BY <2>1, <2>3, <3>1 DEF Job
    <3>2. CASE g # h /\ Crossing(g, u)
      <4>1. job[g] \in Job /\ job[g].at = "write"
        BY <1>0, <3>2, JobShapes DEF Crossing
      <4>2. job'[g] = [job[g] EXCEPT !.cross = TRUE]
        BY <2>3, <3>2
      <4> QED
        BY <4>1, <4>2 DEF Job
    <3>3. CASE g # h /\ ~ Crossing(g, u)
      BY <2>3, <3>3
    <3> QED
      BY <3>1, <3>2, <3>3
  <2>5. UNCHANGED <<held, phase, lost>>
    BY <1>5 DEF ClearToken, keyring
  <2> QED
    BY <2>4, <2>5, QuietKeys DEF Covered
<1>6. ASSUME NEW h \in Requests, SendAnswer(h) PROVE Goal
  <2>1. job[h] \in Job /\ job[h].at = "answer"
    BY <1>0, <1>6, JobShapes DEF SendAnswer
  <2>2. PICK key \in Keys \cup {NoKey} : key = job[h].key
    BY <2>1 DEF Job
  <2>3. PICK j : j = [at |-> IF key \in Keys /\ Usable(key) THEN "sealed" ELSE "clear",
                      key |-> key, sealed |-> job[h].sealed, lapsed |-> job[h].lapsed]
    OBVIOUS
  <2>4. job' = [job EXCEPT ![h] = j]
    BY <1>6, <2>2, <2>3 DEF SendAnswer
  <2>5. /\ j.at \in {"sealed", "clear"} /\ j.sealed = job[h].sealed /\ j.lapsed = job[h].lapsed
        /\ j.at = "clear" => ~ (key \in Keys /\ Usable(key))
    BY <2>3
  <2>6. j.at = "clear" /\ j.sealed => j.lapsed
    BY <2>1, <2>2, <2>5 DEF KeyInv, CoveredKeysWork, Covered, Usable
  <2>7. UNCHANGED <<phase, lost>> /\ \A x \in held \ held' : phase[x] = "over"
    BY <1>6, <2>2, LookUpDrops DEF SendAnswer
  <2> QED
    BY <1>0, <2>4, <2>5, <2>6, <2>7, QuietKeys DEF Covered, TypeOK
<1>7. ASSUME NEW k \in Keys, NEW arrives \in BOOLEAN, Handshake(k, arrives) PROVE Goal
  <2>1. /\ phase[k] = "new" /\ phase' = [phase EXCEPT ![k] = "valid"]
        /\ held' = held \cup {k} /\ UNCHANGED <<job, lost>>
    BY <1>7 DEF Handshake
  <2>2. KeysRemembered' /\ ClearAnswersAreLate'
    BY <1>0, <2>1 DEF KeyInv, KeysRemembered, ClearAnswersAreLate, TypeOK
  <2>3. CoveredKeysWork'
    BY <1>0, <2>1 DEF KeyInv, CoveredKeysWork, Covered, TypeOK
  <2>4. RefusedKeysWereLost'
    BY <1>0, <2>1 DEF KeyInv, RefusedKeysWereLost, TypeOK
  <2> QED
    BY <2>2, <2>3, <2>4
<1>8. ASSUME NEW k \in Keys, Expire(k) PROVE Goal
  <2>1. phase' = [phase EXCEPT ![k] = "over"] /\ UNCHANGED <<held, lost>>
    BY <1>8 DEF Expire
  <2>2. ASSUME NEW h \in Requests
        PROVE  \/ job'[h] = job[h] /\ ~ (Covered(h) /\ job[h].key = k)
               \/ job[h].at \in {"read", "write", "answer"} /\ job'[h].at = job[h].at
                    /\ job'[h].lapsed
    <3>1. CASE job[h].at \in {"read", "write", "answer"} /\ job[h].key = k
      <4>1. job[h] \in Job
        BY <1>0, <3>1, JobShapes
      <4>2. job'[h] = [job[h] EXCEPT !.lapsed = TRUE]
        BY <1>8, <3>1 DEF Expire
      <4> QED
        BY <3>1, <4>1, <4>2 DEF Job
    <3>2. CASE ~ (job[h].at \in {"read", "write", "answer"} /\ job[h].key = k)
      BY <1>8, <3>2 DEF Expire, Covered
    <3> QED
      BY <3>1, <3>2
  <2>3. KeysRemembered'
    BY <1>0, <2>1 DEF KeyInv, KeysRemembered, TypeOK
  <2>4. ClearAnswersAreLate'
    BY <2>2 DEF KeyInv, ClearAnswersAreLate
  <2>5. RefusedKeysWereLost'
    BY <1>0, <2>1, <2>2 DEF KeyInv, RefusedKeysWereLost, TypeOK
  <2>6. CoveredKeysWork'
    BY <1>0, <2>1, <2>2 DEF KeyInv, CoveredKeysWork, Covered, TypeOK
  <2> QED
    BY <2>3, <2>4, <2>5, <2>6
<1>9. ASSUME Restart PROVE Goal
  <2>1. /\ \A h \in Requests : job'[h].at = "idle"
        /\ phase' = phase /\ lost' = {k \in Keys : phase[k] # "new"}
    BY <1>9 DEF Restart, Idle
  <2> QED
    BY <2>1 DEF KeysRemembered, CoveredKeysWork, Covered, ClearAnswersAreLate,
                RefusedKeysWereLost
<1>10. CASE UNCHANGED vars
  BY <1>10, QuietKeys DEF vars, Covered
<1> QED
  BY <1>1, <1>2, <1>3, <1>4, <1>5, <1>6, <1>7, <1>8, <1>9, <1>10 DEF Next, Serve

LEMMA KeysAlways == Spec => []KeyInv
<1>1. Init => KeyInv
  BY TypedAtStart
     DEF Init, KeyInv, KeysRemembered, CoveredKeysWork, Covered, ClearAnswersAreLate,
         RefusedKeysWereLost, Idle
<1>2. KeyInv /\ [Next]_vars => KeyInv'
  BY StepsTyped, KeySteps DEF KeyInv
<1> QED
  BY <1>1, <1>2, PTL DEF Spec

\* An encrypted request is answered in the clear only if its key expired meanwhile,
\* whatever other requests have looked up and dropped.
THEOREM AnswersStaySealed == Spec => []ClearAnswersAreLate
<1>1. KeyInv => ClearAnswersAreLate
  BY DEF KeyInv
<1> QED
  BY <1>1, KeysAlways, PTL

\* A key that has not expired is refused only after a restart of the server.
THEOREM KeysAreKept == Spec => []RefusedKeysWereLost
<1>1. KeyInv => RefusedKeysWereLost
  BY DEF KeyInv
<1> QED
  BY <1>1, KeysAlways, PTL

-----------------------------------------------------------------------------
(* The accounts: typing, and what a request has found out so far.          *)

AccountsTyped ==
    /\ users \in Seq(User) /\ Len(users) <= MaxStaff
    /\ edit \in [Editors -> Edit \cup {NoEdit}]

ListTyped ==
    /\ walk \in Walk \cup {NoWalk}
    /\ seen \subseteq Ids
    /\ start \subseteq DOMAIN users
    /\ <<twice, grown, shrunk, slipped>> \in BOOLEAN \X BOOLEAN \X BOOLEAN \X BOOLEAN

LEMMA TypedInParts == StaffTypeOK <=> AccountsTyped /\ ListTyped
BY DEF StaffTypeOK, AccountsTyped, ListTyped

\* A creation carries every column, an update names an account that is there.
Fits(j) ==
    IF j.who = New
    THEN j.at # "email" /\ j.email \in Emails /\ j.phone \in Phones \cup {NoPhone}
    ELSE j.who \in DOMAIN users

EditsFit == \A h \in Editors : edit[h] # NoEdit => Fits(edit[h])

AccountsInv == AccountsTyped /\ EditsFit

LEMMA EditShapes ==
    ASSUME AccountsInv, NEW h \in Editors
    PROVE  /\ edit[h] # NoEdit => edit[h] \in Edit /\ Fits(edit[h])
           /\ edit[h].at \in {"idle", "email", "phone", "write", "remove"}
           /\ edit[h].at = "idle" <=> edit[h] = NoEdit
           /\ edit[h].at \in {"email", "phone", "write"} =>
                edit[h] \in [at: {"email", "phone", "write"}, who: Ids \cup {New},
                             email: Emails \cup {Keep}, phone: Phones \cup {NoPhone, Keep},
                             late: BOOLEAN]
           /\ edit[h].at = "remove" => edit[h].who \in DOMAIN users
<1>1. edit[h] \in Edit \cup {NoEdit}
  BY DEF AccountsInv, AccountsTyped
<1>2. edit[h] # NoEdit => Fits(edit[h])
  BY DEF AccountsInv, EditsFit
<1>3. CASE edit[h] \in [at: {"remove"}, who: Ids]
  BY <1>2, <1>3, StaffAssumption DEF Fits, Edit, NoEdit, Ids, New
<1>4. CASE edit[h] \in [at: {"email", "phone", "write"}, who: Ids \cup {New},
                        email: Emails \cup {Keep}, phone: Phones \cup {NoPhone, Keep},
                        late: BOOLEAN]
  BY <1>2, <1>4 DEF Edit, NoEdit
<1>5. CASE edit[h] = NoEdit
  BY <1>5 DEF NoEdit
<1> QED  BY <1>1, <1>3, <1>4, <1>5 DEF Edit

LEMMA UsersAreSequence ==
    ASSUME AccountsTyped
    PROVE  /\ Len(users) \in Nat /\ DOMAIN users = 1..Len(users)
           /\ DOMAIN users \subseteq Ids
           /\ \A u \in DOMAIN users : users[u] \in User
BY StaffAssumption DEF AccountsTyped, Ids

\* One request moves on or ends, and no account goes away.
LEMMA EditSet ==
    ASSUME AccountsInv, NEW h \in Editors, NEW j \in Edit \cup {NoEdit},
           edit' = [edit EXCEPT ![h] = j],
           users' \in Seq(User), Len(users') <= MaxStaff, DOMAIN users \subseteq DOMAIN users',
           j # NoEdit => Fits(j)
    PROVE  AccountsInv'
<1>1. AccountsTyped'
  BY DEF AccountsInv, AccountsTyped
<1>2. ASSUME NEW g \in Editors, edit'[g] # NoEdit PROVE Fits(edit[g])'
  <2>1. Fits(edit'[g])
    BY <1>2 DEF AccountsInv, AccountsTyped, EditsFit
  <2> QED  BY <2>1 DEF Fits
<1> QED  BY <1>1, <1>2 DEF AccountsInv, EditsFit

\* Some requests are marked as late, and others end.
LEMMA EditsMarked ==
    ASSUME AccountsInv, NEW email, NEW phone,
           edit' = [g \in Editors |-> edit'[g]],
           \A g \in Editors :
              \/ edit'[g] = NoEdit
              \/ edit'[g] = edit[g]
              \/ /\ Overtaken(edit[g], email, phone)
                 /\ edit'[g] = [edit[g] EXCEPT !.late = TRUE],
           users' \in Seq(User), Len(users') <= MaxStaff, DOMAIN users \subseteq DOMAIN users'
    PROVE  AccountsInv'
<1>1. ASSUME NEW g \in Editors
      PROVE  edit'[g] \in Edit \cup {NoEdit} /\ (edit'[g] # NoEdit => Fits(edit'[g]))
  <2>1. CASE edit'[g] = NoEdit
    BY <2>1
  <2>2. CASE edit'[g] = edit[g]
    BY <2>2 DEF AccountsInv, AccountsTyped, EditsFit
  <2>3. CASE Overtaken(edit[g], email, phone) /\ edit'[g] = [edit[g] EXCEPT !.late = TRUE]
    <3>1. edit[g].at \in {"phone", "write"}
      BY <2>3 DEF Overtaken
    <3>2. edit[g] # NoEdit /\ Fits(edit[g])
      BY <3>1, EditShapes DEF NoEdit
    <3>3. edit[g] \in [at: {"email", "phone", "write"}, who: Ids \cup {New},
                       email: Emails \cup {Keep}, phone: Phones \cup {NoPhone, Keep},
                       late: BOOLEAN]
      BY <3>1, EditShapes
    <3> QED  BY <2>3, <3>2, <3>3 DEF Fits, Edit
  <2> QED  BY <1>1, <2>1, <2>2, <2>3
<1>2. AccountsTyped'
  BY <1>1 DEF AccountsTyped
<1>3. ASSUME NEW g \in Editors, edit'[g] # NoEdit PROVE Fits(edit[g])'
  BY <1>1, <1>3 DEF Fits
<1> QED  BY <1>2, <1>3 DEF AccountsInv, EditsFit

\* The account that AddStaff makes is the last one; the others stay.
LEMMA AddedLast ==
    ASSUME AccountsTyped, NEW email \in Emails, NEW phone \in Phones \cup {NoPhone},
           AddStaff(email, phone)
    PROVE  /\ users' \in Seq(User) /\ Len(users') = Len(users) + 1 /\ Len(users') <= MaxStaff
           /\ DOMAIN users' = DOMAIN users \cup {Len(users) + 1}
           /\ Len(users) + 1 \notin DOMAIN users
           /\ users'[Len(users) + 1] = [email |-> email, phone |-> phone, live |-> TRUE]
           /\ \A u \in DOMAIN users : users'[u] = users[u]
<1>1. [email |-> email, phone |-> phone, live |-> TRUE] \in User
  BY DEF User
<1>2. users' = Append(users, [email |-> email, phone |-> phone, live |-> TRUE])
  BY DEF AddStaff
<1>3. Len(users) < MaxStaff /\ Len(users) \in Nat
  BY DEF AddStaff, AccountsTyped
<1>4. users' \in Seq(User) /\ Len(users') = Len(users) + 1
  BY <1>1, <1>2 DEF AccountsTyped
<1>5. DOMAIN users' = 1..(Len(users) + 1) /\ DOMAIN users = 1..Len(users)
  BY <1>4 DEF AccountsTyped
<1>6. /\ users'[Len(users) + 1] = [email |-> email, phone |-> phone, live |-> TRUE]
      /\ \A u \in 1..Len(users) : users'[u] = users[u]
  BY <1>1, <1>2, <1>3 DEF AccountsTyped
<1> QED  BY <1>3, <1>4, <1>5, <1>6, StaffAssumption

\* What an account is after the write of a request for it.
LEMMA WrittenAccount ==
    ASSUME AccountsInv, NEW h \in Editors, WriteStaff(h), Free(edit[h])
    PROVE  /\ edit[h].who \in DOMAIN users
           /\ users' \in Seq(User) /\ Len(users') = Len(users) /\ DOMAIN users' = DOMAIN users
           /\ \A u \in DOMAIN users \ {edit[h].who} : users'[u] = users[u]
           /\ users'[edit[h].who].live = users[edit[h].who].live
           /\ users'[edit[h].who].email = Chosen(edit[h].email, users[edit[h].who].email)
           /\ users'[edit[h].who].phone = Chosen(edit[h].phone, users[edit[h].who].phone)
<1> DEFINE w == edit[h].who
           row == Updated(users[w], edit[h])
<1>1. edit[h].at = "write" /\ w # New
  BY DEF WriteStaff
<1>2. /\ edit[h].email \in Emails \cup {Keep}
      /\ edit[h].phone \in Phones \cup {NoPhone, Keep}
  BY <1>1, EditShapes
<1>3. w \in DOMAIN users
  BY <1>1, EditShapes DEF NoEdit, Fits
<1>4. users[w] \in User
  BY <1>3, UsersAreSequence DEF AccountsInv
<1>5. /\ Chosen(edit[h].email, users[w].email) \in Emails
      /\ Chosen(edit[h].phone, users[w].phone) \in Phones \cup {NoPhone}
  BY <1>2, <1>4 DEF Chosen, User
<1>6. row \in User /\ row.live = users[w].live
      /\ row.email = Chosen(edit[h].email, users[w].email)
      /\ row.phone = Chosen(edit[h].phone, users[w].phone)
  BY <1>4, <1>5 DEF User, Updated
<1>7. users' = [users EXCEPT ![w] = row]
  BY DEF WriteStaff
<1> HIDE DEF row
<1>8. users' \in Seq(User) /\ Len(users') = Len(users) /\ DOMAIN users' = DOMAIN users
  BY <1>3, <1>6, <1>7 DEF AccountsInv, AccountsTyped
<1> QED  BY <1>3, <1>6, <1>7, <1>8

LEMMA DeactivatedAccount ==
    ASSUME AccountsInv, NEW h \in Editors, DeactivateStaff(h)
    PROVE  /\ edit[h].who \in DOMAIN users
           /\ users' \in Seq(User) /\ Len(users') = Len(users) /\ DOMAIN users' = DOMAIN users
           /\ \A u \in DOMAIN users \ {edit[h].who} : users'[u] = users[u]
           /\ ~ users'[edit[h].who].live
           /\ users'[edit[h].who].email = users[edit[h].who].email
           /\ users'[edit[h].who].phone = users[edit[h].who].phone
<1> DEFINE w == edit[h].who
           row == [users[w] EXCEPT !.live = FALSE]
<1>1. w \in DOMAIN users
  BY EditShapes DEF DeactivateStaff
<1>2. users[w] \in User
  BY <1>1, UsersAreSequence DEF AccountsInv
<1>3. row \in User /\ ~ row.live /\ row.email = users[w].email /\ row.phone = users[w].phone
  BY <1>2 DEF User
<1>4. users' = [users EXCEPT ![w] = row]
  BY DEF DeactivateStaff
<1> HIDE DEF row
<1>5. users' \in Seq(User) /\ Len(users') = Len(users) /\ DOMAIN users' = DOMAIN users
  BY <1>1, <1>3, <1>4 DEF AccountsInv, AccountsTyped
<1> QED  BY <1>1, <1>3, <1>4, <1>5

LEMMA StaffStep ==
    ASSUME AccountsInv, NEW h \in Editors, StaffNext(h)
    PROVE  AccountsInv'
<1> USE StaffAssumption
<1>0. /\ users \in Seq(User) /\ Len(users) <= MaxStaff
      /\ edit[h] \in Edit \cup {NoEdit}
  BY DEF AccountsInv, AccountsTyped
<1>1. ASSUME NEW j \in Edit \cup {NoEdit}, j # NoEdit => Fits(j), Continue(h, j), users' = users
      PROVE  AccountsInv'
  BY <1>0, <1>1, EditSet DEF Continue
<1>2. ASSUME Done(h), users' = users PROVE AccountsInv'
  <2>1. Continue(h, NoEdit)
    BY <1>2 DEF Done
  <2> QED  BY <1>1, <1>2, <2>1
<1>3. ASSUME NEW email \in Emails, NEW phone \in Phones \cup {NoPhone},
             CreateStaff(h, email, phone)
      PROVE  AccountsInv'
  <2> DEFINE j == [at |-> AfterEmail(phone), who |-> New, email |-> email, phone |-> phone,
                   late |-> FALSE]
  <2>1. Continue(h, j) /\ users' = users
    BY <1>3 DEF CreateStaff, Start, Continue
  <2>2. AfterEmail(phone) \in {"phone", "write"}
    BY DEF AfterEmail
  <2>3. j \in Edit
    BY <2>2 DEF Edit
  <2>4. Fits(j)
    BY <2>2 DEF Fits
  <2> QED  BY <1>1, <2>1, <2>3, <2>4
<1>4. ASSUME NEW u \in DOMAIN users, NEW email \in Emails \cup {Keep},
             NEW phone \in Phones \cup {NoPhone, Keep}, UpdateStaff(h, u, email, phone)
      PROVE  AccountsInv'
  <2> DEFINE at == IF email = Keep THEN AfterEmail(phone) ELSE "email"
             j == [at |-> at, who |-> u, email |-> email, phone |-> phone, late |-> FALSE]
  <2>1. Continue(h, j) /\ users' = users
    BY <1>4 DEF UpdateStaff, Start, Continue
  <2>2. at \in {"email", "phone", "write"}
    BY DEF AfterEmail
  <2>3. u \in Ids /\ u # New
    BY UsersAreSequence DEF AccountsInv, Ids, New
  <2> HIDE DEF at
  <2>4. j \in Edit
    BY <2>2, <2>3 DEF Edit
  <2>5. Fits(j)
    BY <2>3 DEF Fits
  <2> QED  BY <1>1, <2>1, <2>4, <2>5
<1>5. ASSUME NEW at \in {"phone", "write"}, edit[h].at \in {"email", "phone"}
      PROVE  [edit[h] EXCEPT !.at = at] \in Edit /\ Fits([edit[h] EXCEPT !.at = at])
  <2>1. edit[h] # NoEdit /\ Fits(edit[h])
    BY <1>5, EditShapes DEF NoEdit
  <2>2. edit[h] \in [at: {"email", "phone", "write"}, who: Ids \cup {New},
                     email: Emails \cup {Keep}, phone: Phones \cup {NoPhone, Keep},
                     late: BOOLEAN]
    BY <1>5, EditShapes
  <2> QED  BY <1>5, <2>1, <2>2 DEF Fits, Edit
<1>6. CASE CheckEmail(h)
  <2>1. AfterEmail(edit[h].phone) \in {"phone", "write"}
    BY DEF AfterEmail
  <2> QED  BY <1>1, <1>2, <1>5, <1>6, <2>1 DEF CheckEmail
<1>7. CASE CheckPhone(h)
  BY <1>1, <1>2, <1>5, <1>7 DEF CheckPhone
<1>8. ASSUME NEW email, NEW phone, Written(h, email, phone),
             users' \in Seq(User), Len(users') <= MaxStaff, DOMAIN users \subseteq DOMAIN users'
      PROVE  AccountsInv'
  <2>1. edit' = [g \in Editors |-> edit'[g]]
    BY <1>8 DEF Written
  <2>2. ASSUME NEW g \in Editors
        PROVE  \/ edit'[g] = NoEdit
               \/ edit'[g] = edit[g]
               \/ /\ Overtaken(edit[g], email, phone)
                  /\ edit'[g] = [edit[g] EXCEPT !.late = TRUE]
    BY <1>8 DEF Written
  <2> QED  BY <1>8, <2>1, <2>2, EditsMarked
<1>9. CASE InsertStaff(h)
  <2>1. /\ edit[h].email \in Emails /\ edit[h].phone \in Phones \cup {NoPhone}
    BY <1>9, EditShapes DEF InsertStaff, NoEdit, Fits
  <2>2. CASE Free(edit[h])
    <3>1. /\ AddStaff(edit[h].email, edit[h].phone)
          /\ Written(h, edit[h].email, edit[h].phone)
      BY <1>9, <2>2 DEF InsertStaff
    <3> QED  BY <1>8, <2>1, <3>1, AddedLast DEF AccountsInv
  <2> QED  BY <1>2, <1>9, <2>2 DEF InsertStaff
<1>10. CASE WriteStaff(h)
  <2>1. CASE Free(edit[h])
    <3>1. Written(h, edit[h].email, edit[h].phone)
      BY <1>10, <2>1 DEF WriteStaff
    <3> QED  BY <1>0, <1>8, <1>10, <2>1, <3>1, WrittenAccount
  <2> QED  BY <1>2, <1>10, <2>1 DEF WriteStaff
<1>11. ASSUME NEW u \in DOMAIN users, RemoveStaff(h, u) PROVE AccountsInv'
  <2> DEFINE j == [at |-> "remove", who |-> u]
  <2>1. Continue(h, j) /\ users' = users
    BY <1>11 DEF RemoveStaff, Start, Continue
  <2>2. u \in Ids /\ u # New
    BY UsersAreSequence DEF AccountsInv, Ids, New
  <2>3. j \in Edit /\ Fits(j)
    BY <2>2 DEF Edit, Fits
  <2> QED  BY <1>1, <2>1, <2>3
<1>12. CASE DeactivateStaff(h)
  <2>1. edit' = [edit EXCEPT ![h] = NoEdit]
    BY <1>12 DEF DeactivateStaff, Done, Continue
  <2> QED  BY <1>0, <1>12, <2>1, DeactivatedAccount, EditSet
<1>13. CASE CutOff(h)
  BY <1>2, <1>13 DEF CutOff
<1> QED  BY <1>3, <1>4, <1>6, <1>7, <1>9, <1>10, <1>11, <1>12, <1>13 DEF StaffNext

LEMMA SeedStep ==
    ASSUME AccountsInv, SeedStaff
    PROVE  AccountsInv'
<1>1. AddStaff(SeedEmail, NoPhone)
  BY DEF SeedStaff
<1>2. edit' = [g \in Editors |-> edit'[g]]
  BY DEF SeedStaff
<1>3. ASSUME NEW g \in Editors
      PROVE  \/ edit'[g] = NoEdit
             \/ edit'[g] = edit[g]
             \/ /\ Overtaken(edit[g], SeedEmail, NoPhone)
                /\ edit'[g] = [edit[g] EXCEPT !.late = TRUE]
  BY DEF SeedStaff
<1> QED  BY <1>1, <1>2, <1>3, AddedLast, EditsMarked, StaffAssumption DEF AccountsInv

LEMMA AccountsKept ==
    ASSUME AccountsInv, [RegisterNext]_staffVars
    PROVE  AccountsInv'
<1>1. ASSUME UNCHANGED staff PROVE AccountsInv'
  BY <1>1 DEF AccountsInv, AccountsTyped, EditsFit, Fits, staff
<1>2. CASE ListNext
  <2>1. UNCHANGED staff
    BY <1>2 DEF ListNext, StartWalk, CountStaff, ReadRows, TurnPage, LeaveList
  <2> QED  BY <1>1, <2>1
<1>3. CASE UNCHANGED staffVars
  BY <1>1, <1>3 DEF staffVars, staff
<1> QED  BY <1>2, <1>3, StaffStep, SeedStep DEF RegisterNext

-----------------------------------------------------------------------------
(* The list: its pages, and typing.                                        *)

\* Whole groups of b in a.
LEMMA Division ==
    ASSUME NEW a \in Nat, NEW b \in Nat \ {0}
    PROVE  /\ a \div b \in Nat
           /\ (a \div b) * b <= a
           /\ a < (a \div b) * b + b
BY Z3

\* n things fill no more than n groups, the last one perhaps in part.
LEMMA NoMoreGroups ==
    ASSUME NEW n \in Nat \ {0}, NEW b \in Nat \ {0}, NEW q \in Nat, q * b <= n + b - 1
    PROVE  q <= n
<1> SUFFICES ASSUME q >= n + 1 PROVE FALSE
  OBVIOUS
<1>1. q * b >= (n + 1) * b
  OBVIOUS
<1>2. (n + 1) * b = n * b + b
  OBVIOUS
<1>3. n * b >= n
  OBVIOUS
<1> QED  BY <1>1, <1>2, <1>3

\* There are pages enough for the rows, and never more pages than rows, but for an empty list.
LEMMA EnoughPages ==
    ASSUME NEW n \in Nat
    PROVE  /\ TotalPages(n) \in Nat \ {0}
           /\ n <= TotalPages(n) * PageSize
           /\ n # 0 => TotalPages(n) <= n
           /\ n = 0 => TotalPages(n) = 1
<1> USE StaffAssumption
<1>1. CASE n = 0
  BY <1>1 DEF TotalPages
<1>2. CASE n # 0
  <2> DEFINE a == n + PageSize - 1
             q == a \div PageSize
  <2>1. a \in Nat /\ a >= PageSize
    BY <1>2
  <2>2. TotalPages(n) = q
    BY <1>2 DEF TotalPages
  <2> HIDE DEF a
  <2>3. q \in Nat /\ q * PageSize <= a /\ a < q * PageSize + PageSize
    BY <2>1, Division
  <2> HIDE DEF q
  <2>4. q # 0
    BY <2>1, <2>3
  <2>5. n <= q * PageSize /\ q * PageSize \in Int
    BY <2>3 DEF a
  <2>6. q <= n
    BY <1>2, <2>3, NoMoreGroups DEF a
  <2> QED  BY <1>2, <2>2, <2>3, <2>4, <2>5, <2>6
<1> QED  BY <1>1, <1>2

\* Where a page begins.
LEMMA SkipTyped ==
    ASSUME NEW page \in Nat \ {0}
    PROVE  /\ Skip(page) \in Nat
           /\ Skip(page) + PageSize = page * PageSize
           /\ Skip(page + 1) = Skip(page) + PageSize
<1>1. page - 1 \in Nat
  OBVIOUS
<1> QED  BY <1>1, StaffAssumption DEF Skip

LEMMA ListedFinite ==
    ASSUME AccountsTyped
    PROVE  /\ IsFiniteSet(Listed)
           /\ Listed \subseteq DOMAIN users /\ Listed \subseteq Ids
           /\ Cardinality(Listed) \in 0..MaxStaff
           /\ \A u : /\ IsFiniteSet({v \in Listed : v > u})
                     /\ Place(u) \in Nat
<1>1. DOMAIN users = 1..Len(users) /\ Len(users) \in Nat /\ DOMAIN users \subseteq Ids
  BY UsersAreSequence
<1>2. IsFiniteSet(Ids) /\ Cardinality(Ids) = MaxStaff
  BY FS_Interval, StaffAssumption DEF Ids
<1>3. Listed \subseteq DOMAIN users /\ Listed \subseteq Ids
  BY <1>1 DEF Listed
<1>4. IsFiniteSet(Listed) /\ Cardinality(Listed) <= MaxStaff
  BY <1>2, <1>3, FS_Subset
<1>5. Cardinality(Listed) \in Nat
  BY <1>4, FS_CardinalityType
<1>6. ASSUME NEW u PROVE IsFiniteSet({v \in Listed : v > u}) /\ Place(u) \in Nat
  <2>1. {v \in Listed : v > u} \subseteq Listed
    OBVIOUS
  <2>2. IsFiniteSet({v \in Listed : v > u})
    BY <1>4, <2>1, FS_Subset
  <2> QED  BY <2>2, FS_CardinalityType DEF Place
<1> QED  BY <1>3, <1>4, <1>5, <1>6, StaffAssumption

\* What the walk is at in each of its states.
LEMMA WalkShapes ==
    ASSUME ListTyped
    PROVE  /\ walk.at \in {"none", "page", "end"}
           /\ walk.at = "none" <=> walk = NoWalk
           /\ walk # NoWalk => walk \in Walk
           /\ walk # NoWalk => walk.page \in Nat \ {0}
BY StaffAssumption DEF ListTyped, Walk, NoWalk

LEMMA FreshPage ==
    ASSUME NEW n \in 1..(MaxStaff + 1)
    PROVE  Page(n) \in Walk
BY DEF Page, Walk, Unread

\* A step of a handler: the list only remembers what happened to it.
LEMMA HandlerAndList ==
    ASSUME NEW h \in Editors, StaffNext(h)
    PROVE  \/ UNCHANGED <<users, listing>>
           \/ InsertStaff(h) /\ Free(edit[h]) /\ AddStaff(edit[h].email, edit[h].phone)
           \/ WriteStaff(h) /\ Free(edit[h])
           \/ DeactivateStaff(h)
BY DEF StaffNext, CreateStaff, UpdateStaff, CheckEmail, CheckPhone, InsertStaff, WriteStaff,
       RemoveStaff, CutOff

LEMMA ListKeepsType ==
    ASSUME AccountsInv, ListTyped, [RegisterNext]_staffVars
    PROVE  ListTyped'
<1>1. ASSUME UNCHANGED listing, DOMAIN users \subseteq DOMAIN users' PROVE ListTyped'
  BY <1>1 DEF ListTyped, listing
<1>2. ASSUME NEW email \in Emails, NEW phone \in Phones \cup {NoPhone}, AddStaff(email, phone)
      PROVE  ListTyped'
  BY <1>2, AddedLast DEF AccountsInv, AddStaff, Grows, ListTyped
<1>3. ASSUME NEW h \in Editors, StaffNext(h) PROVE ListTyped'
  <2>1. CASE UNCHANGED <<users, listing>>
    BY <1>1, <2>1
  <2>2. CASE InsertStaff(h) /\ AddStaff(edit[h].email, edit[h].phone)
    BY <1>2, <2>2, EditShapes DEF InsertStaff, NoEdit, Fits
  <2>3. CASE WriteStaff(h) /\ Free(edit[h])
    BY <1>1, <2>3, WrittenAccount DEF WriteStaff
  <2>4. CASE DeactivateStaff(h)
    BY <2>4, DeactivatedAccount DEF DeactivateStaff, ListTyped
  <2> QED  BY <1>3, <2>1, <2>2, <2>3, <2>4, HandlerAndList
<1>4. CASE SeedStaff
  BY <1>2, <1>4, StaffAssumption DEF SeedStaff
<1>5. CASE StartWalk
  <2>1. Page(1) \in Walk
    BY FreshPage, StaffAssumption
  <2> QED  BY <1>5, <2>1, ListedFinite DEF AccountsInv, StartWalk, ListTyped, staff
<1>6. CASE CountStaff
  <2>1. walk \in Walk
    BY <1>6, WalkShapes DEF CountStaff, NoWalk
  <2>2. Cardinality(Listed) \in 0..MaxStaff
    BY ListedFinite DEF AccountsInv
  <2>3. walk' \in Walk
    BY <1>6, <2>1, <2>2 DEF CountStaff, Walk
  <2> QED  BY <1>6, <2>3 DEF CountStaff, ListTyped, staff
<1>7. CASE ReadRows
  <2>1. walk \in Walk
    BY <1>7, WalkShapes DEF ReadRows, NoWalk
  <2>2. walk' \in Walk
    BY <1>7, <2>1 DEF ReadRows, Walk
  <2>3. Rows(walk.page) \subseteq Ids
    BY ListedFinite DEF AccountsInv, Rows
  <2>4. twice' \in BOOLEAN
    BY <1>7 DEF ReadRows, ListTyped
  <2> QED  BY <1>7, <2>2, <2>3, <2>4 DEF ReadRows, ListTyped, staff
<1>8. CASE TurnPage
  <2>1. walk \in Walk /\ walk.total \in 0..MaxStaff
    BY <1>8, WalkShapes DEF TurnPage, NoWalk, Walk, Unread
  <2>2. CASE walk.page < TotalPages(walk.total)
    <3>1. walk.page + 1 \in 1..(MaxStaff + 1)
      BY <2>1, <2>2, EnoughPages, StaffAssumption DEF Walk
    <3> QED  BY <1>8, <2>2, <3>1, FreshPage DEF TurnPage, ListTyped, staff
  <2>3. CASE ~ (walk.page < TotalPages(walk.total))
    <3>1. walk' \in Walk
      BY <1>8, <2>1, <2>3 DEF TurnPage, Walk
    <3> QED  BY <1>8, <3>1 DEF TurnPage, ListTyped, staff
  <2> QED  BY <2>2, <2>3
<1>9. CASE LeaveList
  BY <1>9 DEF LeaveList, ListTyped
<1>10. CASE UNCHANGED staffVars
  BY <1>1, <1>10 DEF staffVars, listing
<1> QED  BY <1>3, <1>4, <1>5, <1>6, <1>7, <1>8, <1>9, <1>10 DEF RegisterNext, ListNext

LEMMA StaffStart ==
    ASSUME StaffInit
    PROVE  AccountsInv /\ ListTyped
<1>1. users \in Seq(User) /\ Len(users) <= MaxStaff /\ edit = [h \in Editors |-> NoEdit]
  BY StaffAssumption DEF StaffInit
<1>2. AccountsTyped /\ EditsFit
  BY <1>1 DEF AccountsTyped, EditsFit
<1> QED  BY <1>2 DEF StaffInit, AccountsInv, ListTyped

\* Requests, accounts and the walk have the shapes of the model.
THEOREM StaffTyping == StaffSpec => []StaffTypeOK
<1>1. StaffInit => AccountsInv /\ ListTyped
  BY StaffStart
<1>2. (AccountsInv /\ ListTyped) /\ [RegisterNext]_staffVars => (AccountsInv /\ ListTyped)'
  BY AccountsKept, ListKeepsType
<1>3. AccountsInv /\ ListTyped => StaffTypeOK
  BY TypedInParts DEF AccountsInv
<1> QED  BY <1>1, <1>2, <1>3, PTL DEF StaffSpec

-----------------------------------------------------------------------------
(* What the checks before a write have found stays true, unless another    *)
(* request has overtaken the one that checked.                             *)

EmailChecked(j) ==
    j.at \in {"phone", "write"} /\ j.email \in Emails /\ ~ j.late =>
        \A u \in DOMAIN users \ {j.who} : users[u].email # j.email

PhoneChecked(j) ==
    j.at = "write" /\ j.phone \in Phones /\ ~ j.late =>
        \A u \in DOMAIN users \ {j.who} : users[u].phone = j.phone => ~ users[u].live

ChecksHold == \A h \in Editors : EmailChecked(edit[h]) /\ PhoneChecked(edit[h])

LEMMA NothingChecked ==
    ASSUME NEW j, j.at \notin {"phone", "write"}
    PROVE  EmailChecked(j) /\ PhoneChecked(j)
BY DEF EmailChecked, PhoneChecked

LEMMA ExplainedByChecks ==
    ASSUME AccountsInv, ChecksHold
    PROVE  RefusalsAreExplained
<1> SUFFICES ASSUME NEW h \in Editors, edit[h].at = "write", ~ Free(edit[h]), ~ edit[h].late
             PROVE  /\ edit[h].phone \in Phones
                    /\ \E u \in DOMAIN users \ {edit[h].who} :
                         ~ users[u].live /\ users[u].phone = edit[h].phone
  BY DEF RefusalsAreExplained
<1> DEFINE j == edit[h]
<1>1. j.email \in Emails \cup {Keep}
  BY EditShapes
<1>2. EmailChecked(j) /\ PhoneChecked(j)
  BY DEF ChecksHold
<1>3. ASSUME NEW u \in DOMAIN users \ {j.who} PROVE users[u].email # j.email
  <2>1. users[u].email \in Emails
    BY UsersAreSequence DEF AccountsInv, User
  <2> QED  BY <1>1, <1>2, <2>1, StaffAssumption DEF EmailChecked
<1>4. PICK u \in DOMAIN users \ {j.who} : j.phone \in Phones /\ users[u].phone = j.phone
  BY <1>3 DEF Free
<1> QED  BY <1>2, <1>4 DEF PhoneChecked

\* The request that h handles changes, and no account does.
LEMMA CheckedAlone ==
    ASSUME AccountsInv, ChecksHold, NEW h \in Editors, NEW j,
           Continue(h, j), users' = users,
           EmailChecked(j) /\ PhoneChecked(j)
    PROVE  ChecksHold'
<1> SUFFICES ASSUME NEW g \in Editors PROVE (EmailChecked(edit[g]) /\ PhoneChecked(edit[g]))'
  BY DEF ChecksHold
<1>1. edit'[g] = IF g = h THEN j ELSE edit[g]
  BY DEF Continue, AccountsInv, AccountsTyped
<1>2. EmailChecked(edit'[g]) /\ PhoneChecked(edit'[g])
  BY <1>1 DEF ChecksHold
<1> QED  BY <1>2 DEF EmailChecked, PhoneChecked

\* What another request writes is not what this one has checked.
LEMMA NotOvertaken ==
    ASSUME NEW j, NEW email, NEW phone, ~ Overtaken(j, email, phone)
    PROVE  /\ j.at \in {"phone", "write"} /\ j.email \in Emails => j.email # email
           /\ j.at = "write" /\ j.phone \in Phones => j.phone # phone
BY DEF Overtaken

\* A request is marked as late, ends, or was not overtaken and stays.
Marked(email, phone) ==
    \A g \in Editors :
        \/ edit'[g] = NoEdit
        \/ edit'[g] = edit[g] /\ ~ Overtaken(edit[g], email, phone)
        \/ edit[g] # NoEdit /\ edit'[g] = [edit[g] EXCEPT !.late = TRUE]
                            /\ edit[g].at \in {"phone", "write"}

LEMMA MarkedWhenWritten ==
    ASSUME NEW h \in Editors, NEW email, NEW phone, Written(h, email, phone)
    PROVE  Marked(email, phone)
BY DEF Written, Marked, Overtaken, NoEdit

LEMMA LateChecksNothing ==
    ASSUME AccountsInv, NEW g \in Editors, edit[g].at \in {"phone", "write"},
           edit'[g] = [edit[g] EXCEPT !.late = TRUE]
    PROVE  (EmailChecked(edit[g]) /\ PhoneChecked(edit[g]))'
<1>1. edit'[g].late
  BY EditShapes
<1> QED  BY <1>1 DEF EmailChecked, PhoneChecked

LEMMA CheckedByOthers ==
    ASSUME AccountsInv, ChecksHold, NEW email, NEW phone, Marked(email, phone),
           ASSUME NEW g \in Editors, edit'[g] = edit[g], ~ Overtaken(edit[g], email, phone)
           PROVE  (EmailChecked(edit[g]) /\ PhoneChecked(edit[g]))'
    PROVE  ChecksHold'
<1> SUFFICES ASSUME NEW g \in Editors PROVE (EmailChecked(edit[g]) /\ PhoneChecked(edit[g]))'
  BY DEF ChecksHold
<1>1. CASE edit'[g] = NoEdit
  BY <1>1 DEF EmailChecked, PhoneChecked, NoEdit
<1>2. CASE edit'[g] = edit[g] /\ ~ Overtaken(edit[g], email, phone)
  BY <1>2
<1>3. CASE /\ edit'[g] = [edit[g] EXCEPT !.late = TRUE]
           /\ edit[g].at \in {"phone", "write"}
  BY <1>3, LateChecksNothing
<1> QED  BY <1>1, <1>2, <1>3 DEF Marked

LEMMA CheckedByAdding ==
    ASSUME AccountsInv, ChecksHold,
           NEW email \in Emails, NEW phone \in Phones \cup {NoPhone},
           AddStaff(email, phone), Marked(email, phone)
    PROVE  ChecksHold'
<1>1. ASSUME NEW g \in Editors, edit'[g] = edit[g], ~ Overtaken(edit[g], email, phone)
      PROVE  (EmailChecked(edit[g]) /\ PhoneChecked(edit[g]))'
  <2> DEFINE n == Len(users) + 1
  <2>1. /\ DOMAIN users' = DOMAIN users \cup {n}
        /\ users'[n] = [email |-> email, phone |-> phone, live |-> TRUE]
        /\ \A u \in DOMAIN users : users'[u] = users[u]
    BY AddedLast DEF AccountsInv
  <2> HIDE DEF n
  <2>2. EmailChecked(edit[g]) /\ PhoneChecked(edit[g])
    BY DEF ChecksHold
  <2>3. EmailChecked(edit[g])'
    BY <1>1, <2>1, <2>2, NotOvertaken DEF EmailChecked
  <2>4. PhoneChecked(edit[g])'
    BY <1>1, <2>1, <2>2, NotOvertaken DEF PhoneChecked
  <2> QED  BY <2>3, <2>4
<1> QED  BY <1>1, CheckedByOthers

LEMMA CheckedByWriting ==
    ASSUME AccountsInv, ChecksHold, NEW h \in Editors, WriteStaff(h), Free(edit[h])
    PROVE  ChecksHold'
<1> DEFINE w == edit[h].who
           email == edit[h].email
           phone == edit[h].phone
<1>1. Marked(email, phone)
  BY MarkedWhenWritten DEF WriteStaff
<1>2. ASSUME NEW g \in Editors, edit'[g] = edit[g], ~ Overtaken(edit[g], email, phone)
      PROVE  (EmailChecked(edit[g]) /\ PhoneChecked(edit[g]))'
  <2>1. /\ w \in DOMAIN users /\ DOMAIN users' = DOMAIN users
        /\ \A u \in DOMAIN users \ {w} : users'[u] = users[u]
        /\ users'[w].live = users[w].live
        /\ users'[w].email = IF email = Keep THEN users[w].email ELSE email
        /\ users'[w].phone = IF phone = Keep THEN users[w].phone ELSE phone
    BY WrittenAccount DEF Chosen
  <2> HIDE DEF w, email, phone
  <2>2. EmailChecked(edit[g]) /\ PhoneChecked(edit[g])
    BY DEF ChecksHold
  <2>3. EmailChecked(edit[g])'
    BY <1>2, <2>1, <2>2, NotOvertaken DEF EmailChecked
  <2>4. PhoneChecked(edit[g])'
    BY <1>2, <2>1, <2>2, NotOvertaken DEF PhoneChecked
  <2> QED  BY <2>3, <2>4
<1> QED  BY <1>1, <1>2, CheckedByOthers

LEMMA ChecksKept ==
    ASSUME AccountsInv, ChecksHold, [RegisterNext]_staffVars
    PROVE  ChecksHold'
<1> USE StaffAssumption
<1>1. ASSUME UNCHANGED staff PROVE ChecksHold'
  BY <1>1 DEF ChecksHold, EmailChecked, PhoneChecked, staff
<1>2. ASSUME NEW h \in Editors, Done(h), users' = users PROVE ChecksHold'
  <2>1. EmailChecked(NoEdit) /\ PhoneChecked(NoEdit)
    BY NothingChecked DEF NoEdit
  <2> QED  BY <1>2, <2>1, CheckedAlone DEF Done
<1>3. ASSUME NEW h \in Editors, NEW email \in Emails, NEW phone \in Phones \cup {NoPhone},
             CreateStaff(h, email, phone)
      PROVE  ChecksHold'
  <2> DEFINE j == [at |-> AfterEmail(phone), who |-> New, email |-> email, phone |-> phone,
                   late |-> FALSE]
  <2>1. Continue(h, j) /\ users' = users
    BY <1>3 DEF CreateStaff, Start, Continue
  <2>2. EmailChecked(j)
    BY <1>3 DEF CreateStaff, EmailTaken, EmailChecked
  <2>3. PhoneChecked(j)
    BY DEF PhoneChecked, AfterEmail
  <2> QED  BY <2>1, <2>2, <2>3, CheckedAlone
<1>4. ASSUME NEW h \in Editors, NEW u \in DOMAIN users, NEW email \in Emails \cup {Keep},
             NEW phone \in Phones \cup {NoPhone, Keep}, UpdateStaff(h, u, email, phone)
      PROVE  ChecksHold'
  <2> DEFINE j == [at |-> IF email = Keep THEN AfterEmail(phone) ELSE "email", who |-> u,
                   email |-> email, phone |-> phone, late |-> FALSE]
  <2>1. Continue(h, j) /\ users' = users
    BY <1>4 DEF UpdateStaff, Start, Continue
  <2>2. EmailChecked(j)
    BY DEF EmailChecked
  <2>3. PhoneChecked(j)
    BY DEF PhoneChecked, AfterEmail
  <2> QED  BY <2>1, <2>2, <2>3, CheckedAlone
<1>5. ASSUME NEW h \in Editors, CheckEmail(h) PROVE ChecksHold'
  <2> DEFINE j == [edit[h] EXCEPT !.at = AfterEmail(edit[h].phone)]
  <2>1. CASE EmailTaken(edit[h].email, edit[h].who)
    BY <1>2, <1>5, <2>1 DEF CheckEmail
  <2>2. CASE ~ EmailTaken(edit[h].email, edit[h].who)
    <3>1. Continue(h, j) /\ users' = users
      BY <1>5, <2>2 DEF CheckEmail
    <3>2. /\ j.at = AfterEmail(edit[h].phone) /\ j.who = edit[h].who
          /\ j.email = edit[h].email /\ j.phone = edit[h].phone
      BY <1>5, EditShapes DEF CheckEmail
    <3> HIDE DEF j
    <3>3. EmailChecked(j)
      BY <2>2, <3>2 DEF EmailTaken, EmailChecked
    <3>4. PhoneChecked(j)
      BY <3>2 DEF PhoneChecked, AfterEmail
    <3> QED  BY <3>1, <3>3, <3>4, CheckedAlone
  <2> QED  BY <2>1, <2>2
<1>6. ASSUME NEW h \in Editors, CheckPhone(h) PROVE ChecksHold'
  <2> DEFINE j == [edit[h] EXCEPT !.at = "write"]
  <2>1. CASE PhoneTaken(edit[h].phone, edit[h].who)
    BY <1>2, <1>6, <2>1 DEF CheckPhone
  <2>2. CASE ~ PhoneTaken(edit[h].phone, edit[h].who)
    <3>1. Continue(h, j) /\ users' = users /\ edit[h].at = "phone"
      BY <1>6, <2>2 DEF CheckPhone
    <3>2. /\ j.at = "write" /\ j.who = edit[h].who /\ j.late = edit[h].late
          /\ j.email = edit[h].email /\ j.phone = edit[h].phone
      BY <1>6, EditShapes DEF CheckPhone
    <3> HIDE DEF j
    <3>3. EmailChecked(j)
      BY <3>1, <3>2 DEF ChecksHold, EmailChecked
    <3>4. PhoneChecked(j)
      BY <2>2, <3>2 DEF PhoneTaken, PhoneChecked
    <3> QED  BY <3>1, <3>3, <3>4, CheckedAlone
  <2> QED  BY <2>1, <2>2
<1>7. ASSUME NEW h \in Editors, InsertStaff(h) PROVE ChecksHold'
  <2>1. CASE Free(edit[h])
    <3>1. edit[h].email \in Emails /\ edit[h].phone \in Phones \cup {NoPhone}
      BY <1>7, EditShapes DEF InsertStaff, NoEdit, Fits
    <3>2. Marked(edit[h].email, edit[h].phone)
      BY <1>7, <2>1, MarkedWhenWritten DEF InsertStaff
    <3> QED  BY <1>7, <2>1, <3>1, <3>2, CheckedByAdding DEF InsertStaff
  <2>2. CASE ~ Free(edit[h])
    BY <1>2, <1>7, <2>2 DEF InsertStaff
  <2> QED  BY <2>1, <2>2
<1>8. ASSUME NEW h \in Editors, WriteStaff(h) PROVE ChecksHold'
  <2>1. CASE Free(edit[h])
    BY <1>8, <2>1, CheckedByWriting
  <2>2. CASE ~ Free(edit[h])
    BY <1>2, <1>8, <2>2 DEF WriteStaff
  <2> QED  BY <2>1, <2>2
<1>9. ASSUME NEW h \in Editors, NEW u \in DOMAIN users, RemoveStaff(h, u) PROVE ChecksHold'
  <2> DEFINE j == [at |-> "remove", who |-> u]
  <2>1. Continue(h, j) /\ users' = users
    BY <1>9 DEF RemoveStaff, Start, Continue
  <2>2. EmailChecked(j) /\ PhoneChecked(j)
    BY NothingChecked
  <2> QED  BY <2>1, <2>2, CheckedAlone
<1>10. ASSUME NEW h \in Editors, DeactivateStaff(h) PROVE ChecksHold'
  <2> SUFFICES ASSUME NEW g \in Editors PROVE (EmailChecked(edit[g]) /\ PhoneChecked(edit[g]))'
    BY DEF ChecksHold
  <2> DEFINE w == edit[h].who
  <2>1. /\ w \in DOMAIN users /\ DOMAIN users' = DOMAIN users
        /\ \A u \in DOMAIN users \ {w} : users'[u] = users[u]
        /\ ~ users'[w].live
        /\ users'[w].email = users[w].email
    BY <1>10, DeactivatedAccount
  <2>2. edit'[g] = IF g = h THEN NoEdit ELSE edit[g]
    BY <1>10 DEF DeactivateStaff, Done, Continue, AccountsInv, AccountsTyped
  <2> HIDE DEF w
  <2>3. CASE g = h
    BY <2>2, <2>3 DEF EmailChecked, PhoneChecked, NoEdit
  <2>4. CASE g # h
    <3>1. EmailChecked(edit[g]) /\ PhoneChecked(edit[g])
      BY DEF ChecksHold
    <3>2. EmailChecked(edit[g])'
      BY <2>1, <2>2, <2>4, <3>1 DEF EmailChecked
    <3>3. PhoneChecked(edit[g])'
      BY <2>1, <2>2, <2>4, <3>1 DEF PhoneChecked
    <3> QED  BY <3>2, <3>3
  <2> QED  BY <2>3, <2>4
<1>11. ASSUME NEW h \in Editors, CutOff(h) PROVE ChecksHold'
  BY <1>2, <1>11 DEF CutOff
<1>12. CASE SeedStaff
  <2>1. Marked(SeedEmail, NoPhone)
    BY <1>12 DEF SeedStaff, Marked, Overtaken, NoEdit
  <2> QED  BY <1>12, <2>1, CheckedByAdding DEF SeedStaff
<1>13. CASE ListNext
  <2>1. UNCHANGED staff
    BY <1>13 DEF ListNext, StartWalk, CountStaff, ReadRows, TurnPage, LeaveList
  <2> QED  BY <1>1, <2>1
<1>14. CASE UNCHANGED staffVars
  BY <1>1, <1>14 DEF staffVars, staff
<1> QED  BY <1>3, <1>4, <1>5, <1>6, <1>7, <1>8, <1>9, <1>10, <1>11, <1>12, <1>13, <1>14
         DEF RegisterNext, StaffNext

\* A request that has passed the checks is refused by an index only when another request has
\* written the same email or phone since, or when a removed account still has the phone.
THEOREM ExplainedRefusals == StaffSpec => []RefusalsAreExplained
<1>1. StaffInit => AccountsInv /\ ChecksHold
  BY StaffStart, NothingChecked DEF StaffInit, ChecksHold, NoEdit
<1>2. (AccountsInv /\ ChecksHold) /\ [RegisterNext]_staffVars => (AccountsInv /\ ChecksHold)'
  BY AccountsKept, ChecksKept
<1>3. AccountsInv /\ ChecksHold => RefusalsAreExplained
  BY ExplainedByChecks
<1> QED  BY <1>1, <1>2, <1>3, PTL DEF StaffSpec

-----------------------------------------------------------------------------
(* A walk through the list.  Behind is the number of rows it has passed:   *)
(* on a list that only grows, an account that was there at the start and   *)
(* has not been shown is never among them, and on a list that only shrinks *)
(* an account that has been shown always is.                               *)

Behind == Skip(walk.page) + (IF walk.read THEN PageSize ELSE 0)

Rested ==
    walk = NoWalk => seen = {} /\ start = {} /\ ~ twice /\ ~ grown /\ ~ shrunk /\ ~ slipped

StillAhead ==
    walk.at = "page" /\ ~ shrunk =>
        /\ start \subseteq Listed
        /\ \A u \in start \ seen : Place(u) >= Behind

\* Between the count and the rows the count stays right; after both, a page that is the
\* last by the count is the last.
CountRight ==
    walk.at = "page" /\ ~ shrunk /\ ~ slipped /\ walk.total # Unread =>
        IF walk.read
        THEN walk.page >= TotalPages(walk.total) => start \subseteq seen
        ELSE Cardinality(Listed) = walk.total

LeftBehind == walk.at = "page" /\ ~ grown => \A u \in seen : Place(u) < Behind

GrowingInv == Rested /\ StillAhead /\ CountRight /\ GrowingListIsCovered
ShrinkingInv == Rested /\ LeftBehind /\ ShrinkingListDoesNotRepeat

\* The larger of two lists has at least as many accounts above a place.
LEMMA MoreAbove ==
    ASSUME NEW S, NEW T, S \subseteq T, IsFiniteSet(T), NEW u
    PROVE  /\ Cardinality({v \in S : v > u}) \in Nat
           /\ Cardinality({v \in T : v > u}) \in Nat
           /\ Cardinality({v \in S : v > u}) <= Cardinality({v \in T : v > u})
<1> DEFINE A == {v \in S : v > u}
           B == {v \in T : v > u}
<1>1. A \subseteq B /\ B \subseteq T
  OBVIOUS
<1>2. IsFiniteSet(B)
  BY <1>1, FS_Subset
<1>3. IsFiniteSet(A) /\ Cardinality(A) <= Cardinality(B)
  BY <1>1, <1>2, FS_Subset
<1> QED  BY <1>2, <1>3, FS_CardinalityType

LEMMA ListedAfterAdding ==
    ASSUME AccountsTyped, NEW email \in Emails, NEW phone \in Phones \cup {NoPhone},
           AddStaff(email, phone)
    PROVE  /\ Listed \subseteq Listed'
           /\ \A u : Place(u) \in Nat /\ Place(u)' \in Nat /\ Place(u) <= Place(u)'
<1> DEFINE n == Len(users) + 1
<1>1. /\ DOMAIN users' = DOMAIN users \cup {n} /\ n \notin DOMAIN users
      /\ users'[n] = [email |-> email, phone |-> phone, live |-> TRUE]
      /\ \A u \in DOMAIN users : users'[u] = users[u]
  BY AddedLast
<1> HIDE DEF n
<1>2. Listed' = Listed \cup {n}
  BY <1>1 DEF Listed
<1>3. IsFiniteSet(Listed')
  BY <1>2, ListedFinite, FS_AddElement
<1> QED  BY <1>2, <1>3, MoreAbove DEF Place

LEMMA ListedAfterWriting ==
    ASSUME AccountsInv, NEW h \in Editors, WriteStaff(h), Free(edit[h])
    PROVE  Listed' = Listed
BY WrittenAccount DEF Listed

LEMMA ListedAfterRemoving ==
    ASSUME AccountsInv, NEW h \in Editors, DeactivateStaff(h)
    PROVE  \A u : Place(u) \in Nat /\ Place(u)' \in Nat /\ Place(u)' <= Place(u)
<1>1. Listed' \subseteq Listed
  BY DeactivatedAccount DEF Listed
<1>2. IsFiniteSet(Listed)
  BY ListedFinite DEF AccountsInv
<1> QED  BY <1>1, <1>2, MoreAbove DEF Place

\* An account in the list is not after its end.
LEMMA PlaceInList ==
    ASSUME AccountsTyped, NEW u \in Listed
    PROVE  Place(u) \in Nat /\ Place(u) < Cardinality(Listed)
<1> DEFINE A == {v \in Listed : v > u}
<1>1. IsFiniteSet(Listed) /\ Cardinality(Listed) \in Nat /\ u \in Int
  BY ListedFinite, StaffAssumption DEF Ids
<1>2. A \subseteq Listed /\ u \notin A
  BY <1>1
<1>3. IsFiniteSet(A) /\ Cardinality(A) <= Cardinality(Listed)
      /\ (Cardinality(A) = Cardinality(Listed) => A = Listed)
  BY <1>1, <1>2, FS_Subset
<1>4. Cardinality(A) \in Nat
  BY <1>3, FS_CardinalityType
<1> QED  BY <1>1, <1>2, <1>3, <1>4 DEF Place

LEMMA BehindTyped ==
    ASSUME ListTyped, walk.at = "page"
    PROVE  /\ walk.page \in Nat \ {0} /\ Skip(walk.page) \in Nat /\ Behind \in Nat
           /\ walk.read => Behind = walk.page * PageSize
           /\ ~ walk.read => Behind = Skip(walk.page)
<1>1. walk \in Walk /\ walk.page \in Nat \ {0}
  BY WalkShapes DEF NoWalk
<1>2. /\ Skip(walk.page) \in Nat
      /\ Skip(walk.page) + PageSize = walk.page * PageSize
  BY <1>1, SkipTyped
<1> QED  BY <1>1, <1>2, StaffAssumption DEF Behind

\* Whoever has read as many pages as the list has rows for has passed them all.
LEMMA AllBehind ==
    ASSUME AccountsTyped, NEW page \in Nat \ {0}, page >= TotalPages(Cardinality(Listed))
    PROVE  \A u \in Listed : Place(u) < page * PageSize
<1> DEFINE n == Cardinality(Listed)
           q == TotalPages(n)
<1>1. n \in Nat
  BY ListedFinite, StaffAssumption
<1> HIDE DEF n
<1>2. q \in Nat /\ n <= q * PageSize
  BY <1>1, EnoughPages
<1> HIDE DEF q
<1>3. q <= page
  BY DEF q, n
<1>4. q * PageSize <= page * PageSize /\ q * PageSize \in Nat /\ page * PageSize \in Nat
  BY <1>2, <1>3, StaffAssumption
<1>5. ASSUME NEW u \in Listed PROVE Place(u) < page * PageSize
  <2>1. Place(u) \in Nat /\ Place(u) < n
    BY PlaceInList DEF n
  <2> QED  BY <1>1, <1>2, <1>4, <2>1
<1> QED  BY <1>5

\* Steps that leave the walk and the list alone.
LEMMA SameList ==
    ASSUME UNCHANGED listing, Listed' = Listed
    PROVE  (GrowingInv => GrowingInv') /\ (ShrinkingInv => ShrinkingInv')
BY DEF listing, GrowingInv, ShrinkingInv, Rested, StillAhead, CountRight, LeftBehind,
       GrowingListIsCovered, ShrinkingListDoesNotRepeat, Behind, Place

LEMMA RestsWithoutWalk ==
    ASSUME Rested, UNCHANGED <<walk, seen, start, twice>>,
           walk.at # "page" => UNCHANGED <<grown, shrunk, slipped>>
    PROVE  Rested'
<1> SUFFICES ASSUME walk = NoWalk
             PROVE  seen = {} /\ start = {} /\ ~ twice /\ ~ grown' /\ ~ shrunk' /\ ~ slipped'
  BY DEF Rested
<1>1. UNCHANGED <<grown, shrunk, slipped>>
  BY DEF NoWalk
<1>2. grown' = grown /\ shrunk' = shrunk /\ slipped' = slipped
  BY <1>1
<1> QED  BY <1>2 DEF Rested

LEMMA GrowingByAdding ==
    ASSUME AccountsInv, ListTyped, GrowingInv,
           NEW email \in Emails, NEW phone \in Phones \cup {NoPhone}, AddStaff(email, phone)
    PROVE  GrowingInv'
<1>1. /\ UNCHANGED <<walk, seen, start, twice, shrunk>>
      /\ grown' = (grown \/ walk.at = "page")
      /\ slipped' = (slipped \/ (walk.at = "page" /\ walk.total # Unread /\ ~ walk.read))
  BY DEF AddStaff, Grows
<1>2. Rested'
  <2>1. walk.at # "page" => UNCHANGED <<grown, shrunk, slipped>>
    BY <1>1 DEF ListTyped
  <2> QED  BY <1>1, <2>1, RestsWithoutWalk DEF GrowingInv
<1>3. StillAhead'
  <2> SUFFICES ASSUME walk.at = "page", ~ shrunk
               PROVE  start \subseteq Listed' /\ \A u \in start \ seen : Place(u)' >= Behind
    BY <1>1 DEF StillAhead, Behind
  <2>1. /\ Listed \subseteq Listed'
        /\ \A u : Place(u) \in Nat /\ Place(u)' \in Nat /\ Place(u) <= Place(u)'
    BY ListedAfterAdding DEF AccountsInv
  <2>2. start \subseteq Listed /\ \A u \in start \ seen : Place(u) >= Behind
    BY DEF GrowingInv, StillAhead
  <2>3. Behind \in Nat
    BY BehindTyped
  <2> QED  BY <2>1, <2>2, <2>3
<1>4. CountRight'
  BY <1>1 DEF GrowingInv, CountRight
<1>5. GrowingListIsCovered'
  BY <1>1 DEF GrowingInv, GrowingListIsCovered
<1> QED  BY <1>2, <1>3, <1>4, <1>5 DEF GrowingInv

LEMMA ShrinkingByAdding ==
    ASSUME ListTyped, ShrinkingInv, NEW email, NEW phone, AddStaff(email, phone)
    PROVE  ShrinkingInv'
<1>1. /\ UNCHANGED <<walk, seen, start, twice, shrunk>>
      /\ grown' = (grown \/ walk.at = "page")
      /\ slipped' = (slipped \/ (walk.at = "page" /\ walk.total # Unread /\ ~ walk.read))
  BY DEF AddStaff, Grows
<1>2. Rested'
  <2>1. walk.at # "page" => UNCHANGED <<grown, shrunk, slipped>>
    BY <1>1 DEF ListTyped
  <2> QED  BY <1>1, <2>1, RestsWithoutWalk DEF ShrinkingInv
<1>3. LeftBehind' /\ ShrinkingListDoesNotRepeat'
  BY <1>1 DEF ShrinkingInv, LeftBehind, ShrinkingListDoesNotRepeat
<1> QED  BY <1>2, <1>3 DEF ShrinkingInv

LEMMA GrowingByRemoving ==
    ASSUME ListTyped, GrowingInv, NEW h \in Editors, DeactivateStaff(h)
    PROVE  GrowingInv'
<1>1. /\ UNCHANGED <<walk, seen, start, twice, grown, slipped>>
      /\ shrunk' = (shrunk \/ walk.at = "page")
  BY DEF DeactivateStaff
<1>2. Rested'
  <2>1. walk.at # "page" => UNCHANGED <<grown, shrunk, slipped>>
    BY <1>1 DEF ListTyped
  <2> QED  BY <1>1, <2>1, RestsWithoutWalk DEF GrowingInv
<1>3. StillAhead' /\ CountRight'
  BY <1>1 DEF StillAhead, CountRight
<1>4. GrowingListIsCovered'
  BY <1>1 DEF GrowingInv, GrowingListIsCovered
<1> QED  BY <1>2, <1>3, <1>4 DEF GrowingInv

LEMMA ShrinkingByRemoving ==
    ASSUME AccountsInv, ListTyped, ShrinkingInv, NEW h \in Editors, DeactivateStaff(h)
    PROVE  ShrinkingInv'
<1>1. /\ UNCHANGED <<walk, seen, start, twice, grown, slipped>>
      /\ shrunk' = (shrunk \/ walk.at = "page")
  BY DEF DeactivateStaff
<1>2. Rested'
  <2>1. walk.at # "page" => UNCHANGED <<grown, shrunk, slipped>>
    BY <1>1 DEF ListTyped
  <2> QED  BY <1>1, <2>1, RestsWithoutWalk DEF ShrinkingInv
<1>3. LeftBehind'
  <2> SUFFICES ASSUME walk.at = "page", ~ grown, NEW u \in seen PROVE Place(u)' < Behind
    BY <1>1 DEF LeftBehind, Behind
  <2>1. Place(u) \in Nat /\ Place(u)' \in Nat /\ Place(u)' <= Place(u)
    BY ListedAfterRemoving
  <2>2. Place(u) < Behind /\ Behind \in Nat
    BY BehindTyped DEF ShrinkingInv, LeftBehind
  <2> QED  BY <2>1, <2>2
<1>4. ShrinkingListDoesNotRepeat'
  BY <1>1 DEF ShrinkingInv, ShrinkingListDoesNotRepeat
<1> QED  BY <1>2, <1>3, <1>4 DEF ShrinkingInv

LEMMA WalkBegins ==
    ASSUME AccountsInv, Rested, StartWalk
    PROVE  /\ GrowingListIsCovered => GrowingInv'
           /\ ShrinkingInv'
<1>1. /\ walk' = Page(1) /\ start' = Listed /\ seen' = {} /\ ~ twice' /\ ~ shrunk'
      /\ users' = users /\ Listed' = Listed
  BY DEF StartWalk, Rested, staff, Listed
<1>2. /\ walk'.at = "page" /\ walk'.page = 1 /\ walk'.total = Unread /\ ~ walk'.read
      /\ walk' # NoWalk
  BY <1>1 DEF Page, NoWalk
<1>3. Behind' = 0
  BY <1>2, StaffAssumption DEF Behind, Skip
<1>4. \A u : Place(u)' \in Nat
  BY <1>1, ListedFinite DEF AccountsInv, Place
<1>5. Rested' /\ GrowingListIsCovered'
  BY <1>2 DEF Rested, GrowingListIsCovered
<1>6. StillAhead'
  BY <1>1, <1>3, <1>4 DEF StillAhead
<1>7. CountRight'
  BY <1>2 DEF CountRight
<1>8. LeftBehind' /\ ShrinkingListDoesNotRepeat'
  BY <1>1 DEF LeftBehind, ShrinkingListDoesNotRepeat
<1> QED  BY <1>5, <1>6, <1>7, <1>8 DEF GrowingInv, ShrinkingInv

LEMMA WalkCounts ==
    ASSUME AccountsInv, ListTyped, CountStaff
    PROVE  (GrowingInv => GrowingInv') /\ (ShrinkingInv => ShrinkingInv')
<1> DEFINE n == Cardinality(Listed)
<1>1. /\ walk.at = "page" /\ walk' = [walk EXCEPT !.total = n]
      /\ UNCHANGED <<users, seen, start, twice, grown, shrunk, slipped>>
  BY DEF CountStaff, staff
<1>2. walk \in Walk /\ n \in 0..MaxStaff
  BY <1>1, WalkShapes, ListedFinite DEF NoWalk, AccountsInv
<1> HIDE DEF n
<1>3. /\ walk'.at = "page" /\ walk'.page = walk.page /\ walk'.total = n
      /\ walk'.read = walk.read /\ walk' # NoWalk
  BY <1>1, <1>2 DEF Walk, NoWalk
<1>4. Listed' = Listed /\ Behind' = Behind
  BY <1>1, <1>3 DEF Listed, Behind
<1>5. Rested' /\ GrowingListIsCovered'
  BY <1>3 DEF Rested, GrowingListIsCovered
<1>6. ASSUME GrowingInv PROVE StillAhead' /\ CountRight'
  <2>1. StillAhead'
    BY <1>1, <1>4, <1>6 DEF GrowingInv, StillAhead, Place
  <2>2. ASSUME walk.read, ~ shrunk, walk.page >= TotalPages(n) PROVE start \subseteq seen
    <3> SUFFICES ASSUME NEW u \in start \ seen PROVE FALSE
      OBVIOUS
    <3>1. u \in Listed /\ Place(u) >= Behind
      BY <1>1, <1>6, <2>2 DEF GrowingInv, StillAhead
    <3>2. walk.page \in Nat \ {0} /\ Behind = walk.page * PageSize /\ Behind \in Nat
      BY <1>1, <2>2, BehindTyped
    <3>3. Place(u) < walk.page * PageSize /\ Place(u) \in Nat
      BY <2>2, <3>1, <3>2, AllBehind, PlaceInList DEF AccountsInv, n
    <3> QED  BY <3>1, <3>2, <3>3
  <2>3. CountRight'
    BY <1>1, <1>3, <1>4, <2>2 DEF CountRight, n
  <2> QED  BY <2>1, <2>3
<1>7. ASSUME ShrinkingInv PROVE LeftBehind' /\ ShrinkingListDoesNotRepeat'
  BY <1>1, <1>4, <1>7 DEF ShrinkingInv, LeftBehind, ShrinkingListDoesNotRepeat, Place
<1> QED  BY <1>5, <1>6, <1>7 DEF GrowingInv, ShrinkingInv

LEMMA WalkReads ==
    ASSUME AccountsInv, ListTyped, ReadRows
    PROVE  (GrowingInv => GrowingInv') /\ (ShrinkingInv => ShrinkingInv')
<1> DEFINE skip == Skip(walk.page)
<1>1. /\ walk.at = "page" /\ ~ walk.read /\ walk' = [walk EXCEPT !.read = TRUE]
      /\ seen' = seen \cup Rows(walk.page)
      /\ twice' = (twice \/ Rows(walk.page) \cap seen # {})
      /\ UNCHANGED <<users, start, grown, shrunk, slipped>>
  BY DEF ReadRows, staff
<1>2. walk \in Walk
  BY <1>1, WalkShapes DEF NoWalk
<1>3. /\ walk'.at = "page" /\ walk'.page = walk.page /\ walk'.total = walk.total
      /\ walk'.read /\ walk' # NoWalk
  BY <1>1, <1>2 DEF Walk, NoWalk
<1>4. /\ skip \in Nat /\ walk.page \in Nat \ {0} /\ Behind = skip
      /\ skip + PageSize = walk.page * PageSize
  BY <1>1, BehindTyped, SkipTyped
<1> HIDE DEF skip
<1>5. Listed' = Listed /\ Behind' = skip + PageSize
  BY <1>1, <1>3 DEF Listed, Behind, skip
<1>6. \A u : Place(u) \in Nat /\ Place(u)' = Place(u)
  BY <1>5, ListedFinite DEF AccountsInv, Place
<1>7. Rows(walk.page) = {u \in Listed : Place(u) \in skip..(skip + PageSize - 1)}
  BY DEF Rows, skip
<1>8. Rested' /\ GrowingListIsCovered'
  BY <1>3 DEF Rested, GrowingListIsCovered
<1>9. ASSUME GrowingInv PROVE StillAhead' /\ CountRight'
  <2>1. ASSUME ~ shrunk, NEW u \in start \ seen'
        PROVE  u \in Listed /\ Place(u) >= skip + PageSize
    <3>1. u \in Listed /\ Place(u) >= skip
      BY <1>1, <1>4, <1>9, <2>1 DEF GrowingInv, StillAhead
    <3>2. u \notin Rows(walk.page)
      BY <1>1, <2>1
    <3>3. Place(u) \notin skip..(skip + PageSize - 1)
      BY <1>7, <3>1, <3>2
    <3> QED  BY <1>4, <1>6, <3>1, <3>3, StaffAssumption
  <2>2. StillAhead'
    BY <1>1, <1>5, <1>6, <1>9, <2>1 DEF GrowingInv, StillAhead
  <2>3. ASSUME ~ shrunk, ~ slipped, walk.total # Unread, walk.page >= TotalPages(walk.total)
        PROVE  start \subseteq seen'
    <3> SUFFICES ASSUME NEW u \in start \ seen' PROVE FALSE
      OBVIOUS
    <3>1. u \in Listed /\ Place(u) >= walk.page * PageSize
      BY <1>4, <2>1, <2>3
    <3>2. Cardinality(Listed) = walk.total
      BY <1>1, <1>9, <2>3 DEF GrowingInv, CountRight
    <3>3. Place(u) < walk.page * PageSize
      BY <1>4, <2>3, <3>1, <3>2, AllBehind DEF AccountsInv
    <3>4. walk.page * PageSize \in Nat
      BY <1>4, StaffAssumption
    <3> QED  BY <1>6, <3>1, <3>3, <3>4
  <2>4. CountRight'
    BY <1>1, <1>3, <2>3 DEF CountRight
  <2> QED  BY <2>2, <2>4
<1>10. ASSUME ShrinkingInv PROVE LeftBehind' /\ ShrinkingListDoesNotRepeat'
  <2>1. ASSUME ~ grown, NEW u \in seen PROVE Place(u) < skip
    BY <1>1, <1>4, <1>10, <2>1 DEF ShrinkingInv, LeftBehind
  <2>2. ASSUME NEW u \in Rows(walk.page)
        PROVE  Place(u) >= skip /\ Place(u) < skip + PageSize
    BY <1>4, <1>6, <1>7, StaffAssumption
  <2>3. ASSUME ~ grown, NEW u \in seen' PROVE Place(u) < skip + PageSize
    BY <1>1, <1>4, <1>6, <2>1, <2>2, <2>3, StaffAssumption
  <2>4. LeftBehind'
    BY <1>1, <1>5, <1>6, <2>3 DEF LeftBehind
  <2>5. ~ grown => Rows(walk.page) \cap seen = {}
    BY <1>4, <1>6, <2>1, <2>2
  <2>6. ShrinkingListDoesNotRepeat'
    BY <1>1, <1>10, <2>5 DEF ShrinkingInv, ShrinkingListDoesNotRepeat
  <2> QED  BY <2>4, <2>6
<1> QED  BY <1>8, <1>9, <1>10 DEF GrowingInv, ShrinkingInv

LEMMA WalkTurns ==
    ASSUME AccountsInv, ListTyped, TurnPage
    PROVE  (GrowingInv => GrowingInv') /\ (ShrinkingInv => ShrinkingInv')
<1>1. /\ walk.at = "page" /\ walk.total # Unread /\ walk.read
      /\ UNCHANGED <<users, seen, start, twice, grown, shrunk, slipped>>
      /\ Listed' = Listed
  BY DEF TurnPage, staff, Listed
<1>2. walk \in Walk /\ walk.page \in Nat \ {0}
  BY <1>1, WalkShapes DEF NoWalk
<1>3. CASE walk.page < TotalPages(walk.total)
  <2>1. walk' = Page(walk.page + 1)
    BY <1>3 DEF TurnPage
  <2>2. /\ walk'.at = "page" /\ walk'.page = walk.page + 1 /\ walk'.total = Unread
        /\ ~ walk'.read /\ walk' # NoWalk
    BY <2>1 DEF Page, NoWalk
  <2>3. Skip(walk.page + 1) = Skip(walk.page) + PageSize /\ Skip(walk.page) \in Nat
    BY <1>2, SkipTyped
  <2>4. Behind = Skip(walk.page) + PageSize
    BY <1>1 DEF Behind
  <2>5. Behind' = Skip(walk.page + 1)
    BY <2>2, <2>3, StaffAssumption DEF Behind
  <2>6. Behind' = Behind
    BY <2>3, <2>4, <2>5
  <2>7. Rested' /\ GrowingListIsCovered' /\ CountRight'
    BY <2>2 DEF Rested, GrowingListIsCovered, CountRight
  <2>8. GrowingInv => StillAhead'
    BY <1>1, <2>6 DEF GrowingInv, StillAhead, Place
  <2>9. ShrinkingInv => LeftBehind' /\ ShrinkingListDoesNotRepeat'
    BY <1>1, <2>6 DEF ShrinkingInv, LeftBehind, ShrinkingListDoesNotRepeat, Place
  <2> QED  BY <2>7, <2>8, <2>9 DEF GrowingInv, ShrinkingInv
<1>4. CASE ~ (walk.page < TotalPages(walk.total))
  <2>1. walk' = [walk EXCEPT !.at = "end"]
    BY <1>4 DEF TurnPage
  <2>2. walk'.at = "end" /\ walk' # NoWalk
    BY <1>2, <2>1 DEF Walk, NoWalk
  <2>3. Rested' /\ StillAhead' /\ CountRight' /\ LeftBehind'
    BY <2>2 DEF Rested, StillAhead, CountRight, LeftBehind
  <2>4. walk.page >= TotalPages(walk.total)
    <3>1. TotalPages(walk.total) \in Nat
      BY <1>1, <1>2, EnoughPages DEF Walk
    <3> QED  BY <1>2, <1>4, <3>1
  <2>5. GrowingInv => GrowingListIsCovered'
    BY <1>1, <2>4 DEF GrowingInv, CountRight, GrowingListIsCovered
  <2>6. ShrinkingInv => ShrinkingListDoesNotRepeat'
    BY <1>1 DEF ShrinkingInv, ShrinkingListDoesNotRepeat
  <2> QED  BY <2>3, <2>5, <2>6 DEF GrowingInv, ShrinkingInv
<1> QED  BY <1>3, <1>4

LEMMA WalkLeft ==
    ASSUME LeaveList
    PROVE  GrowingInv' /\ ShrinkingInv'
<1>1. walk' = NoWalk /\ seen' = {} /\ start' = {} /\ ~ twice' /\ ~ grown' /\ ~ shrunk' /\ ~ slipped'
  BY DEF LeaveList
<1>2. walk'.at = "none"
  BY <1>1 DEF NoWalk
<1> QED  BY <1>1, <1>2 DEF GrowingInv, ShrinkingInv, Rested, StillAhead, CountRight, LeftBehind,
            GrowingListIsCovered, ShrinkingListDoesNotRepeat

LEMMA WalkKept ==
    ASSUME AccountsInv, ListTyped, [RegisterNext]_staffVars
    PROVE  (GrowingInv => GrowingInv') /\ (ShrinkingInv => ShrinkingInv')
<1>1. ASSUME UNCHANGED <<users, listing>>
      PROVE  (GrowingInv => GrowingInv') /\ (ShrinkingInv => ShrinkingInv')
  <2>1. Listed' = Listed
    BY <1>1 DEF Listed
  <2> QED  BY <1>1, <2>1, SameList
<1>2. ASSUME NEW email \in Emails, NEW phone \in Phones \cup {NoPhone}, AddStaff(email, phone)
      PROVE  (GrowingInv => GrowingInv') /\ (ShrinkingInv => ShrinkingInv')
  BY <1>2, GrowingByAdding, ShrinkingByAdding
<1>3. ASSUME NEW h \in Editors, StaffNext(h)
      PROVE  (GrowingInv => GrowingInv') /\ (ShrinkingInv => ShrinkingInv')
  <2>1. CASE UNCHANGED <<users, listing>>
    BY <1>1, <2>1
  <2>2. CASE InsertStaff(h) /\ AddStaff(edit[h].email, edit[h].phone)
    <3>1. edit[h].email \in Emails /\ edit[h].phone \in Phones \cup {NoPhone}
      BY <2>2, EditShapes DEF InsertStaff, NoEdit, Fits
    <3> QED  BY <1>2, <2>2, <3>1
  <2>3. CASE WriteStaff(h) /\ Free(edit[h])
    <3>1. UNCHANGED listing /\ Listed' = Listed
      BY <2>3, ListedAfterWriting DEF WriteStaff
    <3> QED  BY <3>1, SameList
  <2>4. CASE DeactivateStaff(h)
    BY <2>4, GrowingByRemoving, ShrinkingByRemoving
  <2> QED  BY <1>3, <2>1, <2>2, <2>3, <2>4, HandlerAndList
<1>4. CASE SeedStaff
  BY <1>2, <1>4, StaffAssumption DEF SeedStaff
<1>5. CASE StartWalk
  BY <1>5, WalkBegins DEF GrowingInv, ShrinkingInv
<1>6. CASE UNCHANGED staffVars
  BY <1>1, <1>6 DEF staffVars, listing
<1> QED  BY <1>3, <1>4, <1>5, <1>6, WalkCounts, WalkReads, WalkTurns, WalkLeft
         DEF RegisterNext, ListNext

LEMMA WalkAtStart ==
    ASSUME StaffInit
    PROVE  GrowingInv /\ ShrinkingInv
<1>1. walk = NoWalk /\ seen = {} /\ start = {} /\ ~ twice /\ ~ grown /\ ~ shrunk /\ ~ slipped
  BY DEF StaffInit
<1>2. walk.at = "none"
  BY <1>1 DEF NoWalk
<1> QED  BY <1>1, <1>2 DEF GrowingInv, ShrinkingInv, Rested, StillAhead, CountRight, LeftBehind,
            GrowingListIsCovered, ShrinkingListDoesNotRepeat

\* Whoever pages to the end of a list to which accounts are only added sees every account that
\* was there at the start, for every page size, unless one comes between a count and its rows.
THEOREM GrowingListCovered == StaffSpec => []GrowingListIsCovered
<1> DEFINE Inv == AccountsInv /\ ListTyped /\ GrowingInv
<1>1. StaffInit => Inv
  BY StaffStart, WalkAtStart
<1>2. Inv /\ [RegisterNext]_staffVars => Inv'
  BY AccountsKept, ListKeepsType, WalkKept
<1>3. Inv => GrowingListIsCovered
  BY DEF GrowingInv
<1> QED  BY <1>1, <1>2, <1>3, PTL DEF StaffSpec

\* Whoever pages through a list from which accounts are only removed sees no account twice.
THEOREM ShrinkingListShownOnce == StaffSpec => []ShrinkingListDoesNotRepeat
<1> DEFINE Inv == AccountsInv /\ ListTyped /\ ShrinkingInv
<1>1. StaffInit => Inv
  BY StaffStart, WalkAtStart
<1>2. Inv /\ [RegisterNext]_staffVars => Inv'
  BY AccountsKept, ListKeepsType, WalkKept
<1>3. Inv => ShrinkingListDoesNotRepeat
  BY DEF ShrinkingInv
<1> QED  BY <1>1, <1>2, <1>3, PTL DEF StaffSpec

\* While nothing is added, the walk shows only what was there at the start; an account that
\* comes between a count and its rows is one that is added.
NoneNew ==
    /\ walk.at = "page" /\ ~ grown => Listed \subseteq start
    /\ walk.at \in {"page", "end"} /\ ~ grown => seen \subseteq start
    /\ slipped => grown

LEMMA NoneNewByAdding ==
    ASSUME ListTyped, NoneNew, NEW email, NEW phone, AddStaff(email, phone)
    PROVE  NoneNew'
<1>1. /\ UNCHANGED <<walk, seen, start, twice, shrunk>>
      /\ grown' = (grown \/ walk.at = "page")
      /\ slipped' = (slipped \/ (walk.at = "page" /\ walk.total # Unread /\ ~ walk.read))
  BY DEF AddStaff, Grows
<1>2. (slipped => grown)'
  BY <1>1 DEF NoneNew
<1>3. grown => grown'
  BY <1>1
<1> QED  BY <1>1, <1>2, <1>3 DEF NoneNew

LEMMA NoneNewKept ==
    ASSUME AccountsInv, ListTyped, Rested, NoneNew, [RegisterNext]_staffVars
    PROVE  NoneNew'
<1>1. ASSUME UNCHANGED <<walk, seen, start, grown, slipped>>, Listed' \subseteq Listed
      PROVE  NoneNew'
  BY <1>1 DEF NoneNew
<1>2. ASSUME users' = users PROVE Listed' = Listed
  BY <1>2 DEF Listed
<1>3. ASSUME NEW h \in Editors, StaffNext(h) PROVE NoneNew'
  <2>1. CASE UNCHANGED <<users, listing>>
    BY <1>1, <1>2, <2>1 DEF listing
  <2>2. CASE InsertStaff(h) /\ AddStaff(edit[h].email, edit[h].phone)
    BY <2>2, NoneNewByAdding
  <2>3. CASE WriteStaff(h) /\ Free(edit[h])
    BY <1>1, <2>3, ListedAfterWriting DEF WriteStaff, listing
  <2>4. CASE DeactivateStaff(h)
    <3>1. Listed' \subseteq Listed
      BY <2>4, DeactivatedAccount DEF Listed
    <3> QED  BY <1>1, <2>4, <3>1 DEF DeactivateStaff
  <2> QED  BY <1>3, <2>1, <2>2, <2>3, <2>4, HandlerAndList
<1>4. CASE SeedStaff
  BY <1>4, NoneNewByAdding DEF SeedStaff
<1>5. CASE StartWalk
  <2>1. /\ walk' = Page(1) /\ start' = Listed /\ Listed' = Listed /\ seen' = {}
        /\ UNCHANGED <<grown, slipped>>
    BY <1>2, <1>5 DEF StartWalk, staff, Rested
  <2> QED  BY <2>1 DEF NoneNew
<1>6. CASE CountStaff
  <2>1. walk.at = "page" /\ walk \in Walk /\ walk' = [walk EXCEPT !.total = Cardinality(Listed)]
    BY <1>6, WalkShapes DEF CountStaff, NoWalk
  <2>2. walk'.at = "page"
    BY <2>1 DEF Walk
  <2> QED  BY <1>2, <1>6, <2>1, <2>2 DEF CountStaff, staff, NoneNew
<1>7. CASE ReadRows
  <2>1. walk.at = "page" /\ walk \in Walk /\ walk' = [walk EXCEPT !.read = TRUE]
    BY <1>7, WalkShapes DEF ReadRows, NoWalk
  <2>2. walk'.at = "page"
    BY <2>1 DEF Walk
  <2>3. Rows(walk.page) \subseteq Listed
    BY DEF Rows
  <2> QED  BY <1>2, <1>7, <2>1, <2>2, <2>3 DEF ReadRows, staff, NoneNew
<1>8. CASE TurnPage
  <2>1. walk.at = "page" /\ UNCHANGED <<users, seen, start, grown, slipped>>
    BY <1>8 DEF TurnPage, staff
  <2> QED  BY <1>2, <2>1 DEF NoneNew
<1>9. CASE LeaveList
  <2>1. walk'.at = "none" /\ seen' = {} /\ ~ slipped'
    BY <1>9 DEF LeaveList, NoWalk
  <2> QED  BY <2>1 DEF NoneNew
<1>10. CASE UNCHANGED staffVars
  BY <1>1, <1>2, <1>10 DEF staffVars
<1> QED  BY <1>3, <1>4, <1>5, <1>6, <1>7, <1>8, <1>9, <1>10 DEF RegisterNext, ListNext

\* For every page size and number of accounts, who pages to the end of a list that nobody
\* changes meanwhile has seen its accounts, all of them, no other, and each once.
THEOREM UnchangedListShownExactly == StaffSpec => []UnchangedListIsExact
<1> DEFINE Inv == AccountsInv /\ ListTyped /\ GrowingInv /\ ShrinkingInv /\ NoneNew
<1>1. StaffInit => Inv
  <2>1. StaffInit => NoneNew
    BY DEF StaffInit, NoneNew, NoWalk
  <2> QED  BY <2>1, StaffStart, WalkAtStart
<1>2. Inv /\ [RegisterNext]_staffVars => Inv'
  BY AccountsKept, ListKeepsType, WalkKept, NoneNewKept DEF GrowingInv
<1>3. Inv => UnchangedListIsExact
  BY DEF GrowingInv, ShrinkingInv, NoneNew, GrowingListIsCovered, ShrinkingListDoesNotRepeat,
         UnchangedListIsExact
<1> QED  BY <1>1, <1>2, <1>3, PTL DEF StaffSpec

-----------------------------------------------------------------------------
(* The two UNIQUE columns.                                                 *)

LEMMA UniqueAfterAdding ==
    ASSUME AccountsInv, ColumnsAreUnique,
           NEW email \in Emails, NEW phone \in Phones \cup {NoPhone}, AddStaff(email, phone),
           \A u \in DOMAIN users : users[u].email # email,
           phone \in Phones => \A u \in DOMAIN users : users[u].phone # phone
    PROVE  ColumnsAreUnique'
<1> DEFINE n == Len(users) + 1
<1>1. /\ DOMAIN users' = DOMAIN users \cup {n} /\ n \notin DOMAIN users
      /\ users'[n] = [email |-> email, phone |-> phone, live |-> TRUE]
      /\ \A u \in DOMAIN users : users'[u] = users[u]
  BY AddedLast DEF AccountsInv
<1> HIDE DEF n
<1>2. users'[n].email = email /\ users'[n].phone = phone
  BY <1>1
<1>3. ASSUME NEW u \in DOMAIN users
      PROVE  users[u].email # email /\ (users[u].phone = phone => phone = NoPhone)
  BY <1>3
<1> SUFFICES ASSUME NEW u \in DOMAIN users', NEW v \in DOMAIN users', u # v
             PROVE  /\ users'[u].email # users'[v].email
                    /\ users'[u].phone = users'[v].phone => users'[u].phone = NoPhone
  BY DEF ColumnsAreUnique
<1>4. CASE u = n
  BY <1>1, <1>2, <1>3, <1>4
<1>5. CASE v = n
  BY <1>1, <1>2, <1>3, <1>5
<1>6. CASE u # n /\ v # n
  BY <1>1, <1>6 DEF ColumnsAreUnique
<1> QED  BY <1>4, <1>5, <1>6

LEMMA UniqueAfterWriting ==
    ASSUME AccountsInv, ColumnsAreUnique, NEW h \in Editors, WriteStaff(h), Free(edit[h])
    PROVE  ColumnsAreUnique'
<1> DEFINE w == edit[h].who
           email == edit[h].email
           phone == edit[h].phone
<1>1. /\ w \in DOMAIN users /\ DOMAIN users' = DOMAIN users
      /\ \A u \in DOMAIN users \ {w} : users'[u] = users[u]
      /\ users'[w].email = IF email = Keep THEN users[w].email ELSE email
      /\ users'[w].phone = IF phone = Keep THEN users[w].phone ELSE phone
  BY WrittenAccount DEF Chosen
<1>2. phone \in Phones \cup {NoPhone, Keep}
  BY EditShapes DEF WriteStaff
<1>3. /\ \A u \in DOMAIN users \ {w} : users[u].email # email
      /\ phone \in Phones => \A u \in DOMAIN users \ {w} : users[u].phone # phone
  BY DEF Free
<1> HIDE DEF w, email, phone
<1>4. ASSUME NEW u \in DOMAIN users \ {w}
      PROVE  /\ users'[u].email # users'[w].email
             /\ users'[u].phone = users'[w].phone => users'[u].phone = NoPhone
  BY <1>1, <1>2, <1>3 DEF ColumnsAreUnique
<1> SUFFICES ASSUME NEW u \in DOMAIN users, NEW v \in DOMAIN users, u # v
             PROVE  /\ users'[u].email # users'[v].email
                    /\ users'[u].phone = users'[v].phone => users'[u].phone = NoPhone
  BY <1>1 DEF ColumnsAreUnique
<1>5. CASE u = w
  BY <1>4, <1>5
<1>6. CASE v = w
  BY <1>4, <1>6
<1>7. CASE u # w /\ v # w
  BY <1>1, <1>7 DEF ColumnsAreUnique
<1> QED  BY <1>5, <1>6, <1>7

LEMMA UniqueKept ==
    ASSUME AccountsInv, ColumnsAreUnique, [RegisterNext]_staffVars
    PROVE  ColumnsAreUnique'
<1> USE StaffAssumption
<1>1. ASSUME users' = users PROVE ColumnsAreUnique'
  BY <1>1 DEF ColumnsAreUnique
<1>2. ASSUME NEW h \in Editors, StaffNext(h) PROVE ColumnsAreUnique'
  <2>1. CASE InsertStaff(h) /\ Free(edit[h]) /\ AddStaff(edit[h].email, edit[h].phone)
    <3>1. edit[h].email \in Emails /\ edit[h].phone \in Phones \cup {NoPhone}
      BY <2>1, EditShapes DEF InsertStaff, NoEdit, Fits
    <3>2. DOMAIN users \ {edit[h].who} = DOMAIN users
      BY <2>1, UsersAreSequence DEF InsertStaff, New, AccountsInv
    <3> QED  BY <2>1, <3>1, <3>2, UniqueAfterAdding DEF Free
  <2>2. CASE WriteStaff(h) /\ Free(edit[h])
    BY <2>2, UniqueAfterWriting
  <2>3. CASE DeactivateStaff(h)
    <3>1. DOMAIN users' = DOMAIN users
          /\ \A u \in DOMAIN users :
                users'[u].email = users[u].email /\ users'[u].phone = users[u].phone
      BY <2>3, DeactivatedAccount
    <3> QED  BY <3>1 DEF ColumnsAreUnique
  <2> QED  BY <1>1, <1>2, <2>1, <2>2, <2>3, HandlerAndList
<1>3. CASE SeedStaff
  <2>1. DOMAIN users \ {New} = DOMAIN users
    BY UsersAreSequence DEF New, AccountsInv
  <2> QED  BY <1>3, <2>1, UniqueAfterAdding DEF SeedStaff, EmailTaken
<1>4. CASE ListNext
  BY <1>1, <1>4 DEF ListNext, StartWalk, CountStaff, ReadRows, TurnPage, LeaveList, staff
<1>5. CASE UNCHANGED staffVars
  BY <1>1, <1>5 DEF staffVars
<1> QED  BY <1>2, <1>3, <1>4, <1>5 DEF RegisterNext

\* For any number of requests that check and write in any order, and of seedings, two accounts
\* never share an email, or a phone.
THEOREM UniqueColumns == StaffSpec => []ColumnsAreUnique
<1>1. ASSUME StaffInit PROVE AccountsInv /\ ColumnsAreUnique
  <2>1. AccountsInv /\ Len(users) = 0
    BY <1>1, StaffStart DEF StaffInit
  <2>2. DOMAIN users = {}
    BY <2>1, UsersAreSequence DEF AccountsInv
  <2> QED  BY <2>1, <2>2 DEF ColumnsAreUnique
<1>2. (AccountsInv /\ ColumnsAreUnique) /\ [RegisterNext]_staffVars
        => (AccountsInv /\ ColumnsAreUnique)'
  BY AccountsKept, UniqueKept
<1> QED  BY <1>1, <1>2, PTL DEF StaffSpec
=============================================================================
