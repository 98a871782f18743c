---------------------------- MODULE AuthSession ----------------------------
(***************************************************************************)
(* AuthService and the payload encryption around every request.            *)
(*                                                                         *)
(* A user has one session: the hash of a refresh token in the column       *)
(* refreshToken.  bcrypt compares the first 72 bytes only, which end       *)
(* inside the user's id, so the hash matches every refresh token of that   *)
(* user: what the column decides is whether it is null.                    *)
(*                                                                         *)
(* A handshake leaves a key in the memory of the server and a copy in      *)
(* Redis.  The memory is what is read, twice in a request: to decrypt the  *)
(* body before the handler, and to encrypt the answer after it.            *)
(***************************************************************************)
EXTENDS Integers

CONSTANTS
    Requests,  \* slots for requests in flight
    Users,
    Keys,      \* the handshakes there can be
    NoKey,     \* a request without x-handshake-token
    MaxCrashes \* bound on the restarts of the server

ASSUME AuthAssumption ==
    /\ NoKey \notin Keys
    /\ MaxCrashes \in Nat

VARIABLES
    session,   \* user.refreshToken is not null
    issued,    \* the user has been given tokens
    held,      \* keys in the memory of the server
    copied,    \* keys in Redis
    phase,     \* time for a key: before the handshake, until expiresAt, after it
    job,       \* requests in flight
    crashes,
    ended,     \* history: the user logged out and has not logged in since
    crossed,   \* history: a refresh that had read before that logout wrote after it
    lost       \* history: keys whose server has restarted

keyring == <<held, copied, phase, lost>>
account == <<session, issued, ended, crossed>>
vars == <<session, issued, held, copied, phase, job, crashes, ended, crossed, lost>>

Kinds == {"login", "refresh", "logout", "me"}

Idle == [at |-> "idle"]
Job == [at: {"read", "write", "answer"}, kind: Kinds, user: Users, key: Keys \cup {NoKey},
        sealed: BOOLEAN, cross: BOOLEAN, lapsed: BOOLEAN]
Answer == [at: {"sealed", "clear"}, key: Keys \cup {NoKey}, sealed: BOOLEAN, lapsed: BOOLEAN]
Refusal == [at: {"refused"}, key: Keys]

TypeOK ==
    /\ session \in [Users -> BOOLEAN] /\ issued \in [Users -> BOOLEAN]
    /\ \A u \in Users : session[u] => issued[u]
    /\ held \subseteq Keys /\ copied \subseteq Keys /\ lost \subseteq Keys
    /\ phase \in [Keys -> {"new", "valid", "over"}]
    /\ job \in [Requests -> Job \cup Answer \cup Refusal \cup {Idle}]
    /\ crashes \in 0..MaxCrashes
    /\ ended \in [Users -> BOOLEAN] /\ crossed \in [Users -> BOOLEAN]

-----------------------------------------------------------------------------
(* Handshake keys.                                                         *)

\* The key is kept in memory; the copy in Redis is sent off and may not arrive.
Handshake(k, arrives) ==
    /\ phase[k] = "new"
    /\ phase' = [phase EXCEPT ![k] = "valid"]
    /\ held' = held \cup {k}
    /\ copied' = IF arrives THEN copied \cup {k} ELSE copied
    /\ UNCHANGED <<account, job, crashes, lost>>

\* expiresAt passes; Redis drops its copy, the memory keeps the key until it is asked for.
Expire(k) ==
    /\ phase[k] = "valid"
    /\ phase' = [phase EXCEPT ![k] = "over"]
    /\ copied' = copied \ {k}
    /\ job' = [h \in Requests |->
                 IF job[h].at \in {"read", "write", "answer"} /\ job[h].key = k
                 THEN [job[h] EXCEPT !.lapsed = TRUE] ELSE job[h]]
    /\ UNCHANGED <<account, held, crashes, lost>>

\* A lookup that leaves the time out.
Remembered(k) == k \in held

\* getSessionKey returns the key, or throws.
Usable(k) == k \in held /\ phase[k] = "valid"

\* A key that is good for one use.
UseOnce(k) == held' = held \ {k} /\ copied' = copied \ {k}

\* What getSessionKey does to the memory and to Redis: it drops a key that is over.
LookUp(k) ==
    IF k \in held /\ phase[k] = "over"
    THEN held' = held \ {k} /\ copied' = copied \ {k}
    ELSE UNCHANGED <<held, copied>>

-----------------------------------------------------------------------------
(* Requests.                                                               *)

\* GET /auth/me has no body to decrypt.
Decrypts(kind, sealed) == sealed /\ kind # "me"

\* A login needs no token; the other requests carry one that the user was given.
Admitted(kind, u) == kind # "login" => issued[u]

\* The middleware: an encrypted body whose key is not there is refused.
Arrive(h, kind, u, key, sealed) ==
    /\ job[h] = Idle
    /\ Admitted(kind, u)
    /\ key \in Keys => phase[key] # "new"
    /\ sealed => key \in Keys
    /\ IF Decrypts(kind, sealed)
       THEN LookUp(key)
       ELSE UNCHANGED <<held, copied>>
    /\ job' = [job EXCEPT ![h] =
                 IF Decrypts(kind, sealed) /\ ~ Usable(key)
                 THEN [at |-> "refused", key |-> key]
                 ELSE [at |-> "read", kind |-> kind, user |-> u, key |-> key,
                       sealed |-> Decrypts(kind, sealed), cross |-> FALSE, lapsed |-> FALSE]]
    /\ UNCHANGED <<account, phase, crashes, lost>>

Move(h, at) == job' = [job EXCEPT ![h].at = at]
Leave(h) == job' = [job EXCEPT ![h] = Idle]

\* A refresh without the look at the column.
AnyRead(h) == job[h].at = "read"

\* The reads and what is compared: a refresh goes on only where there is a session.
Passes(h) == job[h].at = "read" /\ (job[h].kind = "refresh" => session[job[h].user])

ReadUser(h) ==
    /\ Passes(h)
    /\ Move(h, IF job[h].kind = "me" THEN "answer" ELSE "write")
    /\ UNCHANGED <<account, keyring, crashes>>

\* 401: a wrong password, a token that is over, no active session; errors are not encrypted.
Deny(h) ==
    /\ job[h].at = "read"
    /\ Leave(h)
    /\ UNCHANGED <<account, keyring, crashes>>

\* An answer that leaves the tokens out.
Withhold(u) == issued' = [issued EXCEPT ![u] = FALSE]

\* generateTokens: what the answer carries.
Issue(u) == issued' = [issued EXCEPT ![u] = TRUE]

\* login and refreshTokens store the hash of the token they have made.
StoreToken(h) ==
    /\ job[h].at = "write" /\ job[h].kind \in {"login", "refresh"}
    /\ LET u == job[h].user IN
         /\ session' = [session EXCEPT ![u] = TRUE]
         /\ Issue(u)
         /\ ended' = [ended EXCEPT ![u] = @ /\ job[h].kind = "refresh"]
         /\ crossed' = [crossed EXCEPT ![u] = job[h].kind = "refresh" /\ (@ \/ job[h].cross)]
    /\ Move(h, "answer")
    /\ UNCHANGED <<keyring, crashes>>

\* Requests of the user that have read a session which is about to end.
Crossing(g, u) == job[g].at = "write" /\ job[g].kind = "refresh" /\ job[g].user = u

\* logout clears the column, whatever is under way for the user.
ClearToken(h) ==
    /\ job[h].at = "write" /\ job[h].kind = "logout"
    /\ LET u == job[h].user IN
         /\ session' = [session EXCEPT ![u] = FALSE]
         /\ ended' = [ended EXCEPT ![u] = TRUE]
         /\ crossed' = [crossed EXCEPT ![u] = FALSE]
         /\ job' = [g \in Requests |->
                      CASE g = h          -> [job[g] EXCEPT !.at = "answer"]
                        [] Crossing(g, u) -> [job[g] EXCEPT !.cross = TRUE]
                        [] OTHER          -> job[g]]
    /\ UNCHANGED <<issued, keyring, crashes>>

\* The interceptor: with a key the answer is encrypted, and sent as it is when that fails.
SendAnswer(h) ==
    /\ job[h].at = "answer"
    /\ LET key == job[h].key IN
         /\ IF key \in Keys THEN LookUp(key) ELSE UNCHANGED <<held, copied>>
         /\ job' = [job EXCEPT ![h] = [at |-> IF key \in Keys /\ Usable(key) THEN "sealed" ELSE "clear",
                                       key |-> key, sealed |-> job[h].sealed,
                                       lapsed |-> job[h].lapsed]]
    /\ UNCHANGED <<account, phase, crashes, lost>>

\* The response is out, or a statement failed and an error is.
Finish(h) ==
    /\ job[h].at \notin {"idle", "read"}
    /\ Leave(h)
    /\ UNCHANGED <<account, keyring, crashes>>

\* The server restarts: the memory and the requests are gone, the database and Redis are not.
Restart ==
    /\ crashes < MaxCrashes
    /\ crashes' = crashes + 1
    /\ held' = {}
    /\ job' = [h \in Requests |-> Idle]
    /\ lost' = {k \in Keys : phase[k] # "new"}
    /\ UNCHANGED <<account, copied, phase>>

-----------------------------------------------------------------------------

Init ==
    /\ session = [u \in Users |-> FALSE] /\ issued = [u \in Users |-> FALSE]
    /\ held = {} /\ copied = {} /\ lost = {}
    /\ phase = [k \in Keys |-> "new"]
    /\ job = [h \in Requests |-> Idle]
    /\ crashes = 0
    /\ ended = [u \in Users |-> FALSE] /\ crossed = [u \in Users |-> FALSE]

Serve(h) ==
    \/ \E kind \in Kinds, u \in Users, key \in Keys \cup {NoKey}, sealed \in BOOLEAN :
          Arrive(h, kind, u, key, sealed)
    \/ ReadUser(h) \/ Deny(h) \/ StoreToken(h) \/ ClearToken(h) \/ SendAnswer(h) \/ Finish(h)

Next ==
    \/ \E h \in Requests : Serve(h)
    \/ \E k \in Keys : (\E arrives \in BOOLEAN : Handshake(k, arrives)) \/ Expire(k)
    \/ Restart

Spec == Init /\ [][Next]_vars

-----------------------------------------------------------------------------
(* Properties.                                                             *)

\* A session that was ended by a logout comes back without a login only through a refresh
\* that had read the session before the logout and stored its token after it.
EndedSessionsStayEnded == \A u \in Users : ended[u] /\ session[u] => crossed[u]

\* The answer to an encrypted request leaves in the clear only if the key expired while
\* the request was served: nothing else can drop a key between the two lookups.
ClearAnswersAreLate ==
    \A h \in Requests : job[h].at = "clear" /\ job[h].sealed => job[h].lapsed

\* An encrypted request with a key that has not expired is refused only after a restart,
\* although Redis may still have a copy of the key.
RefusedKeysWereLost ==
    \A h \in Requests : job[h].at = "refused" =>
        phase[job[h].key] = "over" \/ job[h].key \in lost
=============================================================================
