----------------------------- MODULE AuthTokens -----------------------------
(***************************************************************************)
(* Whose name a call to the upstream goes out under.                       *)
(*                                                                         *)
(* AuthTokenHolder keeps one JWT for the calls that have no better one. It *)
(* is loaded from the row of table service_token, or seeded from the       *)
(* configuration; every login (HelloTalkAuthService) and every relogin of  *)
(* the IM connector swaps it in memory and then, in further steps, reads   *)
(* it again and writes it to the row.  A login also opens a session of its *)
(* own (JdbcAuthSessionRepository).                                        *)
(*                                                                         *)
(* Three filters put the headers on a request, in descending order: those  *)
(* of the session its cookie names, those that the frontend sent, and the  *)
(* holder's for what is still missing, each read when its turn comes.      *)
(* header() adds a value to those the header has, so a header is a set of  *)
(* values here.  Logins, relogins and requests run on threads of their     *)
(* own; the process may crash, and SQL statements may throw.               *)
(*                                                                         *)
(* A JWT is named after the login or relogin that minted it.               *)
(***************************************************************************)
EXTENDS Naturals

CONSTANTS
    Logins,      \* logins that HelloTalk accepts
    Relogins,    \* relogins of the IM connector that it accepts
    Seed,        \* jilali.default-auth-token
    Uid,         \* JWT -> the account in its uid claim
    Requests,    \* requests to the upstream
    None,        \* null
    MaxCrashes,  \* bound: crashes
    MaxFaults    \* bound: SQL statements that throw

Mints == Logins \cup Relogins
JWTs == Mints \cup {Seed}
Uids == {Uid[jwt] : jwt \in JWTs}

ASSUME AuthAssumption ==
    /\ None \notin JWTs /\ None \notin Uids
    /\ Seed \notin Mints /\ Logins \cap Relogins = {}
    /\ DOMAIN Uid = JWTs
    /\ MaxCrashes \in Nat /\ MaxFaults \in Nat

VARIABLES
    token,    \* AuthTokenHolder.token, None while the process is down
    row,      \* service_token: the jwt of row "default", None without a row
    sessions, \* login -> its row of auth_session: "none", "live" or "expired"
    at,       \* login or relogin -> where it is
    held,     \* login or relogin -> the JWT that it is about to write
    phase,    \* request -> the filter, or the header, that is next
    cookie,   \* request -> the login whose session id the frontend sent, or None
    brings,   \* request -> the JWT in the Authorization header of the frontend
    frontend, \* request -> "none" without one, "own" if x-ht-token has it too
    before,   \* request -> who set authorization before that: "fetch", "session"
    header,   \* request -> header -> its values
    swapped,  \* requests that had begun to read the holder when it was set
    latest,   \* the JWT set last, ever
    behind,   \* row or token may not be the latest
    crashes, faults

holder == <<token, row, latest, behind>>
requests == <<phase, cookie, brings, frontend, before, header, swapped>>
vars == <<holder, sessions, at, held, requests, crashes, faults>>

Names == {"user-agent", "authorization", "x-ht-token", "x-ht-uid"}
NoHeaders == [name \in Names |-> {}]

Init ==
    /\ token = None /\ row = None /\ latest = Seed /\ behind = FALSE
    /\ sessions = [l \in Logins |-> "none"]
    /\ at = [p \in Mints |-> "new"] /\ held = [p \in Mints |-> None]
    /\ phase = [r \in Requests |-> "new"]
    /\ cookie = [r \in Requests |-> None] /\ brings = [r \in Requests |-> None]
    /\ frontend = [r \in Requests |-> "none"] /\ before = [r \in Requests |-> "none"]
    /\ header = [r \in Requests |-> NoHeaders]
    /\ swapped = {}
    /\ crashes = 0 /\ faults = 0

\* A SQL statement throws.
Throws == faults < MaxFaults /\ faults' = faults + 1

----------------------------------------------------------------------------
(* AuthTokenHolder.                                                        *)

\* Mutant: the seed is preferred to the row.
LoadSeedAlways ==
    /\ token = None
    /\ token' = Seed
    /\ row' = Seed
    /\ UNCHANGED <<latest, behind, sessions, at, held, requests, crashes, faults>>

\* The constructor, with a row to load.
LoadRow ==
    /\ token = None
    /\ row # None
    /\ token' = row
    /\ UNCHANGED <<row, latest, behind, sessions, at, held, requests, crashes, faults>>

\* The constructor, without a row: the seed is written for the next start.
LoadSeed ==
    /\ token = None
    /\ row = None
    /\ token' = Seed
    /\ \/ row' = Seed /\ UNCHANGED <<behind, faults>>
       \/ Throws /\ behind' = TRUE /\ UNCHANGED row
    /\ UNCHANGED <<latest, sessions, at, held, requests, crashes>>

\* The constructor, when the SELECT throws: as without a row, so that the seed
\* replaces what the row held.
LoadFails ==
    /\ token = None
    /\ Throws
    /\ token' = Seed
    /\ row' \in {row, Seed}
    /\ behind' = TRUE
    /\ UNCHANGED <<latest, sessions, at, held, requests, crashes>>

\* set()
Set(p) ==
    /\ at[p] = "verified"
    /\ at' = [at EXCEPT ![p] = "set"]
    /\ token' = p /\ latest' = p
    /\ behind' = (behind \/ \E q \in Mints : at[q] = "read")
    /\ swapped' = swapped \cup {r \in Requests : phase[r] \in Names}
    /\ UNCHANGED <<row, sessions, held, phase, cookie, brings, frontend, before, header, crashes, faults>>

\* persistIfHolder() gets the token, which may be that of a later set() ...
Read(p) ==
    /\ at[p] = "set"
    /\ at' = [at EXCEPT ![p] = "read"]
    /\ held' = [held EXCEPT ![p] = token]
    /\ UNCHANGED <<holder, sessions, requests, crashes, faults>>

\* ... and writes it, after whatever others have set and written meanwhile.
Write(p) ==
    /\ at[p] = "read"
    /\ at' = [at EXCEPT ![p] = "over"] /\ held' = [held EXCEPT ![p] = None]
    /\ row' = held[p]
    /\ behind' = (behind /\ ~ /\ held[p] = latest /\ token = latest
                              /\ \A q \in Mints : at[q] = "read" => held[q] = latest)
    /\ UNCHANGED <<token, latest, sessions, requests, crashes, faults>>

\* The write throws, which is logged.
WriteFails(p) ==
    /\ at[p] = "read"
    /\ Throws
    /\ at' = [at EXCEPT ![p] = "over"] /\ held' = [held EXCEPT ![p] = None]
    /\ behind' = TRUE
    /\ UNCHANGED <<token, row, latest, sessions, requests, crashes>>

----------------------------------------------------------------------------
(* Logins and sessions.                                                    *)

\* login(): HelloTalk has accepted the credentials; the session is created.
\* If that throws the login fails and the holder keeps its JWT.
CreateSession(l) ==
    /\ token # None
    /\ at[l] = "new"
    /\ \/ /\ sessions' = [sessions EXCEPT ![l] = "live"]
          /\ at' = [at EXCEPT ![l] = "verified"]
          /\ UNCHANGED faults
       \/ Throws /\ at' = [at EXCEPT ![l] = "over"] /\ UNCHANGED sessions
    /\ UNCHANGED <<holder, held, requests, crashes>>

\* attemptRelogin() of the IM connector got a JWT.
Relogin(p) ==
    /\ token # None
    /\ at[p] = "new"
    /\ at' = [at EXCEPT ![p] = "verified"]
    /\ UNCHANGED <<holder, sessions, held, requests, crashes, faults>>

\* logout(); if the DELETE throws, the session stays.
Logout(l) ==
    /\ token # None
    /\ sessions[l] # "none"
    /\ \/ sessions' = [sessions EXCEPT ![l] = "none"] /\ UNCHANGED faults
       \/ Throws /\ UNCHANGED sessions
    /\ UNCHANGED <<holder, at, held, requests, crashes>>

\* Thirty days pass.
Expire(l) ==
    /\ sessions[l] = "live"
    /\ sessions' = [sessions EXCEPT ![l] = "expired"]
    /\ UNCHANGED <<holder, at, held, requests, crashes, faults>>

----------------------------------------------------------------------------
(* The filters of a request.                                               *)

\* What a frontend can send: a cookie or not, and no JWT or one that it was given
\* at a login, as authorization alone or as x-ht-token too.
Known == {l \in Logins : at[l] # "new"}
Inbound == [login : Known \cup {None}, jwt : Known, from : {"own", "alone"}]
           \cup [login : Known \cup {None}, jwt : {None}, from : {"none"}]

\* A call is begun for an inbound request.
Begin(r, in) ==
    /\ token # None
    /\ phase[r] = "new"
    /\ phase' = [phase EXCEPT ![r] = "session"]
    /\ cookie' = [cookie EXCEPT ![r] = in.login]
    /\ brings' = [brings EXCEPT ![r] = in.jwt]
    /\ frontend' = [frontend EXCEPT ![r] = in.from]
    /\ UNCHANGED <<swapped, holder, sessions, at, held, crashes, faults>>

\* A method of a declarative client: no header of its own that matters here.
Call(r, in) ==
    /\ Begin(r, in)
    /\ UNCHANGED <<before, header>>

\* UserProfileEncryptedClient.fetchUserInfo(): the holder is read once.  On a
\* thread without an inbound request it is as if the frontend had sent nothing.
FetchUserInfo(r, in) ==
    /\ Begin(r, in)
    /\ before' = [before EXCEPT ![r] = "fetch"]
    /\ header' = [header EXCEPT ![r] = [name \in Names |->
                     IF name \in {"authorization", "x-ht-token"} THEN {token} ELSE {Uid[token]}]]

\* SessionAuthClientFilter (order 100): without an authorization header, all
\* three headers come from the one row of the session, if there is a session.
ResolveSession(r) ==
    /\ phase[r] = "session"
    /\ IF /\ header[r]["authorization"] = {}
          /\ cookie[r] # None /\ sessions[cookie[r]] = "live"
       THEN /\ before' = [before EXCEPT ![r] = "session"]
            /\ header' = [header EXCEPT ![r]["authorization"] = {cookie[r]},
                                        ![r]["x-ht-token"] = {cookie[r]},
                                        ![r]["x-ht-uid"] = {Uid[cookie[r]]}]
       ELSE UNCHANGED <<before, header>>
    /\ phase' = [phase EXCEPT ![r] = "propagate"]
    /\ UNCHANGED <<cookie, brings, frontend, swapped, holder, sessions, at, held, crashes, faults>>

\* find() throws, and with it the request.
ResolveFails(r) ==
    /\ phase[r] = "session"
    /\ header[r]["authorization"] = {} /\ cookie[r] # None
    /\ Throws
    /\ phase' = [phase EXCEPT ![r] = "over"]
    /\ UNCHANGED <<cookie, brings, frontend, before, header, swapped, holder, sessions, at, held,
                   crashes>>

\* HeaderPropagationFilter (order 0) adds the headers that the frontend sent.
Propagate(r) ==
    /\ phase[r] = "propagate"
    /\ phase' = [phase EXCEPT ![r] = "user-agent"]
    /\ header' = [header EXCEPT
                     ![r]["authorization"] = IF frontend[r] = "none" THEN @ ELSE @ \cup {brings[r]},
                     ![r]["x-ht-token"] = IF frontend[r] = "own" THEN @ \cup {brings[r]} ELSE @]
    /\ UNCHANGED <<cookie, brings, frontend, before, swapped, holder, sessions, at, held, crashes,
                   faults>>

\* Mutant: the uid is always that of the holder's JWT.
DefaultForShared(r, name) ==
    IF name \in {"authorization", "x-ht-token"} THEN token ELSE Uid[token]

\* defaultFor(): deriveCallerUid() prefers the JWT that the frontend sent.
DefaultFor(r, name) ==
    IF name \in {"authorization", "x-ht-token"} THEN token
    ELSE IF name = "x-ht-uid" /\ brings[r] # None THEN Uid[brings[r]]
    ELSE Uid[token]

FillOrder == [name \in Names |->
    CASE name = "user-agent"    -> "authorization"
      [] name = "authorization" -> "x-ht-token"
      [] name = "x-ht-token"    -> "x-ht-uid"
      [] name = "x-ht-uid"      -> "sent"]

\* DefaultHeadersClientFilter (lowest order), one header: the user agent is
\* always added, the others only if missing.
Fill(r) ==
    /\ phase[r] \in Names
    /\ header' = [header EXCEPT ![r][phase[r]] =
                     IF phase[r] = "user-agent" \/ @ = {} THEN @ \cup {DefaultFor(r, phase[r])} ELSE @]
    /\ phase' = [phase EXCEPT ![r] = FillOrder[@]]
    /\ UNCHANGED <<cookie, brings, frontend, before, swapped, holder, sessions, at, held, crashes, faults>>

----------------------------------------------------------------------------
\* The process dies, and what its threads were doing with it.
Crash ==
    /\ token # None
    /\ crashes < MaxCrashes
    /\ crashes' = crashes + 1
    /\ token' = None
    /\ behind' = (behind \/ \E p \in Mints : at[p] \in {"set", "read"})
    /\ at' = [p \in Mints |-> IF at[p] = "new" THEN "new" ELSE "over"]
    /\ held' = [p \in Mints |-> None]
    /\ phase' = [r \in Requests |-> IF phase[r] \in {"new", "sent"} THEN phase[r] ELSE "over"]
    /\ UNCHANGED <<row, latest, sessions, cookie, brings, frontend, before, header, swapped, faults>>

Next ==
    \/ LoadRow \/ LoadSeed \/ LoadFails
    \/ \E p \in Mints : Set(p) \/ Read(p) \/ Write(p) \/ WriteFails(p)
    \/ \E l \in Logins : CreateSession(l) \/ Logout(l) \/ Expire(l)
    \/ \E p \in Relogins : Relogin(p)
    \/ \E r \in Requests, in \in Inbound : Call(r, in) \/ FetchUserInfo(r, in)
    \/ \E r \in Requests : ResolveSession(r) \/ ResolveFails(r) \/ Propagate(r) \/ Fill(r)
    \/ Crash

Spec == Init /\ [][Next]_vars

----------------------------------------------------------------------------
(* Properties.                                                             *)

FlagsOK == behind \in BOOLEAN

TypeOK ==
    /\ FlagsOK
    /\ token \in JWTs \cup {None} /\ row \in JWTs \cup {None} /\ latest \in JWTs
    /\ sessions \in [Logins -> {"none", "live", "expired"}]
    /\ at \in [Mints -> {"new", "verified", "set", "read", "over"}]
    /\ held \in [Mints -> JWTs \cup {None}]
    /\ phase \in [Requests -> Names \cup {"new", "session", "propagate", "sent", "over"}]
    /\ cookie \in [Requests -> Logins \cup {None}]
    /\ brings \in [Requests -> JWTs \cup {None}]
    /\ frontend \in [Requests -> {"none", "own", "alone"}]
    /\ before \in [Requests -> {"none", "fetch", "session"}]
    /\ header \in [Requests -> [Names -> SUBSET (JWTs \cup Uids)]]
    /\ \A r \in Requests : /\ header[r]["authorization"] \subseteq JWTs
                           /\ header[r]["x-ht-token"] \subseteq JWTs
                           /\ header[r]["x-ht-uid"] \subseteq Uids
                           /\ header[r]["user-agent"] \subseteq Uids
    /\ swapped \subseteq Requests
    /\ crashes \in Nat /\ faults \in Nat

Publishing == \E p \in Mints : at[p] \in {"set", "read"}

\* "keeps the fallback token self-healing ... so a restart doesn't lose it":
\* between publications, the holder and the row have the JWT published last,
\* over any number of restarts.  Three things break it, until the next
\* publication that none of them disturbs: a statement that throws, a crash
\* between set() and the write, and a set() between the get and the write of
\* another persistIfHolder().
TokenSurvives ==
    token # None /\ ~Publishing /\ ~behind => token = latest /\ row = latest

\* The request presents this one JWT, and its account.
Under(r, jwt) == header[r]["authorization"] = {jwt} /\ header[r]["x-ht-uid"] = {Uid[jwt]}
WhollyUnder(r, jwt) == Under(r, jwt) /\ header[r]["x-ht-token"] = {jwt}

\* x-ht-uid "must match the uid embedded in whichever token is actually
\* attached": a request with one credential goes out under one account, whoever
\* logs in while it passes the filters: that of its session, that of the JWT the
\* frontend sent, or that of the holder, unless the holder is set while the
\* headers are filled in.  If the frontend sends authorization alone, x-ht-token
\* is still the holder's.
HeadersAgree ==
    \A r \in Requests :
        phase[r] = "sent" =>
            /\ before[r] = "session" /\ frontend[r] = "none" => WhollyUnder(r, cookie[r])
            /\ before[r] = "none" /\ frontend[r] = "own" => WhollyUnder(r, brings[r])
            /\ before[r] = "none" /\ frontend[r] = "alone" => Under(r, brings[r])
            /\ before[r] = "fetch" /\ frontend[r] = "none" => \E jwt \in JWTs : WhollyUnder(r, jwt)
            /\ before[r] = "none" /\ frontend[r] = "none" /\ r \notin swapped =>
                  \E jwt \in JWTs : WhollyUnder(r, jwt)

\* SessionAuthClientFilter: "a real header the frontend already sent still
\* wins" over the session.  Broken: README, section 6.
FrontendHeaderWins ==
    \A r \in Requests :
        phase[r] = "sent" /\ before[r] # "fetch" /\ frontend[r] # "none" =>
            header[r]["authorization"] = {brings[r]}

\* fetchUserInfo(): "This call always uses the fixed service-account token (not
\* the caller's own forwarded JWT ...)".  Broken: README, section 6.
FetchedAsService ==
    \A r \in Requests :
        phase[r] = "sent" /\ before[r] = "fetch" =>
            \E jwt \in JWTs : header[r]["authorization"] = {jwt}
=============================================================================
