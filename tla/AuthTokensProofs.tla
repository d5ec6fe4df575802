-------------------------- MODULE AuthTokensProofs --------------------------
(***************************************************************************)
(* Proofs about AuthTokens, for any number of logins, relogins, requests,  *)
(* crashes and faults.                                                     *)
(***************************************************************************)
EXTENDS AuthTokens, TLAPS

\* Nothing goes on while the process is down.
Running ==
    /\ \A r \in Requests : phase[r] \in Names \cup {"session", "propagate"} => token # None
    /\ \A p \in Mints : at[p] \in {"verified", "set", "read"} => token # None

\* Where the latest JWT is, and that whoever is about to write will write it.
Followed ==
    ~behind =>
        /\ token # None => token = latest /\ (row = latest \/ Publishing)
        /\ token = None => row = latest \/ (row = None /\ latest = Seed)
        /\ \A p \in Mints : at[p] = "read" => held[p] = latest

\* What the frontend sent, and that nothing is there before it is put there.
Brought(r) ==
    /\ brings[r] \in Logins \cup {None}
    /\ frontend[r] = "none" <=> brings[r] = None
    /\ phase[r] = "new" => frontend[r] = "none" /\ before[r] = "none"
    /\ phase[r] \in {"new", "session", "propagate"} /\ before[r] = "none" =>
           /\ header[r]["authorization"] = {} /\ header[r]["x-ht-token"] = {}
           /\ header[r]["x-ht-uid"] = {}

\* The headers of a request with one credential, by whose it is.
FromFrontend(r) ==
    before[r] = "none" /\ frontend[r] # "none" /\ phase[r] \in Names \cup {"sent"} =>
        /\ header[r]["authorization"] = {brings[r]}
        /\ header[r]["x-ht-uid"] \in {{}, {Uid[brings[r]]}}
        /\ frontend[r] = "own" => header[r]["x-ht-token"] = {brings[r]}

FromOneRead(r) ==
    before[r] = "fetch" /\ frontend[r] = "none" => \E jwt \in JWTs : WhollyUnder(r, jwt)

FromSession(r) ==
    before[r] = "session" =>
        /\ cookie[r] \in Logins
        /\ phase[r] # "session"
        /\ frontend[r] = "none" => WhollyUnder(r, cookie[r])

FromHolder(r) ==
    before[r] = "none" /\ frontend[r] = "none" /\ r \notin swapped =>
        /\ phase[r] \in Names =>
               /\ header[r]["authorization"] \in {{}, {token}}
               /\ header[r]["x-ht-token"] \in {{}, {token}}
               /\ header[r]["x-ht-uid"] \in {{}, {Uid[token]}}
        /\ phase[r] = "sent" => \E jwt \in JWTs : WhollyUnder(r, jwt)

\* What no longer is missing.
Filled(r) ==
    /\ phase[r] \in {"x-ht-token", "x-ht-uid", "sent"} => header[r]["authorization"] # {}
    /\ phase[r] \in {"x-ht-uid", "sent"} => header[r]["x-ht-token"] # {}
    /\ phase[r] = "sent" => header[r]["x-ht-uid"] # {}

Request(r) ==
    Brought(r) /\ FromFrontend(r) /\ FromOneRead(r) /\ FromSession(r) /\ FromHolder(r) /\ Filled(r)

IInv == TypeOK /\ Running /\ Followed /\ \A r \in Requests : Request(r)

\* Every JWT has an account.
LEMMA UidType == \A jwt \in JWTs : Uid[jwt] \in Uids
  BY DEF Uids

\* The initial state has the types.
LEMMA InitType == Init => TypeOK
  <1> SUFFICES ASSUME Init PROVE TypeOK
    OBVIOUS
  <1>1. FlagsOK
    BY DEF Init, FlagsOK
  <1>2. header \in [Requests -> [Names -> SUBSET (JWTs \cup Uids)]]
    BY DEF Init, NoHeaders
  <1>3. QED
    BY <1>1, <1>2 DEF Init, TypeOK, JWTs, NoHeaders, Names

\* The one flag stays Boolean.
LEMMA FlagsKept == FlagsOK /\ [Next]_vars => FlagsOK'
  <1> SUFFICES ASSUME FlagsOK, [Next]_vars PROVE FlagsOK'
    OBVIOUS
  <1> USE DEF FlagsOK
  <1>1. CASE LoadRow \/ LoadSeed \/ LoadFails
    BY <1>1 DEF LoadRow, LoadSeed, LoadFails
  <1>2. ASSUME NEW p \in Mints, Set(p) \/ Read(p) \/ Write(p) \/ WriteFails(p) PROVE FlagsOK'
    BY <1>2 DEF Set, Read, Write, WriteFails, holder
  <1>3. ASSUME NEW l \in Logins, CreateSession(l) \/ Logout(l) \/ Expire(l) PROVE FlagsOK'
    BY <1>3 DEF CreateSession, Logout, Expire, holder
  <1>4. ASSUME NEW p \in Relogins, Relogin(p) PROVE FlagsOK'
    BY <1>4 DEF Relogin, holder
  <1>5. ASSUME NEW r \in Requests, NEW in \in Inbound, Call(r, in) \/ FetchUserInfo(r, in)
        PROVE  FlagsOK'
    BY <1>5 DEF Call, FetchUserInfo, Begin, holder
  <1>6. ASSUME NEW r \in Requests,
               ResolveSession(r) \/ ResolveFails(r) \/ Propagate(r) \/ Fill(r)
        PROVE  FlagsOK'
    BY <1>6 DEF ResolveSession, ResolveFails, Propagate, Fill, holder
  <1>7. CASE Crash
    BY <1>7 DEF Crash
  <1>8. CASE UNCHANGED vars
    BY <1>8 DEF vars, holder
  <1>9. QED BY <1>1, <1>2, <1>3, <1>4, <1>5, <1>6, <1>7, <1>8 DEF Next

\* The types survive the constructor of the holder and its publications.
LEMMA HolderType ==
    ASSUME TypeOK, FlagsOK',
           \/ LoadRow \/ LoadSeed \/ LoadFails
           \/ \E p \in Mints : Set(p) \/ Read(p) \/ Write(p) \/ WriteFails(p)
    PROVE  TypeOK'
  <1> USE AuthAssumption DEF TypeOK
  <1>1. CASE LoadRow
    BY <1>1 DEF LoadRow, requests
  <1>2. CASE LoadSeed
    BY <1>2 DEF LoadSeed, requests, Throws, JWTs
  <1>3. CASE LoadFails
    BY <1>3 DEF LoadFails, requests, Throws, JWTs
  <1>4. ASSUME NEW p \in Mints, Set(p) PROVE TypeOK'
    BY <1>4 DEF Set, JWTs
  <1>5. ASSUME NEW p \in Mints, Read(p) PROVE TypeOK'
    BY <1>5 DEF Read, holder, requests
  <1>6. ASSUME NEW p \in Mints, Write(p) PROVE TypeOK'
    BY <1>6 DEF Write, requests
  <1>7. ASSUME NEW p \in Mints, WriteFails(p) PROVE TypeOK'
    BY <1>7 DEF WriteFails, requests, Throws
  <1>8. QED BY <1>1, <1>2, <1>3, <1>4, <1>5, <1>6, <1>7

\* ... the sessions ...
LEMMA SessionType ==
    ASSUME TypeOK, FlagsOK',
           \/ \E l \in Logins : CreateSession(l) \/ Logout(l) \/ Expire(l)
           \/ \E p \in Relogins : Relogin(p)
           \/ Crash
    PROVE  TypeOK'
  <1> USE AuthAssumption DEF TypeOK
  <1>1. ASSUME NEW l \in Logins, CreateSession(l) PROVE TypeOK'
    <2>1. /\ \/ sessions' = [sessions EXCEPT ![l] = "live"] /\ faults' = faults
             \/ sessions' = sessions /\ faults' = faults + 1
          /\ at' = [at EXCEPT ![l] = "verified"] \/ at' = [at EXCEPT ![l] = "over"]
      BY <1>1 DEF CreateSession, Throws
    <2>. l \in Mints
      BY DEF Mints
    <2>2. UNCHANGED <<holder, held, requests, crashes>>
      BY <1>1 DEF CreateSession
    <2>3. sessions' \in [Logins -> {"none", "live", "expired"}]
      BY <2>1
    <2>4. faults' \in Nat
      BY <2>1
    <2>5. at' \in [Mints -> {"new", "verified", "set", "read", "over"}]
      BY <2>1
    <2>6. QED BY <2>2, <2>3, <2>4, <2>5 DEF holder, requests
  <1>2. ASSUME NEW l \in Logins, Logout(l) PROVE TypeOK'
    BY <1>2 DEF Logout, holder, requests, Throws
  <1>3. ASSUME NEW l \in Logins, Expire(l) PROVE TypeOK'
    BY <1>3 DEF Expire, holder, requests
  <1>4. ASSUME NEW p \in Relogins, Relogin(p) PROVE TypeOK'
    BY <1>4 DEF Relogin, holder, requests, Mints
  <1>5. CASE Crash
    BY <1>5 DEF Crash
  <1>6. QED BY <1>1, <1>2, <1>3, <1>4, <1>5

\* ... and the filters.
LEMMA RequestType ==
    ASSUME TypeOK, Running, FlagsOK', NEW r \in Requests, Brought(r),
           \/ \E in \in Inbound : Call(r, in) \/ FetchUserInfo(r, in)
           \/ ResolveSession(r) \/ ResolveFails(r) \/ Propagate(r) \/ Fill(r)
    PROVE  TypeOK'
  <1> USE AuthAssumption, UidType DEF TypeOK
  <1>1. ASSUME NEW in \in Inbound, Call(r, in) PROVE TypeOK'
    BY <1>1 DEF Call, Begin, Inbound, Known, holder, JWTs, Mints
  <1>2. ASSUME NEW in \in Inbound, FetchUserInfo(r, in) PROVE TypeOK'
    <2>1. token \in JWTs /\ Uid[token] \in Uids
      BY <1>2 DEF FetchUserInfo, Begin
    <2>2. header' \in [Requests -> [Names -> SUBSET (JWTs \cup Uids)]]
      BY <1>2, <2>1 DEF FetchUserInfo, Names
    <2>3. \A q \in Requests : /\ header'[q]["authorization"] \subseteq JWTs
                              /\ header'[q]["x-ht-token"] \subseteq JWTs
                              /\ header'[q]["x-ht-uid"] \subseteq Uids
                              /\ header'[q]["user-agent"] \subseteq Uids
      BY <1>2, <2>1 DEF FetchUserInfo, Names
    <2>4. QED BY <1>2, <2>2, <2>3 DEF FetchUserInfo, Begin, Inbound, Known, holder, JWTs, Mints
  <1>3. CASE ResolveSession(r)
    <2> DEFINE found == /\ header[r]["authorization"] = {}
                        /\ cookie[r] # None /\ sessions[cookie[r]] = "live"
    <2>1. CASE found
      <3>1. cookie[r] \in JWTs /\ Uid[cookie[r]] \in Uids
        BY <2>1 DEF JWTs, Mints
      <3>2. header' = [header EXCEPT ![r]["authorization"] = {cookie[r]},
                                     ![r]["x-ht-token"] = {cookie[r]},
                                     ![r]["x-ht-uid"] = {Uid[cookie[r]]}]
        BY <1>3, <2>1 DEF ResolveSession
      <3>3. /\ header' \in [Requests -> [Names -> SUBSET (JWTs \cup Uids)]]
            /\ \A q \in Requests : q # r => header'[q] = header[q]
            /\ header'[r]["authorization"] = {cookie[r]} /\ header'[r]["x-ht-token"] = {cookie[r]}
            /\ header'[r]["x-ht-uid"] = {Uid[cookie[r]]}
            /\ header'[r]["user-agent"] = header[r]["user-agent"]
        BY <3>1, <3>2 DEF Names
      <3>4. /\ phase' = [phase EXCEPT ![r] = "propagate"] /\ before' = [before EXCEPT ![r] = "session"]
            /\ UNCHANGED <<cookie, brings, frontend, swapped, holder, sessions, at, held, crashes, faults>>
        BY <1>3, <2>1 DEF ResolveSession
      <3>5. \A q \in Requests : /\ header'[q]["authorization"] \subseteq JWTs
                                /\ header'[q]["x-ht-token"] \subseteq JWTs
                                /\ header'[q]["x-ht-uid"] \subseteq Uids
                                /\ header'[q]["user-agent"] \subseteq Uids
        BY <3>1, <3>3
      <3>6. QED BY <3>3, <3>4, <3>5 DEF holder
    <2>2. CASE ~found
      BY <1>3, <2>2 DEF ResolveSession, holder
    <2>3. QED BY <2>1, <2>2
  <1>4. CASE ResolveFails(r)
    BY <1>4 DEF ResolveFails, holder, Throws
  <1>5. CASE Fill(r)
    <2>1. PICK name \in Names : name = phase[r]
      BY <1>5 DEF Fill
    <2>2. DefaultFor(r, name) \in IF name \in {"authorization", "x-ht-token"} THEN JWTs ELSE Uids
      BY <1>5, <2>1 DEF DefaultFor, Running, Fill
    <2>3. QED BY <1>5, <2>1, <2>2 DEF Fill, holder, Names, FillOrder
  <1>6. CASE Propagate(r)
    BY <1>6 DEF Propagate, Brought, holder, Names, JWTs, Mints
  <1>7. QED BY <1>1, <1>2, <1>3, <1>4, <1>5, <1>6

\* Every step keeps the types.
LEMMA TypeStep ==
    TypeOK /\ Running /\ (\A r \in Requests : Request(r)) /\ [Next]_vars => TypeOK'
  <1> SUFFICES ASSUME TypeOK, Running, \A r \in Requests : Request(r), [Next]_vars PROVE TypeOK'
    OBVIOUS
  <1>1. FlagsOK'
    BY FlagsKept DEF TypeOK
  <1>2. CASE UNCHANGED vars
    BY <1>1, <1>2 DEF TypeOK, vars, holder, requests
  <1>3. QED BY <1>1, <1>2, HolderType, SessionType, RequestType DEF Next, Request

\* A process that is down does nothing, and a crash ends all that was going on.
LEMMA RunningStep == TypeOK /\ Running /\ [Next]_vars => Running'
  <1> SUFFICES ASSUME TypeOK, Running, [Next]_vars PROVE Running'
    OBVIOUS
  <1> USE AuthAssumption DEF Running, TypeOK
  <1>1. CASE LoadRow \/ LoadSeed \/ LoadFails
    BY <1>1 DEF LoadRow, LoadSeed, LoadFails, JWTs, requests
  <1>2. ASSUME NEW p \in Mints, Set(p) PROVE Running'
    BY <1>2 DEF Set, JWTs
  <1>3. ASSUME NEW p \in Mints, Read(p) \/ Write(p) \/ WriteFails(p) PROVE Running'
    BY <1>3 DEF Read, Write, WriteFails, holder, requests
  <1>4. ASSUME NEW l \in Logins, CreateSession(l) \/ Logout(l) \/ Expire(l) PROVE Running'
    BY <1>4 DEF CreateSession, Logout, Expire, holder, requests
  <1>5. ASSUME NEW p \in Relogins, Relogin(p) PROVE Running'
    BY <1>5 DEF Relogin, holder, requests
  <1>6. ASSUME NEW r \in Requests, NEW in \in Inbound, Call(r, in) \/ FetchUserInfo(r, in)
        PROVE  Running'
    BY <1>6 DEF Call, FetchUserInfo, Begin, holder
  <1>7. ASSUME NEW r \in Requests,
               ResolveSession(r) \/ ResolveFails(r) \/ Propagate(r) \/ Fill(r)
        PROVE  Running'
    BY <1>7 DEF ResolveSession, ResolveFails, Propagate, Fill, FillOrder, holder
  <1>8. CASE Crash
    BY <1>8 DEF Crash, Names
  <1>9. CASE UNCHANGED vars
    BY <1>9 DEF vars, holder, requests
  <1>10. QED BY <1>1, <1>2, <1>3, <1>4, <1>5, <1>6, <1>7, <1>8, <1>9 DEF Next

\* The holder and the row keep the latest JWT.
LEMMA FollowedStep == TypeOK /\ Running /\ Followed /\ [Next]_vars => Followed'
  <1> SUFFICES ASSUME TypeOK, Running, Followed, [Next]_vars, ~behind' PROVE Followed'
    BY DEF Followed
  <1> USE AuthAssumption DEF Followed, Publishing, TypeOK, FlagsOK
  <1>1. CASE LoadRow
    BY <1>1 DEF LoadRow, Running
  <1>2. CASE LoadSeed
    BY <1>2 DEF LoadSeed, Running, Throws
  <1>3. CASE LoadFails
    BY <1>3 DEF LoadFails
  <1>4. ASSUME NEW p \in Mints, Set(p) PROVE Followed'
    <2>1. \A q \in Mints : at[q] # "read"
      BY <1>4, Zenon DEF Set
    <2>2. \A q \in Mints : at'[q] # "read"
      BY <1>4, <2>1 DEF Set
    <2>3. token' = latest' /\ token' # None /\ at'[p] = "set"
      BY <1>4 DEF Set, JWTs
    <2>4. QED BY <2>2, <2>3
  <1>5. ASSUME NEW p \in Mints, Read(p) PROVE Followed'
    BY <1>5 DEF Read, Running, holder
  <1>6. ASSUME NEW p \in Mints, Write(p) PROVE Followed'
    BY <1>6 DEF Write, Running
  <1>7. ASSUME NEW p \in Mints, WriteFails(p) PROVE Followed'
    BY <1>7 DEF WriteFails
  <1>8. ASSUME NEW l \in Logins, CreateSession(l) \/ Logout(l) \/ Expire(l) PROVE Followed'
    BY <1>8 DEF CreateSession, Logout, Expire, holder
  <1>9. ASSUME NEW p \in Relogins, Relogin(p) PROVE Followed'
    BY <1>9 DEF Relogin, holder
  <1>10. ASSUME NEW r \in Requests, NEW in \in Inbound, Call(r, in) \/ FetchUserInfo(r, in)
         PROVE  Followed'
    BY <1>10 DEF Call, FetchUserInfo, Begin, holder
  <1>11. ASSUME NEW r \in Requests,
                ResolveSession(r) \/ ResolveFails(r) \/ Propagate(r) \/ Fill(r)
         PROVE  Followed'
    BY <1>11 DEF ResolveSession, ResolveFails, Propagate, Fill, holder
  <1>12. CASE Crash
    BY <1>12 DEF Crash
  <1>13. CASE UNCHANGED vars
    BY <1>13 DEF vars, holder
  <1>14. QED BY <1>1, <1>2, <1>3, <1>4, <1>5, <1>6, <1>7, <1>8, <1>9, <1>10, <1>11, <1>12, <1>13 DEF Next

\* The steps that touch no request but through the holder.
LEMMA HolderRequests ==
    ASSUME TypeOK, Running, \A r \in Requests : Request(r),
           \/ LoadRow \/ LoadSeed \/ LoadFails
           \/ \E p \in Mints : Set(p) \/ Read(p) \/ Write(p) \/ WriteFails(p)
    PROVE  \A r \in Requests : Request(r)'
  <1> SUFFICES ASSUME NEW r \in Requests PROVE Request(r)'
    OBVIOUS
  <1> USE DEF Request, Brought, FromFrontend, FromOneRead, FromSession, FromHolder, Filled,
             Under, WhollyUnder
  <1>1. CASE LoadRow \/ LoadSeed \/ LoadFails
    BY <1>1 DEF LoadRow, LoadSeed, LoadFails, Running, requests
  <1>2. ASSUME NEW p \in Mints, Set(p) PROVE Request(r)'
    BY <1>2 DEF Set, TypeOK
  <1>3. ASSUME NEW p \in Mints, Read(p) \/ Write(p) \/ WriteFails(p) PROVE Request(r)'
    BY <1>3 DEF Read, Write, WriteFails, holder, requests
  <1>4. QED BY <1>1, <1>2, <1>3

LEMMA SessionRequests ==
    ASSUME TypeOK, Running, \A r \in Requests : Request(r),
           \/ \E l \in Logins : CreateSession(l) \/ Logout(l) \/ Expire(l)
           \/ \E p \in Relogins : Relogin(p)
           \/ Crash
    PROVE  \A r \in Requests : Request(r)'
  <1> SUFFICES ASSUME NEW r \in Requests PROVE Request(r)'
    OBVIOUS
  <1> USE DEF Request, Brought, FromFrontend, FromOneRead, FromSession, FromHolder, Filled,
             Under, WhollyUnder
  <1>1. ASSUME NEW l \in Logins, CreateSession(l) \/ Logout(l) \/ Expire(l) PROVE Request(r)'
    BY <1>1 DEF CreateSession, Logout, Expire, holder, requests
  <1>2. ASSUME NEW p \in Relogins, Relogin(p) PROVE Request(r)'
    BY <1>2 DEF Relogin, holder, requests
  <1>3. CASE Crash
    BY <1>3 DEF Crash, Names
  <1>4. QED BY <1>1, <1>2, <1>3

\* A filter works on one request ...
LEMMA OtherRequests ==
    ASSUME TypeOK, NEW r \in Requests, NEW q \in Requests, q # r, Request(q),
           \/ \E in \in Inbound : Call(r, in) \/ FetchUserInfo(r, in)
           \/ ResolveSession(r) \/ ResolveFails(r) \/ Propagate(r) \/ Fill(r)
    PROVE  Request(q)'
  <1>1. /\ phase'[q] = phase[q] /\ header'[q] = header[q]
        /\ frontend'[q] = frontend[q] /\ before'[q] = before[q]
        /\ cookie'[q] = cookie[q] /\ brings'[q] = brings[q]
    BY DEF TypeOK, Call, FetchUserInfo, Begin, ResolveSession, ResolveFails, Propagate, Fill
  <1>2. swapped' = swapped /\ token' = token
    BY DEF Call, FetchUserInfo, Begin, ResolveSession, ResolveFails, Propagate, Fill, holder
  <1>3. QED
    BY <1>1, <1>2 DEF Request, Brought, FromFrontend, FromOneRead, FromSession, FromHolder, Filled,
             Under, WhollyUnder

\* ... and adds to its headers what belongs there.
LEMMA BegunRequest ==
    ASSUME TypeOK, NEW r \in Requests, Request(r), NEW in \in Inbound,
           Call(r, in) \/ FetchUserInfo(r, in)
    PROVE  Request(r)'
  <1> USE AuthAssumption
  <1>1. /\ phase'[r] = "session" /\ phase[r] = "new" /\ token \in JWTs
        /\ cookie'[r] = in.login /\ brings'[r] = in.jwt /\ frontend'[r] = in.from
        /\ in.jwt \in Logins \cup {None} /\ (in.from = "none" <=> in.jwt = None)
    BY DEF TypeOK, Call, FetchUserInfo, Begin, Inbound, Known, JWTs, Mints
  <1>2. CASE Call(r, in)
    <2>1. before'[r] = "none" /\ header'[r] = header[r]
      BY <1>1, <1>2 DEF Call, Request, Brought
    <2>2. QED
      BY <1>1, <2>1 DEF Request, Brought, FromFrontend, FromOneRead, FromSession, FromHolder,
                        Filled, Names
  <1>3. CASE FetchUserInfo(r, in)
    <2>1. /\ before'[r] = "fetch"
          /\ header'[r]["authorization"] = {token} /\ header'[r]["x-ht-token"] = {token}
          /\ header'[r]["x-ht-uid"] = {Uid[token]}
      BY <1>3 DEF TypeOK, FetchUserInfo, Names
    <2>2. WhollyUnder(r, token)'
      BY <1>3, <2>1 DEF WhollyUnder, Under, FetchUserInfo, Begin, holder
    <2>3. FromOneRead(r)'
      BY <1>1, <1>3, <2>1 DEF FromOneRead, WhollyUnder, Under
    <2>4. QED
      BY <1>1, <2>1, <2>3 DEF Request, Brought, FromFrontend, FromSession, FromHolder, Filled, Names
  <1>4. QED BY <1>2, <1>3

LEMMA ResolvedRequest ==
    ASSUME TypeOK, NEW r \in Requests, Request(r), ResolveSession(r) \/ ResolveFails(r)
    PROVE  Request(r)'
  <1> USE AuthAssumption
  <1>1. /\ phase[r] = "session" /\ phase'[r] \in {"propagate", "over"}
        /\ brings'[r] = brings[r] /\ cookie'[r] = cookie[r] /\ frontend'[r] = frontend[r]
    BY DEF TypeOK, ResolveSession, ResolveFails
  <1>2. CASE before'[r] = before[r] /\ header'[r] = header[r]
    BY <1>1, <1>2 DEF Request, Brought, FromFrontend, FromOneRead, FromSession, FromHolder, Filled,
                      Names, Under, WhollyUnder
  <1>3. CASE ~(before'[r] = before[r] /\ header'[r] = header[r])
    <2>1. /\ before'[r] = "session" /\ cookie[r] \in Logins
          /\ header'[r]["authorization"] = {cookie[r]} /\ header'[r]["x-ht-token"] = {cookie[r]}
          /\ header'[r]["x-ht-uid"] = {Uid[cookie[r]]}
      BY <1>3 DEF TypeOK, ResolveSession, ResolveFails, Names
    <2>2. QED
      BY <1>1, <2>1 DEF Request, Brought, FromFrontend, FromOneRead, FromSession, FromHolder, Filled,
                        Names, Under, WhollyUnder
  <1>4. QED BY <1>2, <1>3

LEMMA PropagatedRequest ==
    ASSUME TypeOK, NEW r \in Requests, Request(r), Propagate(r)
    PROVE  Request(r)'
  <1>1. /\ phase[r] = "propagate" /\ phase'[r] = "user-agent"
        /\ brings'[r] = brings[r] /\ cookie'[r] = cookie[r] /\ frontend'[r] = frontend[r]
        /\ before'[r] = before[r] /\ token' = token
    BY DEF TypeOK, Propagate, holder
  <1>2. /\ header'[r]["authorization"] = IF frontend[r] = "none" THEN header[r]["authorization"]
                                         ELSE header[r]["authorization"] \cup {brings[r]}
        /\ header'[r]["x-ht-token"] = IF frontend[r] = "own" THEN header[r]["x-ht-token"] \cup {brings[r]}
                                      ELSE header[r]["x-ht-token"]
        /\ header'[r]["x-ht-uid"] = header[r]["x-ht-uid"]
    <2>1. header' = [header EXCEPT
                        ![r]["authorization"] = IF frontend[r] = "none" THEN @ ELSE @ \cup {brings[r]},
                        ![r]["x-ht-token"] = IF frontend[r] = "own" THEN @ \cup {brings[r]} ELSE @]
      BY DEF Propagate
    <2>2. header \in [Requests -> [Names -> SUBSET (JWTs \cup Uids)]]
      BY DEF TypeOK
    <2>3. QED BY <2>1, <2>2 DEF Names
  <1>3. QED
    BY <1>1, <1>2 DEF Request, Brought, FromFrontend, FromOneRead, FromSession, FromHolder, Filled,
                      Names, Under, WhollyUnder

LEMMA FilledRequest ==
    ASSUME TypeOK, Running, NEW r \in Requests, Request(r), Fill(r)
    PROVE  Request(r)'
  <1> USE AuthAssumption
  <1> DEFINE Was(name) == header[r][name]
             Is(name) == header'[r][name]
  <1>1. /\ phase[r] \in Names /\ phase'[r] = FillOrder[phase[r]]
        /\ before'[r] = before[r] /\ frontend'[r] = frontend[r]
        /\ cookie'[r] = cookie[r] /\ brings'[r] = brings[r]
        /\ token' = token /\ swapped' = swapped /\ token \in JWTs
    BY DEF TypeOK, Fill, holder, Running
  <1>2. \A name \in Names : name # phase[r] => Is(name) = Was(name)
    BY DEF TypeOK, Fill
  <1>3. phase[r] # "user-agent" =>
            Is(phase[r]) = IF Was(phase[r]) = {} THEN {DefaultFor(r, phase[r])} ELSE Was(phase[r])
    BY DEF TypeOK, Fill
  <1>4. /\ before[r] = "fetch" /\ frontend[r] = "none" => \E jwt \in JWTs : WhollyUnder(r, jwt)'
        /\ before[r] = "session" /\ frontend[r] = "none" => WhollyUnder(r, cookie[r])'
    <2>1. ASSUME NEW jwt, WhollyUnder(r, jwt) PROVE WhollyUnder(r, jwt)'
      BY <1>1, <1>2, <1>3, <2>1 DEF WhollyUnder, Under, Names
    <2>2. QED
      BY <1>1, <2>1 DEF Request, FromOneRead, FromSession
  <1>5. Brought(r)' /\ FromOneRead(r)' /\ FromSession(r)'
    BY <1>1, <1>4 DEF Request, Brought, FromOneRead, FromSession, FillOrder, Names, WhollyUnder, Under
  <1>6. CASE phase[r] = "user-agent"
    <2>1. /\ phase'[r] = "authorization"
          /\ Is("authorization") = Was("authorization") /\ Is("x-ht-token") = Was("x-ht-token")
          /\ Is("x-ht-uid") = Was("x-ht-uid")
      BY <1>1, <1>2, <1>6 DEF FillOrder, Names
    <2>2. QED
      BY <1>1, <1>5, <1>6, <2>1 DEF Request, FromFrontend, FromHolder, Filled, Names
  <1>7. CASE phase[r] = "authorization"
    <2>1. /\ phase'[r] = "x-ht-token"
          /\ Is("authorization") = IF Was("authorization") = {} THEN {token} ELSE Was("authorization")
          /\ Is("x-ht-token") = Was("x-ht-token") /\ Is("x-ht-uid") = Was("x-ht-uid")
      BY <1>1, <1>2, <1>3, <1>7 DEF FillOrder, DefaultFor, Names
    <2>2. QED
      BY <1>1, <1>5, <1>7, <2>1 DEF Request, FromFrontend, FromHolder, Filled, Names
  <1>8. CASE phase[r] = "x-ht-token"
    <2>1. /\ phase'[r] = "x-ht-uid"
          /\ Is("x-ht-token") = IF Was("x-ht-token") = {} THEN {token} ELSE Was("x-ht-token")
          /\ Is("authorization") = Was("authorization") /\ Is("x-ht-uid") = Was("x-ht-uid")
      BY <1>1, <1>2, <1>3, <1>8 DEF FillOrder, DefaultFor, Names
    <2>2. QED
      BY <1>1, <1>5, <1>8, <2>1 DEF Request, FromFrontend, FromHolder, Filled, Names
  <1>9. CASE phase[r] = "x-ht-uid"
    <2>1. /\ phase'[r] = "sent"
          /\ Is("x-ht-uid") = IF Was("x-ht-uid") = {}
                              THEN {IF brings[r] # None THEN Uid[brings[r]] ELSE Uid[token]}
                              ELSE Was("x-ht-uid")
          /\ Is("authorization") = Was("authorization") /\ Is("x-ht-token") = Was("x-ht-token")
      BY <1>1, <1>2, <1>3, <1>9 DEF FillOrder, DefaultFor, Names
    <2>2. FromFrontend(r)'
      BY <1>1, <1>9, <2>1 DEF Request, Brought, FromFrontend, Names
    <2>3. FromHolder(r)'
      <3> SUFFICES ASSUME before[r] = "none", frontend[r] = "none", r \notin swapped
                   PROVE  WhollyUnder(r, token)'
        BY <1>1, <2>1 DEF FromHolder, Names, WhollyUnder, Under
      <3>1. /\ Was("authorization") = {token} /\ Was("x-ht-token") = {token}
            /\ Was("x-ht-uid") \in {{}, {Uid[token]}} /\ brings[r] = None
        BY <1>9 DEF Request, Brought, FromHolder, Filled, Names
      <3>2. QED BY <1>1, <2>1, <3>1 DEF WhollyUnder, Under
    <2>4. Filled(r)'
      BY <1>9, <2>1 DEF Request, Filled
    <2>5. QED BY <1>5, <2>2, <2>3, <2>4 DEF Request
  <1>10. QED BY <1>1, <1>6, <1>7, <1>8, <1>9 DEF Names

LEMMA FilteredRequest ==
    ASSUME TypeOK, Running, NEW r \in Requests, Request(r),
           \/ \E in \in Inbound : Call(r, in) \/ FetchUserInfo(r, in)
           \/ ResolveSession(r) \/ ResolveFails(r) \/ Propagate(r) \/ Fill(r)
    PROVE  Request(r)'
  BY BegunRequest, ResolvedRequest, PropagatedRequest, FilledRequest

\* Every step keeps what is known of the requests.
LEMMA RequestStep ==
    TypeOK /\ Running /\ (\A r \in Requests : Request(r)) /\ [Next]_vars
    => \A r \in Requests : Request(r)'
  <1> SUFFICES ASSUME TypeOK, Running, \A r \in Requests : Request(r), [Next]_vars,
                      NEW q \in Requests
               PROVE  Request(q)'
    OBVIOUS
  <1>1. CASE UNCHANGED vars
    BY <1>1 DEF vars, holder, requests, Request, Brought, FromFrontend, FromOneRead,
                FromSession, FromHolder, Filled, Under, WhollyUnder
  <1>2. CASE \/ LoadRow \/ LoadSeed \/ LoadFails
             \/ \E p \in Mints : Set(p) \/ Read(p) \/ Write(p) \/ WriteFails(p)
    BY <1>2, HolderRequests
  <1>3. CASE \/ \E l \in Logins : CreateSession(l) \/ Logout(l) \/ Expire(l)
             \/ \E p \in Relogins : Relogin(p)
             \/ Crash
    BY <1>3, SessionRequests
  <1>4. ASSUME NEW r \in Requests,
               \/ \E in \in Inbound : Call(r, in) \/ FetchUserInfo(r, in)
               \/ ResolveSession(r) \/ ResolveFails(r) \/ Propagate(r) \/ Fill(r)
        PROVE  Request(q)'
    <2>1. CASE q = r
      BY <1>4, <2>1, FilteredRequest
    <2>2. CASE q # r
      BY <1>4, <2>2, OtherRequests
    <2>3. QED BY <2>1, <2>2
  <1>5. QED BY <1>1, <1>2, <1>3, <1>4 DEF Next

LEMMA InitIInv == Init => IInv
  <1> SUFFICES ASSUME Init PROVE IInv
    OBVIOUS
  <1>1. TypeOK
    BY InitType
  <1>2. Running
    BY DEF Init, Running, Names
  <1>3. Followed
    BY DEF Init, Followed
  <1>4. \A r \in Requests : Request(r)
    BY DEF Init, Request, Brought, FromFrontend, FromOneRead, FromSession, FromHolder, Filled,
             Under, WhollyUnder, NoHeaders,
           Names
  <1>5. QED BY <1>1, <1>2, <1>3, <1>4 DEF IInv

LEMMA Inductive == Spec => []IInv
  <1>1. IInv /\ [Next]_vars => IInv'
    BY TypeStep, RunningStep, FollowedStep, RequestStep DEF IInv
  <1>2. QED BY InitIInv, <1>1, PTL DEF Spec

\* Every state of the holder, the sessions and the requests has its type.
THEOREM TypeCorrect == Spec => []TypeOK
  BY Inductive, PTL DEF IInv

\* The JWT published last is in the holder and in the row whenever nothing is
\* being published, but for the three disturbances that TokenSurvives names:
\* for any number of logins and relogins at once and any number of restarts.
THEOREM TokenSurvivesHolds == Spec => []TokenSurvives
  <1>1. IInv => TokenSurvives
    BY DEF IInv, Followed, TokenSurvives
  <1>2. QED BY <1>1, Inductive, PTL

\* A request with one credential goes out under one account, that of its caller
\* if it has one, while any number of others log in.
THEOREM HeadersAgreeHolds == Spec => []HeadersAgree
  <1>1. IInv => HeadersAgree
    <2> SUFFICES ASSUME IInv, NEW r \in Requests, phase[r] = "sent"
                 PROVE  /\ before[r] = "session" /\ frontend[r] = "none" => WhollyUnder(r, cookie[r])
                        /\ before[r] = "none" /\ frontend[r] = "own" => WhollyUnder(r, brings[r])
                        /\ before[r] = "none" /\ frontend[r] = "alone" => Under(r, brings[r])
                        /\ before[r] = "fetch" /\ frontend[r] = "none" =>
                              \E jwt \in JWTs : WhollyUnder(r, jwt)
                        /\ before[r] = "none" /\ frontend[r] = "none" /\ r \notin swapped =>
                              \E jwt \in JWTs : WhollyUnder(r, jwt)
      BY DEF HeadersAgree
    <2>1. Request(r)
      BY DEF IInv
    <2>2. FromFrontend(r) /\ Filled(r)
      BY <2>1 DEF Request
    <2>3. before[r] = "none" /\ frontend[r] # "none" =>
              /\ header[r]["authorization"] = {brings[r]} /\ header[r]["x-ht-uid"] = {Uid[brings[r]]}
              /\ frontend[r] = "own" => header[r]["x-ht-token"] = {brings[r]}
      BY <2>2 DEF FromFrontend, Filled
    <2>4. QED
      BY <2>1, <2>3 DEF Request, FromOneRead, FromSession, FromHolder, Under, WhollyUnder
  <1>2. QED BY <1>1, Inductive, PTL
=============================================================================
