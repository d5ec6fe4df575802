---------------------------- MODULE ImConnector ----------------------------
(***************************************************************************)
(* HtImUpstreamConnector: the binary WebSocket to HelloTalk's ht_im/sock.  *)
(*                                                                         *)
(* One connector object is shared by the thread that created it, the       *)
(* listener threads of its sockets, the executor that runs the callbacks   *)
(* of buildAsync and the common pool that runs delayed reconnects and      *)
(* relogins.  Its fields are volatile and no lock guards them.  A step     *)
(* here is a stretch of one thread that reads and writes the shared fields *)
(* at one point; a check and the use made of it are separate steps         *)
(* wherever another thread can come between.                               *)
(*                                                                         *)
(* A socket is external code (java.net.http.WebSocket): the listener gets  *)
(* frames in order, then at most one of onClose and onError, and nothing   *)
(* after that.  A listener method that throws ends the socket in onError.  *)
(***************************************************************************)
EXTENDS Naturals

CONSTANTS
    Sockets,     \* names for sockets; a name is reused once its socket is over
    NoSocket,    \* the null of fields ws and sessionKey
    MaxAttempt,  \* bound: the backoff counter saturates here
    MaxRelogins  \* bound: relogins in one behaviour

ASSUME ConnectorAssumption ==
    /\ NoSocket \notin Sockets
    /\ MaxAttempt \in Nat
    /\ MaxRelogins \in Nat

VARIABLES
    runner,            \* reloginRunner # null: credentials are configured
    jwt,               \* 0 for the constructor's token, n for that of the nth relogin
    intentionalClose,  \* volatile field of the same name
    connected,         \* volatile field of the same name
    ws,                \* volatile field of the same name
    sessionKey,        \* the socket whose login response supplied the key
    heartbeat,         \* HeartbeatPump: "idle", "ticking" or "shutdown"
    attempt,           \* ReconnectStrategy.attempt
    call,              \* socket -> progress of the attemptConnect() that builds it
    wire,              \* socket -> what has become of the socket
    login,             \* socket -> progress of the login exchange on it
    delayed,           \* reconnects waiting in the delayed executor
    relogins,          \* relogin tasks in their blocking HTTP login
    switches,          \* relogin tasks between closing the old socket and dialing
    closers,           \* threads inside close(), before it looks at ws
    owner              \* the hub that owns the connector: "new", "using", "done"

vars == <<runner, jwt, intentionalClose, connected, ws, sessionKey, heartbeat,
          attempt, call, wire, login, delayed, relogins, switches, closers, owner>>

Calls  == {"none", "opening", "dialing", "built", "checked", "published", "over"}
Wires  == {"none", "open", "closing", "closed", "dead"}
Logins == {"none", "sent", "ok", "refused"}

Init ==
    /\ runner \in BOOLEAN
    /\ jwt = 0
    /\ intentionalClose = FALSE
    /\ connected = FALSE
    /\ ws = NoSocket
    /\ sessionKey = NoSocket
    /\ heartbeat = "idle"
    /\ attempt = 0
    /\ call = [s \in Sockets |-> "none"]
    /\ wire = [s \in Sockets |-> "none"]
    /\ login = [s \in Sockets |-> "none"]
    /\ delayed = 0
    /\ relogins = 0
    /\ switches = 0
    /\ closers = 0
    /\ owner = "new"

----------------------------------------------------------------------------
(* Building blocks.                                                        *)

\* The socket can still bring frames, a close or an error.
Alive(s) == wire[s] \in {"open", "closing"}

\* Attempts under way that have not produced a socket.
Dialing(s) == call[s] \in {"opening", "dialing"}

\* A name that no thread refers to any more, and not the one in ws.
Unused(s) ==
    /\ call[s] \in {"none", "over"}
    /\ ~Alive(s)
    /\ s # ws

\* buildAsync: the start of attemptConnect().  "opening" is the attempt that
\* connect() returns to its caller, "dialing" one that retries on failure.
Dial(s, as) ==
    /\ Unused(s)
    /\ call' = [call EXCEPT ![s] = as]
    /\ wire' = [wire EXCEPT ![s] = "none"]
    /\ login' = [login EXCEPT ![s] = "none"]

\* sock.sendClose(1000, ...): no effect on a socket that is over.
SendClose(s) ==
    wire' = [t \in Sockets |-> IF t = s /\ wire[t] = "open" THEN "closing" ELSE wire[t]]

\* HeartbeatPump.stop and close: shutdownNow is for good.
HeartbeatStop == heartbeat' = IF heartbeat = "ticking" THEN "idle" ELSE heartbeat
HeartbeatClose == heartbeat' = "shutdown"

\* The first half of close(): everything up to the read of ws.
CloseBegin ==
    /\ intentionalClose' = TRUE
    /\ connected' = FALSE
    /\ HeartbeatClose
    /\ closers' = closers + 1

\* reconnectInBackground(): takes the next backoff delay and queues a task.
ReconnectInBackground ==
    IF intentionalClose
    THEN UNCHANGED <<delayed, attempt>>
    ELSE /\ delayed' = delayed + 1
         /\ attempt' = IF attempt < MaxAttempt THEN attempt + 1 ELSE attempt

----------------------------------------------------------------------------
(* The owner's calls.                                                      *)

\* ImEventSource calls connect() once, right after attach().
Connect(s) ==
    /\ owner = "new"
    /\ owner' = "using"
    /\ intentionalClose' = FALSE
    /\ attempt' = 0
    /\ Dial(s, "opening")
    /\ UNCHANGED <<runner, jwt, connected, ws, sessionKey, heartbeat, delayed,
                   relogins, switches, closers>>

\* ImEventSource.unsubscribe drops the connector and calls close().
Release ==
    /\ owner = "using"
    /\ owner' = "done"
    /\ CloseBegin
    /\ UNCHANGED <<runner, jwt, ws, sessionKey, attempt, call, wire, login,
                   delayed, relogins, switches>>

\* The second half of close(): the socket that ws holds by now is closed.
CloseEnd ==
    /\ closers > 0
    /\ closers' = closers - 1
    /\ SendClose(ws)
    /\ UNCHANGED <<runner, jwt, intentionalClose, connected, ws, sessionKey,
                   heartbeat, attempt, call, login, delayed, relogins, switches, owner>>

----------------------------------------------------------------------------
(* attemptConnect() and the reconnect loop.                                *)

\* Mutant: a failed background attempt is not followed by another.
BuildFailsOnce(s) ==
    /\ Dialing(s)
    /\ call' = [call EXCEPT ![s] = "over"]
    /\ UNCHANGED <<runner, jwt, intentionalClose, connected, ws, sessionKey, heartbeat,
                   attempt, wire, login, delayed, relogins, switches, closers, owner>>

BuildFails(s) ==
    /\ Dialing(s)
    /\ call' = [call EXCEPT ![s] = "over"]
    /\ IF call[s] = "dialing" THEN ReconnectInBackground
                              ELSE UNCHANGED <<delayed, attempt>>
    /\ UNCHANGED <<runner, jwt, intentionalClose, connected, ws, sessionKey,
                   heartbeat, wire, login, relogins, switches, closers, owner>>

\* From here the listener may be called: its default onOpen requests a frame.
BuildSucceeds(s) ==
    /\ Dialing(s)
    /\ call' = [call EXCEPT ![s] = "built"]
    /\ wire' = [wire EXCEPT ![s] = "open"]
    /\ UNCHANGED <<runner, jwt, intentionalClose, connected, ws, sessionKey,
                   heartbeat, attempt, login, delayed, relogins, switches, closers, owner>>

\* Mutant: the callback does not test intentionalClose.
CheckClosedNever(s) ==
    /\ call[s] = "built"
    /\ call' = [call EXCEPT ![s] = "checked"]
    /\ UNCHANGED <<runner, jwt, intentionalClose, connected, ws, sessionKey, heartbeat,
                   attempt, wire, login, delayed, relogins, switches, closers, owner>>

\* The callback's test of intentionalClose, and all it does if it is set.
CheckClosed(s) ==
    /\ call[s] = "built"
    /\ IF intentionalClose
       THEN /\ SendClose(s)
            /\ HeartbeatClose
            /\ call' = [call EXCEPT ![s] = "over"]
       ELSE /\ call' = [call EXCEPT ![s] = "checked"]
            /\ UNCHANGED <<wire, heartbeat>>
    /\ UNCHANGED <<runner, jwt, intentionalClose, connected, ws, sessionKey,
                   attempt, login, delayed, relogins, switches, closers, owner>>

Publish(s) ==
    /\ call[s] = "checked"
    /\ ws' = s
    /\ connected' = TRUE
    /\ attempt' = 0
    /\ call' = [call EXCEPT ![s] = "published"]
    /\ UNCHANGED <<runner, jwt, intentionalClose, sessionKey, heartbeat, wire,
                   login, delayed, relogins, switches, closers, owner>>

\* sendLoginPacket(sock) goes through sendOutbound: the packet is sent on the
\* socket that ws holds, and dropped while connected is false.
SendLogin(s) ==
    /\ call[s] = "published"
    /\ call' = [call EXCEPT ![s] = "over"]
    /\ login' = [t \in Sockets |->
                    IF t = ws /\ connected /\ wire[t] = "open" /\ login[t] = "none"
                    THEN "sent" ELSE login[t]]
    /\ UNCHANGED <<runner, jwt, intentionalClose, connected, ws, sessionKey,
                   heartbeat, attempt, wire, delayed, relogins, switches, closers, owner>>

\* Mutant: a delayed reconnect runs once more after the last.
ReconnectAgain ==
    /\ delayed' = delayed - 1
    /\ \E s \in Sockets : Dial(s, "dialing")
    /\ UNCHANGED <<runner, jwt, intentionalClose, connected, ws, sessionKey,
                   heartbeat, attempt, relogins, switches, closers, owner>>

\* A delayed reconnect comes due.
Reconnect ==
    /\ delayed > 0
    /\ delayed' = delayed - 1
    /\ IF intentionalClose
       THEN UNCHANGED <<call, wire, login>>
       ELSE \E s \in Sockets : Dial(s, "dialing")
    /\ UNCHANGED <<runner, jwt, intentionalClose, connected, ws, sessionKey,
                   heartbeat, attempt, relogins, switches, closers, owner>>

----------------------------------------------------------------------------
(* The listener of a socket.                                               *)

\* onClose: the peer closed, or answered our close.  The disconnect listener
\* that runs on an intentional close belongs to the owner (module ImHub).
OnClose(s) ==
    /\ Alive(s)
    /\ wire' = [wire EXCEPT ![s] = "closed"]
    /\ connected' = FALSE
    /\ HeartbeatStop
    /\ ReconnectInBackground
    /\ UNCHANGED <<runner, jwt, intentionalClose, ws, sessionKey, call, login,
                   relogins, switches, closers, owner>>

\* onError: reports the error to the owner and does nothing else.
OnError(s) ==
    /\ Alive(s)
    /\ wire' = [wire EXCEPT ![s] = "dead"]
    /\ UNCHANGED <<runner, jwt, intentionalClose, connected, ws, sessionKey,
                   heartbeat, attempt, call, login, delayed, relogins, switches,
                   closers, owner>>

\* Mutant: an accepted login does not start the heartbeat.
LoginAcceptedSilent(s) ==
    /\ Alive(s)
    /\ login[s] = "sent"
    /\ login' = [login EXCEPT ![s] = "ok"]
    /\ sessionKey' = s
    /\ UNCHANGED <<runner, jwt, intentionalClose, connected, ws, heartbeat, attempt,
                   call, wire, delayed, relogins, switches, closers, owner>>

\* handleLoginResponse with a session_key.  A pump that has been shut down
\* throws out of heartbeat.start, through onBinary, and so ends the socket.
LoginAccepted(s) ==
    /\ Alive(s)
    /\ login[s] = "sent"
    /\ login' = [login EXCEPT ![s] = "ok"]
    /\ sessionKey' = s
    /\ IF heartbeat = "shutdown"
       THEN /\ wire' = [wire EXCEPT ![s] = "dead"]
            /\ UNCHANGED heartbeat
       ELSE /\ heartbeat' = "ticking"
            /\ UNCHANGED wire
    /\ UNCHANGED <<runner, jwt, intentionalClose, connected, ws, attempt, call,
                   delayed, relogins, switches, closers, owner>>

\* The server ends a session at most once, before or after accepting it.
Refused(s) ==
    /\ Alive(s)
    /\ login[s] \in {"sent", "ok"}
    /\ login' = [login EXCEPT ![s] = "refused"]

\* handleLoginResponse, status 2: the account is banned.
LoginBanned(s) ==
    /\ Refused(s)
    /\ CloseBegin
    /\ UNCHANGED <<runner, jwt, ws, sessionKey, attempt, call, wire,
                   delayed, relogins, switches, owner>>

\* Mutant: status 105 goes through the reconnect loop instead of a relogin.
SessionMismatchReconnects(s) ==
    /\ Refused(s)
    /\ ReconnectInBackground
    /\ UNCHANGED <<runner, jwt, intentionalClose, connected, ws, sessionKey, heartbeat,
                   call, wire, relogins, switches, closers, owner>>

\* handleLoginResponse, status 105: the session was taken over elsewhere.
\* attemptRelogin() closes if no credentials are configured.
SessionMismatch(s) ==
    /\ Refused(s)
    /\ IF runner
       THEN /\ jwt + relogins < MaxRelogins
            /\ relogins' = relogins + 1
            /\ UNCHANGED <<intentionalClose, connected, heartbeat, closers>>
       ELSE /\ CloseBegin
            /\ UNCHANGED relogins
    /\ UNCHANGED <<runner, jwt, ws, sessionKey, attempt, call, wire,
                   delayed, switches, owner>>

----------------------------------------------------------------------------
(* The relogin task.                                                       *)

ReloginFails ==
    /\ relogins > 0
    /\ relogins' = relogins - 1
    /\ CloseBegin
    /\ UNCHANGED <<runner, jwt, ws, sessionKey, attempt, call, wire, login,
                   delayed, switches, owner>>

ReloginSucceeds ==
    /\ relogins > 0
    /\ relogins' = relogins - 1
    /\ jwt' = jwt + 1
    /\ SendClose(ws)
    /\ HeartbeatClose
    /\ switches' = switches + 1
    /\ UNCHANGED <<runner, intentionalClose, connected, ws, sessionKey, attempt,
                   call, login, delayed, closers, owner>>

\* The new attempt starts whether or not the connector was closed meanwhile.
ReloginDials ==
    /\ switches > 0
    /\ switches' = switches - 1
    /\ connected' = FALSE
    /\ \E s \in Sockets : Dial(s, "dialing")
    /\ UNCHANGED <<runner, jwt, intentionalClose, ws, sessionKey, heartbeat,
                   attempt, delayed, relogins, closers, owner>>

----------------------------------------------------------------------------
Next ==
    \/ \E s \in Sockets : Connect(s)
    \/ Release
    \/ CloseEnd
    \/ \E s \in Sockets :
          \/ BuildFails(s)
          \/ BuildSucceeds(s)
          \/ CheckClosed(s)
          \/ Publish(s)
          \/ SendLogin(s)
          \/ OnClose(s)
          \/ OnError(s)
          \/ LoginAccepted(s)
          \/ LoginBanned(s)
          \/ SessionMismatch(s)
    \/ Reconnect
    \/ ReloginFails
    \/ ReloginSucceeds
    \/ ReloginDials

Spec == Init /\ [][Next]_vars

\* Executors run what is queued, a buildAsync completes one way or the other,
\* and not every attempt fails for ever; a peer answers a close, or the
\* socket fails.  Nothing else the peer or the owner does is assumed.
Fairness ==
    /\ WF_vars(CloseEnd)
    /\ WF_vars(Reconnect)
    /\ WF_vars(ReloginFails \/ ReloginSucceeds)
    /\ WF_vars(ReloginDials)
    /\ SF_vars(\E s \in Sockets : BuildSucceeds(s))
    /\ \A s \in Sockets :
          /\ WF_vars(BuildSucceeds(s) \/ BuildFails(s))
          /\ WF_vars(CheckClosed(s))
          /\ WF_vars(Publish(s))
          /\ WF_vars(SendLogin(s))
          /\ WF_vars(wire[s] = "closing" /\ (OnClose(s) \/ OnError(s)))

FairSpec == Spec /\ Fairness

----------------------------------------------------------------------------
(* Properties.                                                             *)

FlagsOK ==
    /\ runner \in BOOLEAN
    /\ intentionalClose \in BOOLEAN
    /\ connected \in BOOLEAN

TypeOK ==
    /\ FlagsOK
    /\ jwt \in Nat
    /\ ws \in Sockets \cup {NoSocket}
    /\ sessionKey \in Sockets \cup {NoSocket}
    /\ heartbeat \in {"idle", "ticking", "shutdown"}
    /\ attempt \in 0..MaxAttempt
    /\ call \in [Sockets -> Calls]
    /\ wire \in [Sockets -> Wires]
    /\ login \in [Sockets -> Logins]
    /\ delayed \in Nat
    /\ relogins \in Nat
    /\ switches \in Nat
    /\ closers \in Nat
    /\ owner \in {"new", "using", "done"}

\* A socket or an attempt to build one.
Active(s) == Alive(s) \/ Dialing(s)

\* "Single binary WebSocket connection": until a relogin has swapped the
\* token, at most one thing is going on - one attempt, one socket, or one
\* reconnect waiting for its delay.
SingleConnection ==
    jwt = 0 =>
        /\ \A s, t \in Sockets : Active(s) /\ Active(t) => s = t
        /\ delayed \in {0, 1}
        /\ delayed = 1 => \A s \in Sockets : ~Active(s)

\* Until a relogin has swapped the token, a session the server accepted and
\* that is still open decodes pushes with its own key and has its heartbeat
\* running: no late onClose of an earlier socket has stopped it.
LiveSession ==
    \A s \in Sockets :
        jwt = 0 /\ ~intentionalClose /\ wire[s] = "open" /\ login[s] = "ok"
            => sessionKey = s /\ heartbeat = "ticking"

\* "An unexpected close triggers an internal reconnect loop": after the peer
\* closed a socket there is a socket again, unless the connector is closed
\* or a later socket of the loop ended in onError.
CloseHeals ==
    \A s \in Sockets :
        wire[s] = "closed" ~> \/ \E t \in Sockets : Alive(t) \/ wire[t] = "dead"
                             \/ intentionalClose

InReachOfClose ==
    \A s \in Sockets :
        /\ call[s] \notin {"checked", "published"}
        /\ Alive(s) => call[s] = "built" \/ ws = s

\* close() leaves no socket behind, if it begins while no callback of
\* attemptConnect stands between its test of intentionalClose and its last
\* assignment and the only socket is the one in ws or a still untested one.
CloseReachesSocket ==
    closers > 0 /\ jwt = 0 /\ InReachOfClose ~> \A s \in Sockets : ~Active(s)

\* "keeps a 30-second heartbeat": a session the server accepted has its
\* heartbeat running until its socket closes or the connector is closed.
\* Broken after a relogin: README, section 6.
HeartbeatKept ==
    \A s \in Sockets :
        login[s] = "ok" /\ wire[s] # "closed" /\ ~intentionalClose
            => heartbeat = "ticking"
=============================================================================
