----------------------------- MODULE HttpServer -----------------------------
(***************************************************************************)
(* The HTTP server of controllers/main.go: Server() reads the config and  *)
(* sets up echo; a request passes the HTTPS redirect (Pre), the basic-auth *)
(* middleware, then the route's handler, wrapped in sessionValidator or   *)
(* not.  Handlers modelled: the debug endpoints, session-terminate, the   *)
(* version, and cluster routes abstracted to two classes: those wrapped   *)
(* in sessionValidator and those registered without it.                   *)
(*                                                                         *)
(* The observer's debug record (DebugStatus / StartDebug / StopDebug) and *)
(* the session store are not in this source; they are modelled from the   *)
(* spec: a record with on, initiator and the minutes left before expiry.  *)
(***************************************************************************)
EXTENDS Naturals

CONSTANTS
    Clients,      \* browsers (remote hosts)
    Ports,        \* client-side ports of their TCP connections
    Users,        \* user names in config, environment and requests
    Passwords,    \* passwords likewise
    Durations,    \* DurationMins values a postDebug form may carry
    Services,     \* "service" values a postDebug form may carry
    ConfigSpace,  \* the configurations the process may be started with
    NoAddr

Addr == Clients \X Ports           \* c.Request().RemoteAddr, "ip:port"
Creds == Users \X Passwords        \* "" is the absent user / password
MaxLeft == CHOOSE m \in Durations : \A d \in Durations : d <= m
ASSUME NoAddr \notin Addr

\* Route classes of the table in Server().
Routes == {"session-terminate", "debug-get", "debug-post", "version",
           "get-cluster-id", "cluster", "cluster-open"}

VARIABLES
    cfg,        \* the configuration (config file and environment)
    phase,      \* "boot", "serving", or "exited" after log.Fatalln
    auth,       \* <<basicAuthUser, basicAuthPassword>> after the overrides
    tls,        \* config.AMC.CertFile != "": HTTPS with redirect
    debug,      \* the observer's debug record
    sessions,   \* clients holding a session bound to the cluster
    resp        \* each client's last response

vars == <<cfg, phase, auth, tls, debug, sessions, resp>>

NoResp == [route |-> "none", code |-> "none", data |-> FALSE,
           session |-> FALSE, on |-> FALSE, initiator |-> NoAddr,
           origin |-> FALSE, active |-> FALSE, starter |-> NoAddr]

Resp == [route : Routes \cup {"none"},
         code : {"none", "redirect", "unauthorized", "ok", "error",
                 "no-session"},
         data : BOOLEAN, session : BOOLEAN, on : BOOLEAN,
         initiator : Addr \cup {NoAddr}, origin : BOOLEAN,
         active : BOOLEAN, starter : Addr \cup {NoAddr}]

-----------------------------------------------------------------------------
(* The observer's debug switch (from the spec)                            *)

\* DebugStatus(): an expired record reads as off.
DebugStatus ==
    [on |-> debug.on /\ debug.left > 0,
     initiator |-> IF debug.on /\ debug.left > 0 THEN debug.initiator ELSE NoAddr]

\* StartDebug(initiator, dur).
StartDebug(a, d) == [on |-> TRUE, initiator |-> a, left |-> d, starter |-> a]

\* StopDebug().
StopDebug == [on |-> FALSE, initiator |-> NoAddr, left |-> 0, starter |-> debug.starter]

\* Mutant: the timer counts past the expiry.
TickPastExpiry ==
    /\ phase # "exited"
    /\ debug.on
    /\ debug' = [debug EXCEPT !.left = @ - 1]
    /\ UNCHANGED <<cfg, phase, auth, tls, sessions, resp>>

\* A minute passes on a running debug timer.
Tick ==
    /\ phase # "exited"
    /\ debug.on /\ debug.left > 0
    /\ debug' = [debug EXCEPT !.left = @ - 1]
    /\ UNCHANGED <<cfg, phase, auth, tls, sessions, resp>>

-----------------------------------------------------------------------------

Init ==
    /\ cfg \in ConfigSpace
    /\ phase = "boot"
    /\ auth = <<"", "">>
    /\ tls = FALSE
    /\ debug = [on |-> FALSE, initiator |-> NoAddr, left |-> 0, starter |-> NoAddr]
    /\ sessions = {}
    /\ resp = [c \in Clients |-> NoResp]

\* Server(): no static path is fatal; otherwise the environment variables
\* override the basic-auth user and password one by one, and a CertFile
\* selects HTTPS with a redirect of plain requests.
ServerFatal ==
    /\ phase = "boot"
    /\ ~cfg.static
    /\ phase' = "exited"
    /\ UNCHANGED <<cfg, auth, tls, debug, sessions, resp>>

ServerStart ==
    /\ phase = "boot"
    /\ cfg.static
    /\ auth' = <<IF cfg.envUser # "" THEN cfg.envUser ELSE cfg.user,
                 IF cfg.envPass # "" THEN cfg.envPass ELSE cfg.pass>>
    /\ tls' = cfg.cert
    /\ phase' = "serving"
    /\ UNCHANGED <<cfg, debug, sessions, resp>>

\* A request reaches the router: HTTPS is not required or was used, and
\* the basic-auth middleware is off or the credentials match.
Admitted(secure, cred) ==
    /\ phase = "serving"
    /\ tls => secure
    /\ auth[1] # "" => cred = auth

\* e.Pre(middleware.HTTPSRedirect()): a plain request is redirected.
RedirectHttps(c, r) ==
    /\ phase = "serving"
    /\ tls
    /\ resp' = [resp EXCEPT ![c] = [NoResp EXCEPT !.route = r, !.code = "redirect"]]
    /\ UNCHANGED <<cfg, phase, auth, tls, debug, sessions>>

\* middleware.BasicAuth: username == basicAuthUser && password == ...
RejectAuth(c, secure, cred, r) ==
    /\ phase = "serving"
    /\ tls => secure
    /\ auth[1] # ""
    /\ cred # auth
    /\ resp' = [resp EXCEPT ![c] = [NoResp EXCEPT !.route = r, !.code = "unauthorized"]]
    /\ UNCHANGED <<cfg, phase, auth, tls, debug, sessions>>

\* postSessionTerminate: invalidateSession, then success.
SessionTerminate(c) ==
    /\ sessions' = sessions \ {c}
    /\ resp' = [resp EXCEPT ![c] = [NoResp EXCEPT !.route = "session-terminate", !.code = "ok"]]
    /\ UNCHANGED <<cfg, phase, auth, tls, debug>>

\* Mutant: getDebug reads the record without DebugStatus's expiry test.
GetDebugRawRecord(c, p) ==
    /\ resp' = [resp EXCEPT ![c] =
                  [NoResp EXCEPT !.route = "debug-get", !.code = "ok",
                     !.on = debug.on, !.initiator = debug.initiator,
                     !.origin = debug.on /\ debug.initiator = <<c, p>>,
                     !.active = DebugStatus.on, !.starter = debug.starter]]
    /\ UNCHANGED <<cfg, phase, auth, tls, debug, sessions>>

\* getDebug: res := DebugStatus(); ON with the initiator and whether the
\* requester's RemoteAddr is it, else OFF.
GetDebug(c, p) ==
    /\ resp' = [resp EXCEPT ![c] =
                  [NoResp EXCEPT !.route = "debug-get", !.code = "ok",
                     !.on = DebugStatus.on, !.initiator = DebugStatus.initiator,
                     !.origin = DebugStatus.on /\ DebugStatus.initiator = <<c, p>>,
                     !.active = DebugStatus.on, !.starter = debug.starter]]
    /\ UNCHANGED <<cfg, phase, auth, tls, debug, sessions>>

\* postDebug: "start" and "restart" call StartDebug(RemoteAddr, minutes),
\* "stop" calls StopDebug, anything else answers an error; the answer
\* reports the status StartDebug / StopDebug returned.
PostDebug(c, p, svc, d) ==
    /\ \/ /\ svc \in {"start", "restart"}
          /\ debug' = StartDebug(<<c, p>>, d)
       \/ /\ svc = "stop"
          /\ debug' = StopDebug
       \/ /\ svc \notin {"start", "restart", "stop"}
          /\ UNCHANGED debug
    /\ LET st == [on |-> debug'.on /\ debug'.left > 0, initiator |-> debug'.initiator]
       IN resp' = [resp EXCEPT ![c] =
                    [NoResp EXCEPT !.route = "debug-post",
                       !.code = IF svc \in {"start", "restart", "stop"} THEN "ok" ELSE "error",
                       !.on = svc \in {"start", "restart", "stop"} /\ st.on,
                       !.initiator = IF st.on THEN st.initiator ELSE NoAddr,
                       !.active = st.on, !.starter = debug'.starter]]
    /\ UNCHANGED <<cfg, phase, auth, tls, sessions>>

\* getAMCVersion.
GetVersion(c) ==
    /\ resp' = [resp EXCEPT ![c] = [NoResp EXCEPT !.route = "version", !.code = "ok"]]
    /\ UNCHANGED <<cfg, phase, auth, tls, debug, sessions>>

\* postGetClusterId (registered without sessionValidator) connects the
\* cluster and binds it to the caller's session (from the spec).
GetClusterId(c) ==
    /\ sessions' = sessions \cup {c}
    /\ resp' = [resp EXCEPT ![c] = [NoResp EXCEPT !.route = "get-cluster-id", !.code = "ok"]]
    /\ UNCHANGED <<cfg, phase, auth, tls, debug>>

\* A cluster route wrapped in sessionValidator: served only to a session.
ClusterRoute(c) ==
    /\ resp' = [resp EXCEPT ![c] =
                  [NoResp EXCEPT !.route = "cluster",
                     !.code = IF c \in sessions THEN "ok" ELSE "no-session",
                     !.data = c \in sessions, !.session = c \in sessions]]
    /\ UNCHANGED <<cfg, phase, auth, tls, debug, sessions>>

\* A cluster route registered without sessionValidator (the jobs routes).
OpenClusterRoute(c) ==
    /\ resp' = [resp EXCEPT ![c] =
                  [NoResp EXCEPT !.route = "cluster-open", !.code = "ok",
                     !.data = TRUE, !.session = c \in sessions]]
    /\ UNCHANGED <<cfg, phase, auth, tls, debug, sessions>>

\* One request from client c over connection port p.
Request(c, p, secure, cred) ==
    \/ ~secure /\ \E r \in Routes : RedirectHttps(c, r)
    \/ \E r \in Routes : RejectAuth(c, secure, cred, r)
    \/ /\ Admitted(secure, cred)
       /\ \/ SessionTerminate(c)
          \/ GetDebug(c, p)
          \/ \E svc \in Services, d \in Durations : PostDebug(c, p, svc, d)
          \/ GetVersion(c)
          \/ GetClusterId(c)
          \/ ClusterRoute(c)
          \/ OpenClusterRoute(c)

Next ==
    \/ ServerFatal
    \/ ServerStart
    \/ Tick
    \/ \E c \in Clients, p \in Ports, secure \in BOOLEAN, cred \in Creds :
         Request(c, p, secure, cred)

Spec == Init /\ [][Next]_vars

-----------------------------------------------------------------------------
(* Properties                                                              *)

TypeOK ==
    /\ phase \in {"boot", "serving", "exited"}
    /\ auth \in Creds
    /\ tls \in BOOLEAN
    /\ debug \in [on : BOOLEAN, initiator : Addr \cup {NoAddr},
                  left : 0..MaxLeft, starter : Addr \cup {NoAddr}]
    /\ sessions \subseteq Clients
    /\ resp \in [Clients -> Resp]

\* The debug endpoints tell the truth about the switch: a getDebug or
\* postDebug answer says ON exactly when the record was unexpired at that
\* moment, and then names the address of the latest StartDebug.  (An
\* unknown postDebug service answers an error and reports no status.)
DebugResponseCurrent ==
    \A c \in Clients :
        resp[c].route \in {"debug-get", "debug-post"} /\ resp[c].code = "ok" =>
            /\ resp[c].on = resp[c].active
            /\ resp[c].on => resp[c].initiator = resp[c].starter

\* getDebug's isOriginInitiator: the browser that started debugging is
\* told so when it asks again (the UI offers it the stop button).
InitiatorRecognised ==
    \A c \in Clients :
        (resp[c].route = "debug-get" /\ resp[c].on /\ resp[c].initiator[1] = c)
            => resp[c].origin

\* Cluster data is served only to a caller with a session bound to the
\* cluster (the spec's session-authenticated API).
ClusterDataNeedsSession ==
    \A c \in Clients : resp[c].data => resp[c].session

=============================================================================
