------------------------------ MODULE AgentLink ------------------------------
(***************************************************************************)
(* One server as the hub sees it: enrollment, the agent's WebSocket, the   *)
(* deletion of the server (hub/icsd_hub/agents.py), the Live objects they  *)
(* share (live.py get, peek, forget) and the requests relayed to the agent *)
(* and matched to its answers by id (rpc.py call).                         *)
(*                                                                         *)
(* The hub is one asyncio process: a coroutine runs undisturbed from one   *)
(* await to the next, and every await is the end of an action here. What a *)
(* coroutine read before an await may be stale after it: that is what this *)
(* module is about.                                                        *)
(*                                                                         *)
(* A Live object is a number: after live.forget the handlers that still    *)
(* hold the old object keep writing to it.                                 *)
(***************************************************************************)
EXTENDS Integers, FiniteSets

CONSTANTS
    Conns,       \* connections agents open, each used once
    Calls,       \* rpc.call invocations, each used once
    None,
    MaxLive,     \* bound: Live objects created
    MaxSecrets   \* bound: enrollments

ASSUME LinkAssumption ==
    /\ MaxLive \in Nat /\ MaxSecrets \in Nat
    /\ None \notin Conns /\ None \notin Nat

Lives == 1 .. MaxLive

VARIABLES
    row,       \* the server has a row in the table "servers"
    secret,    \* which secret the row's secret_hash is of (0: none yet)
    token,     \* an enrollment token is valid
    issued,    \* secrets that agents hold
    enrolling, \* secrets of the enroll() calls that wait for the old socket to close
    deleting,  \* delete_server() waits for the socket to close
    samples,   \* the server has rows in samples_1m
    alert,     \* the server has an open event
    live,      \* _live[sid]: None or a Live object
    made,      \* Live objects made so far
    ws,        \* lv.ws of every Live object
    manage,    \* lv.caps["mode"] = "manage"
    acc,       \* lv.acc_n > 0: samples not yet written
    pending,   \* keys of lv.pending
    conn,        \* where the handler of a connection is
    sock,      \* the socket: open, closed by the hub, or lost by the peer
    lvOf,      \* the Live object its handler holds
    phase,     \* where a call is
    callLv, callWs,   \* the lv and ws a call holds
    fut,       \* the call's future
    outcome    \* what the call raised or returned

serverVars == <<row, secret, token, issued, enrolling, deleting, samples, alert>>
liveVars   == <<live, made, ws, manage, acc, pending>>
connVars   == <<conn, sock, lvOf>>
callVars   == <<phase, callLv, callWs, fut, outcome>>
linkVars       == <<serverVars, liveVars, connVars, callVars>>

\* agents.create_server: a row with a token and no secret.
LinkInit ==
    /\ row = TRUE /\ secret = 0 /\ token = TRUE /\ issued = {}
    /\ enrolling = {} /\ deleting = FALSE /\ samples = FALSE /\ alert = FALSE
    /\ live = None /\ made = 0
    /\ ws = [l \in Lives |-> None]
    /\ manage = [l \in Lives |-> FALSE]
    /\ acc = [l \in Lives |-> FALSE]
    /\ pending = [l \in Lives |-> {}]
    /\ conn = [c \in Conns |-> "idle"]
    /\ sock = [c \in Conns |-> "open"]
    /\ lvOf = [c \in Conns |-> None]
    /\ phase = [r \in Calls |-> "idle"]
    /\ callLv = [r \in Calls |-> None]
    /\ callWs = [r \in Calls |-> None]
    /\ fut = [r \in Calls |-> "none"]
    /\ outcome = [r \in Calls |-> None]

\* lv and lv.ws is not None
Connected == live # None /\ ws[live] # None

-----------------------------------------------------------------------------
(***************************************************************************)
(* The panel: a new install command, enrollment, deletion.                 *)
(***************************************************************************)

NewEnrollToken ==
    /\ row
    /\ token' = TRUE
    /\ UNCHANGED <<row, secret, issued, enrolling, deleting, samples, alert,
                   liveVars, connVars, callVars>>

\* The socket in lv.ws, if there is one, is told to close.
CloseInstalled ==
    sock' = [c \in Conns |-> IF Connected /\ c = ws[live] THEN "closed" ELSE sock[c]]

\* enroll: the secret is replaced and the token is used up. With nobody
\* connected the agent has its answer at once; otherwise the connection of the
\* old identity is told to close, and that is awaited first.
Enroll ==
    /\ row /\ token
    /\ secret < MaxSecrets
    /\ secret' = secret + 1
    /\ token' = FALSE
    /\ enrolling' = IF Connected THEN enrolling \cup {secret + 1} ELSE enrolling
    /\ issued' = IF Connected THEN issued ELSE issued \cup {secret + 1}
    /\ CloseInstalled
    /\ UNCHANGED <<row, deleting, samples, alert, liveVars, conn, lvOf, callVars>>

\* ... and after the await: the agent gets its secret.
EnrollAnswer(s) ==
    /\ s \in enrolling
    /\ enrolling' = enrolling \ {s}
    /\ issued' = issued \cup {s}
    /\ UNCHANGED <<row, secret, token, deleting, samples, alert, liveVars, connVars, callVars>>

\* Mutant: the Live object is not forgotten.
M_Erase ==
    /\ alert' = FALSE /\ samples' = FALSE
    /\ row' = FALSE /\ token' = FALSE
    /\ UNCHANGED <<secret, issued, enrolling, liveVars>>

\* live.forget, alerts.forget_server, the samples, the row.
Erase ==
    /\ live' = None
    /\ alert' = FALSE /\ samples' = FALSE
    /\ row' = FALSE /\ token' = FALSE
    /\ UNCHANGED <<secret, issued, enrolling, made, ws, manage, acc, pending>>

\* delete_server with nobody connected runs to its end ...
DeleteOffline ==
    /\ row /\ ~deleting /\ ~Connected
    /\ Erase
    /\ UNCHANGED <<deleting, connVars, callVars>>

\* ... and otherwise closes the socket first, which is awaited.
DeleteServer ==
    /\ row /\ ~deleting /\ Connected
    /\ deleting' = TRUE
    /\ CloseInstalled
    /\ UNCHANGED <<row, secret, token, issued, enrolling, samples, alert, liveVars,
                   conn, lvOf, callVars>>

DeleteFinish ==
    /\ deleting
    /\ deleting' = FALSE
    /\ Erase
    /\ UNCHANGED <<connVars, callVars>>

-----------------------------------------------------------------------------
(***************************************************************************)
(* agent_ws: the handler of one connection.                                *)
(***************************************************************************)

\* The secret does not match, or the server is gone: close(4401).
Reject(c, s) ==
    /\ conn[c] = "idle" /\ s \in issued
    /\ ~row \/ s # secret
    /\ conn' = [conn EXCEPT ![c] = "done"]
    /\ sock' = [sock EXCEPT ![c] = "closed"]
    /\ UNCHANGED <<serverVars, liveVars, lvOf, callVars>>

\* _authenticate succeeds.
Authenticated(c, s) == conn[c] = "idle" /\ s \in issued /\ row /\ s = secret

\* live.get: the object the handler will hold, made if there is none.
Got == IF live = None THEN made + 1 ELSE live

GetLive ==
    /\ Got \in Lives
    /\ live' = Got
    /\ made' = IF live = None THEN made + 1 ELSE made

\* No other connection: installed at once, then awaits send_text(cfg).
ConnectFree(c, s) ==
    /\ Authenticated(c, s) /\ GetLive
    /\ ws[Got] = None
    /\ ws' = [ws EXCEPT ![Got] = c]
    /\ conn' = [conn EXCEPT ![c] = "greeting"]
    /\ lvOf' = [lvOf EXCEPT ![c] = Got]
    /\ UNCHANGED <<serverVars, manage, acc, pending, sock, callVars>>

\* Another connection: taken out of lv.ws and told to close, which is awaited.
ConnectReplace(c, s) ==
    /\ Authenticated(c, s) /\ GetLive
    /\ ws[Got] # None
    /\ ws' = [ws EXCEPT ![Got] = None]
    /\ sock' = [sock EXCEPT ![ws[Got]] = "closed"]
    /\ conn' = [conn EXCEPT ![c] = "replacing"]
    /\ lvOf' = [lvOf EXCEPT ![c] = Got]
    /\ UNCHANGED <<serverVars, manage, acc, pending, callVars>>

\* The old socket is closed: lv.ws = ws, whatever happened meanwhile.
Install(c) ==
    /\ conn[c] = "replacing"
    /\ ws' = [ws EXCEPT ![lvOf[c]] = c]
    /\ conn' = [conn EXCEPT ![c] = "greeting"]
    /\ UNCHANGED <<serverVars, live, made, manage, acc, pending, sock, lvOf, callVars>>

\* send_text(cfg) went out; a frame to a lost peer may still be accepted.
Greeted(c) ==
    /\ conn[c] = "greeting" /\ sock[c] \in {"open", "lost"}
    /\ conn' = [conn EXCEPT ![c] = "serving"]
    /\ UNCHANGED <<serverVars, liveVars, sock, lvOf, callVars>>

\* send_text(cfg) raised. It is outside the try: no clean-up runs.
GreetingFails(c) ==
    /\ conn[c] = "greeting" /\ sock[c] \in {"closed", "lost"}
    /\ conn' = [conn EXCEPT ![c] = "done"]
    /\ UNCHANGED <<serverVars, liveVars, sock, lvOf, callVars>>

\* A message "m": live.ingest into the object the handler holds (which may
\* write the previous minute) and evaluate_sample, which may open or close
\* events. Frames received before a close are still handled after it.
Ingest(c, flushes, alerting) ==
    /\ conn[c] = "serving"
    /\ flushes => acc[lvOf[c]]
    /\ samples' = (samples \/ flushes)
    /\ acc' = [acc EXCEPT ![lvOf[c]] = TRUE]
    /\ alert' = alerting
    /\ UNCHANGED <<row, secret, token, issued, enrolling, deleting,
                   live, made, ws, manage, pending, connVars, callVars>>

\* A message "hello": what the agent's policy allows.
LinkHello(c, mode) ==
    /\ conn[c] = "serving"
    /\ manage' = [manage EXCEPT ![lvOf[c]] = mode]
    /\ UNCHANGED <<serverVars, live, made, ws, acc, pending, connVars, callVars>>

\* A message "res": the agent answers a request it got on this connection.
Answer(c, r) ==
    /\ conn[c] = "serving"
    /\ callWs[r] = c /\ phase[r] \in {"sending", "waiting"}
    /\ r \in pending[lvOf[c]]
    /\ pending' = [pending EXCEPT ![lvOf[c]] = @ \ {r}]
    /\ fut' = [fut EXCEPT ![r] = "result"]
    /\ UNCHANGED <<serverVars, live, made, ws, manage, acc, connVars, phase, callLv, callWs, outcome>>

\* `if lv.ws is ws` in the finally of the handler.
OwnsLive(c) == ws[lvOf[c]] = c

\* Mutant: the waiting requests are left to their time-outs.
M_FailPending(c) == UNCHANGED <<fut, pending>>

\* Every request waiting on the object fails with 503, and none is left.
FailPending(c) ==
    /\ fut' = [r \in Calls |-> IF r \in pending[lvOf[c]] THEN "error" ELSE fut[r]]
    /\ pending' = [pending EXCEPT ![lvOf[c]] = {}]

\* receive_text raises: the handler ends. If it is still the installed one it
\* clears lv.ws, fails the waiting requests and writes the last minute.
Leave(c) ==
    /\ conn[c] = "serving" /\ sock[c] # "open"
    /\ conn' = [conn EXCEPT ![c] = "done"]
    /\ IF OwnsLive(c)
       THEN LET flushes == live = lvOf[c] /\ row
            IN /\ ws' = [ws EXCEPT ![lvOf[c]] = None]
               /\ FailPending(c)
               /\ samples' = (samples \/ (flushes /\ acc[lvOf[c]]))
               /\ acc' = [acc EXCEPT ![lvOf[c]] = @ /\ ~flushes]
       ELSE UNCHANGED <<ws, fut, pending, samples, acc>>
    /\ UNCHANGED <<row, secret, token, issued, enrolling, deleting, alert, live, made, manage,
                   sock, lvOf, phase, callLv, callWs, outcome>>

\* The agent, the network or a proxy drops the connection.
PeerGone(c) ==
    /\ conn[c] \in {"replacing", "greeting", "serving"} /\ sock[c] = "open"
    /\ sock' = [sock EXCEPT ![c] = "lost"]
    /\ UNCHANGED <<serverVars, liveVars, conn, lvOf, callVars>>

-----------------------------------------------------------------------------
(***************************************************************************)
(* rpc.call.                                                               *)
(***************************************************************************)

\* Refused at once: not connected (503) or monitor-only (409).
CallRefused(r) ==
    /\ phase[r] = "idle"
    /\ ~(Connected /\ manage[live])
    /\ phase' = [phase EXCEPT ![r] = "ended"]
    /\ outcome' = [outcome EXCEPT ![r] = IF Connected THEN 409 ELSE 503]
    /\ UNCHANGED <<serverVars, liveVars, connVars, callLv, callWs, fut>>

\* Registered in lv.pending, then waits for the send lock and the socket.
CallStart(r) ==
    /\ phase[r] = "idle"
    /\ Connected /\ manage[live]
    /\ phase' = [phase EXCEPT ![r] = "sending"]
    /\ callLv' = [callLv EXCEPT ![r] = live]
    /\ callWs' = [callWs EXCEPT ![r] = ws[live]]
    /\ pending' = [pending EXCEPT ![live] = @ \cup {r}]
    /\ UNCHANGED <<serverVars, live, made, ws, manage, acc, connVars, fut, outcome>>

CallSent(r) ==
    /\ phase[r] = "sending" /\ sock[callWs[r]] \in {"open", "lost"}
    /\ phase' = [phase EXCEPT ![r] = "waiting"]
    /\ UNCHANGED <<serverVars, liveVars, connVars, callLv, callWs, fut, outcome>>

\* Mutant: the request stays in lv.pending when the call ends.
M_Ends(r, result) ==
    /\ phase' = [phase EXCEPT ![r] = "ended"]
    /\ outcome' = [outcome EXCEPT ![r] = result]
    /\ UNCHANGED pending

\* The call ends; its `finally` takes it out of lv.pending.
Ends(r, result) ==
    /\ phase' = [phase EXCEPT ![r] = "ended"]
    /\ outcome' = [outcome EXCEPT ![r] = result]
    /\ pending' = [pending EXCEPT ![callLv[r]] = @ \ {r}]

\* send_text raised: the socket closed under us.
CallSendFails(r) ==
    /\ phase[r] = "sending" /\ sock[callWs[r]] \in {"closed", "lost"}
    /\ Ends(r, 503)
    /\ UNCHANGED <<serverVars, live, made, ws, manage, acc, connVars, callLv, callWs, fut>>

\* The future is done: an answer (which may itself carry an error: 400) or
\* the handler's 503.
CallDone(r) ==
    /\ phase[r] = "waiting" /\ fut[r] # "none"
    /\ \E result \in IF fut[r] = "result" THEN {200, 400} ELSE {503} : Ends(r, result)
    /\ UNCHANGED <<serverVars, live, made, ws, manage, acc, connVars, callLv, callWs, fut>>

\* Mutant: the answer is awaited without a time-out.
M_CallTimeout(r) == FALSE /\ UNCHANGED linkVars

\* wait_for gives up.
CallTimeout(r) ==
    /\ phase[r] = "waiting" /\ fut[r] = "none"
    /\ Ends(r, 504)
    /\ UNCHANGED <<serverVars, live, made, ws, manage, acc, connVars, callLv, callWs, fut>>

-----------------------------------------------------------------------------
Panel == NewEnrollToken \/ Enroll \/ (\E s \in enrolling : EnrollAnswer(s))
           \/ DeleteOffline \/ DeleteServer \/ DeleteFinish

Handler(c) ==
    \/ \E s \in issued : Reject(c, s) \/ ConnectFree(c, s) \/ ConnectReplace(c, s)
    \/ Install(c) \/ Greeted(c) \/ GreetingFails(c)
    \/ \E flushes, alerting \in BOOLEAN : Ingest(c, flushes, alerting)
    \/ \E mode \in BOOLEAN : LinkHello(c, mode)
    \/ \E r \in Calls : Answer(c, r)
    \/ Leave(c) \/ PeerGone(c)

Call(r) ==
    \/ CallRefused(r) \/ CallStart(r) \/ CallSent(r) \/ CallSendFails(r)
    \/ CallDone(r) \/ CallTimeout(r)

LinkNext == Panel \/ (\E c \in Conns : Handler(c)) \/ (\E r \in Calls : Call(r))

LinkSpec == LinkInit /\ [][LinkNext]_linkVars

(***************************************************************************)
(* Fairness. asyncio resumes a coroutine whose await is over: a close or a *)
(* send ends (uvicorn's ping time-out fails it at the latest), a future    *)
(* that is done wakes its waiter, wait_for has a timer, and a handler is   *)
(* told of a closed socket. Nobody owes the hub a connection, a message,   *)
(* an answer or a click.                                                   *)
(***************************************************************************)
LinkFairness ==
    /\ WF_linkVars(DeleteFinish)
    /\ \A s \in 1 .. MaxSecrets : WF_linkVars(EnrollAnswer(s))
    /\ \A c \in Conns : /\ WF_linkVars(Install(c))
                        /\ WF_linkVars(Greeted(c) \/ GreetingFails(c))
                        /\ WF_linkVars(Leave(c))
    /\ \A r \in Calls : /\ WF_linkVars(CallSent(r) \/ CallSendFails(r))
                        /\ WF_linkVars(CallDone(r) \/ CallTimeout(r))

LinkFairSpec == LinkSpec /\ LinkFairness

-----------------------------------------------------------------------------
(***************************************************************************)
(* Properties.                                                             *)
(***************************************************************************)

\* The type of every variable.
LinkTypes ==
    /\ row \in BOOLEAN /\ secret \in 0 .. MaxSecrets /\ token \in BOOLEAN
    /\ issued \in SUBSET (1 .. MaxSecrets)
    /\ enrolling \in SUBSET (1 .. MaxSecrets) /\ deleting \in BOOLEAN
    /\ samples \in BOOLEAN /\ alert \in BOOLEAN
    /\ made \in 0 .. MaxLive
    /\ live \in {None} \cup 1 .. made
    /\ ws \in [Lives -> Conns \cup {None}]
    /\ manage \in [Lives -> BOOLEAN] /\ acc \in [Lives -> BOOLEAN]
    /\ pending \in [Lives -> SUBSET Calls]
    /\ conn \in [Conns -> {"idle", "replacing", "greeting", "serving", "done"}]
    /\ sock \in [Conns -> {"open", "closed", "lost"}]
    /\ lvOf \in [Conns -> Lives \cup {None}]
    /\ phase \in [Calls -> {"idle", "sending", "waiting", "ended"}]
    /\ callLv \in [Calls -> Lives \cup {None}]
    /\ callWs \in [Calls -> Conns \cup {None}]
    /\ fut \in [Calls -> {"none", "result", "error"}]
    /\ outcome \in [Calls -> {None, 200, 400, 409, 503, 504}]
    /\ \A c \in Conns : conn[c] \in {"replacing", "greeting", "serving"} => lvOf[c] \in Lives
    /\ \A r \in Calls : phase[r] \in {"sending", "waiting"} =>
          callLv[r] \in Lives /\ callWs[r] \in Conns

\* lv.pending holds exactly the requests somebody still waits for and nobody
\* has answered: none leaks when a call ends by time-out, by a failed send or
\* by a dropped connection, and none is taken out without waking its caller.
\* And nobody waits on a server without a connection, except while a newer
\* connection is taking over: a dropped connection fails its callers at once.
\* (With the types, which say where a suspended call or handler has its object.)
PendingIsWaiting ==
    /\ LinkTypes
    /\ \A l \in Lives, r \in Calls :
          r \in pending[l] <=> /\ phase[r] \in {"sending", "waiting"}
                               /\ callLv[r] = l /\ fut[r] = "none"
    /\ \A l \in Lives : pending[l] # {} /\ ws[l] = None =>
          \E c \in Conns : conn[c] = "replacing" /\ lvOf[c] = l

\* A deleted server stays unreachable: whatever reconnects race with the
\* deletion, no Live object is registered for it afterwards.
DeletedUnreachable == ~row => live = None

\* Every request ends: answered, refused, failed or timed out.
CallsEnd == \A r \in Calls : phase[r] = "sending" ~> phase[r] = "ended"

\* A server whose agent has disconnected is offline: unless it is being
\* deleted, a connection whose handler has ended is in no lv.ws, where it would
\* pass for a connected agent and be sent requests.
EndedIsOffline ==
    row /\ ~deleting => \A c \in Conns, l \in Lives : conn[c] = "done" => ws[l] # c

\* Deleting a server removes its history: no samples and no open event are
\* left behind under its id.
DeletedLeavesNothing == ~row => ~samples /\ ~alert
=============================================================================
