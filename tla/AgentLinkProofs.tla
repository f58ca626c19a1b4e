--------------------------- MODULE AgentLinkProofs ---------------------------
(***************************************************************************)
(* Proofs about AgentLink, for any number of connections, requests, Live   *)
(* objects and secrets.                                                    *)
(*                                                                         *)
(* PendingIsWaiting is not inductive alone: CallStart registers a request  *)
(* whose future must still be open. LinkInv adds that.                     *)
(***************************************************************************)
EXTENDS AgentLink, TLAPS

\* The types, one group of variables at a time.
ServerTypes ==
    /\ row \in BOOLEAN /\ secret \in 0 .. MaxSecrets /\ token \in BOOLEAN
    /\ issued \in SUBSET (1 .. MaxSecrets)
    /\ enrolling \in SUBSET (1 .. MaxSecrets) /\ deleting \in BOOLEAN
    /\ samples \in BOOLEAN /\ alert \in BOOLEAN

LiveTypes ==
    /\ made \in 0 .. MaxLive
    /\ live \in {None} \cup 1 .. made
    /\ ws \in [Lives -> Conns \cup {None}]
    /\ manage \in [Lives -> BOOLEAN] /\ acc \in [Lives -> BOOLEAN]
    /\ pending \in [Lives -> SUBSET Calls]

ConnTypes ==
    /\ conn \in [Conns -> {"idle", "replacing", "greeting", "serving", "done"}]
    /\ sock \in [Conns -> {"open", "closed", "lost"}]
    /\ lvOf \in [Conns -> Lives \cup {None}]
    /\ \A c \in Conns : conn[c] \in {"replacing", "greeting", "serving"} => lvOf[c] \in Lives

CallTypes ==
    /\ phase \in [Calls -> {"idle", "sending", "waiting", "ended"}]
    /\ callLv \in [Calls -> Lives \cup {None}]
    /\ callWs \in [Calls -> Conns \cup {None}]
    /\ fut \in [Calls -> {"none", "result", "error"}]
    /\ outcome \in [Calls -> {None, 200, 400, 409, 503, 504}]
    /\ \A r \in Calls : phase[r] \in {"sending", "waiting"} =>
          callLv[r] \in Lives /\ callWs[r] \in Conns

LEMMA TypesSplit == LinkTypes <=> ServerTypes /\ LiveTypes /\ ConnTypes /\ CallTypes
  BY DEF LinkTypes, ServerTypes, LiveTypes, ConnTypes, CallTypes

\* The requests in lv.pending are the open ones.
PendingExact ==
    \A l \in Lives, r \in Calls :
       r \in pending[l] <=> /\ phase[r] \in {"sending", "waiting"}
                            /\ callLv[r] = l /\ fut[r] = "none"

\* Somebody serves, or is about to serve, an object requests wait on.
PendingServed ==
    \A l \in Lives : pending[l] # {} /\ ws[l] = None =>
       \E c \in Conns : conn[c] = "replacing" /\ lvOf[c] = l

\* A request that has not begun has an open future.
FreshFutures == \A r \in Calls : phase[r] = "idle" => fut[r] = "none"

\* The inductive invariant.
LinkInv ==
    /\ ServerTypes /\ LiveTypes /\ ConnTypes /\ CallTypes
    /\ PendingExact /\ PendingServed /\ FreshFutures
    /\ DeletedUnreachable

LEMMA InvImplies == LinkInv => PendingIsWaiting /\ DeletedUnreachable
  BY TypesSplit DEF LinkInv, PendingIsWaiting, PendingExact, PendingServed

-----------------------------------------------------------------------------
LEMMA LinkInitial == LinkInit => LinkInv
<1> SUFFICES ASSUME LinkInit PROVE LinkInv
  OBVIOUS
<1> USE LinkAssumption
<1>1. ServerTypes
  <2>1. secret \in 0 .. MaxSecrets
    BY DEF LinkInit
  <2> QED BY <2>1 DEF LinkInit, ServerTypes
<1>a. LiveTypes
  BY DEF LinkInit, LiveTypes
<1>2. ConnTypes /\ CallTypes
  BY DEF LinkInit, ConnTypes, CallTypes
<1>3. PendingExact /\ PendingServed /\ FreshFutures /\ DeletedUnreachable
  BY DEF LinkInit, PendingExact, PendingServed, FreshFutures, DeletedUnreachable
<1> QED BY <1>1, <1>a, <1>2, <1>3 DEF LinkInv

\* The registered object is one of the objects.
LEMMA LiveIsOne == ASSUME LiveTypes, live # None PROVE live \in Lives
  BY LinkAssumption DEF LiveTypes, Lives

\* Only these three variables decide who is waited for.
LEMMA PendingFrame ==
  ASSUME LinkInv, UNCHANGED <<pending, fut, callLv, phase>>
  PROVE  PendingExact' /\ FreshFutures'
  BY DEF LinkInv, PendingExact, FreshFutures

LEMMA ServedFrame ==
  ASSUME LinkInv, UNCHANGED <<ws, lvOf, conn>>,
         \A l \in Lives : pending'[l] \subseteq pending[l]
  PROVE  PendingServed'
  BY DEF LinkInv, PendingServed

-----------------------------------------------------------------------------
(***************************************************************************)
(* One lemma for each part: the panel, the handlers, the calls.            *)
(***************************************************************************)
LEMMA PanelStep ==
  ASSUME LinkInv, Panel
  PROVE  LinkInv'
<1> USE LinkAssumption
<1>1. UNCHANGED <<made, ws, manage, acc, pending, conn, lvOf, callVars>> /\ live' \in {live, None}
  BY DEF Panel, NewEnrollToken, Enroll, EnrollAnswer, DeleteOffline, DeleteServer, DeleteFinish,
         Erase, liveVars, connVars
<1>2. LiveTypes' /\ CallTypes'
  BY <1>1 DEF LinkInv, LiveTypes, CallTypes, callVars
<1>3. PendingExact' /\ FreshFutures'
  BY <1>1, PendingFrame DEF callVars
<1>4. PendingServed'
  BY <1>1, ServedFrame
<1>5. sock' \in [Conns -> {"open", "closed", "lost"}]
  <2>1. UNCHANGED sock \/ CloseInstalled
    BY DEF Panel, NewEnrollToken, Enroll, EnrollAnswer, DeleteOffline, DeleteServer,
           DeleteFinish, connVars
  <2> QED BY <2>1 DEF CloseInstalled, LinkInv, ConnTypes
<1>6. ConnTypes'
  BY <1>1, <1>5 DEF LinkInv, ConnTypes
<1>7. ServerTypes' /\ DeletedUnreachable'
  <2>1. CASE NewEnrollToken
    BY <2>1 DEF NewEnrollToken, LinkInv, ServerTypes, DeletedUnreachable, liveVars
  <2>2. CASE Enroll
    <3>1. secret + 1 \in 1 .. MaxSecrets
      BY <2>2 DEF Enroll, LinkInv, ServerTypes
    <3>2. secret' \in 0 .. MaxSecrets
      BY <2>2, <3>1 DEF Enroll
    <3>3. issued' \in SUBSET (1 .. MaxSecrets) /\ enrolling' \in SUBSET (1 .. MaxSecrets)
      BY <2>2, <3>1 DEF Enroll, LinkInv, ServerTypes
    <3>4. UNCHANGED <<row, deleting, samples, alert, live>> /\ token' = FALSE
      BY <2>2 DEF Enroll, liveVars
    <3> QED BY <3>2, <3>3, <3>4 DEF LinkInv, ServerTypes, DeletedUnreachable
  <2>3. CASE \E s \in enrolling : EnrollAnswer(s)
    BY <2>3 DEF EnrollAnswer, LinkInv, ServerTypes, DeletedUnreachable, liveVars
  <2>4. CASE DeleteOffline \/ DeleteFinish
    BY <2>4 DEF DeleteOffline, DeleteFinish, Erase, LinkInv, ServerTypes, DeletedUnreachable
  <2>5. CASE DeleteServer
    BY <2>5 DEF DeleteServer, LinkInv, ServerTypes, DeletedUnreachable, liveVars
  <2> QED BY <2>1, <2>2, <2>3, <2>4, <2>5 DEF Panel
<1> QED BY <1>2, <1>3, <1>4, <1>6, <1>7 DEF LinkInv

\* live.get registers an object only for a server that is still there.
LEMMA GetLiveStep ==
  ASSUME LinkInv, GetLive
  PROVE  /\ Got \in Lives /\ live' = Got
         /\ made' \in 0 .. MaxLive /\ live' \in {None} \cup 1 .. made'
<1> USE LinkAssumption
<1>1. CASE live = None
  BY <1>1 DEF GetLive, Got, Lives, LinkInv, LiveTypes
<1>2. CASE live # None
  BY <1>2, LiveIsOne DEF GetLive, Got, Lives, LinkInv, LiveTypes
<1> QED BY <1>1, <1>2

LEMMA ConnectStep ==
  ASSUME LinkInv, NEW c \in Conns, NEW s \in issued,
         ConnectFree(c, s) \/ ConnectReplace(c, s)
  PROVE  LinkInv'
<1> USE LinkAssumption
<1>1. GetLive /\ row /\ conn[c] = "idle" /\ UNCHANGED <<serverVars, manage, acc, pending, callVars>>
  BY DEF ConnectFree, ConnectReplace, Authenticated
<1>2. /\ Got \in Lives /\ live' = Got
      /\ made' \in 0 .. MaxLive /\ live' \in {None} \cup 1 .. made'
  BY <1>1, GetLiveStep
<1>3. /\ ServerTypes' /\ CallTypes' /\ DeletedUnreachable'
  BY <1>1 DEF LinkInv, ServerTypes, CallTypes, DeletedUnreachable, serverVars, callVars
<1>4. PendingExact' /\ FreshFutures'
  BY <1>1, PendingFrame DEF callVars
<1>5. LiveTypes' /\ ConnTypes' /\ PendingServed'
  <2>1. CASE ConnectFree(c, s)
    <3>1. LiveTypes'
      BY <1>1, <1>2, <2>1 DEF ConnectFree, LinkInv, LiveTypes
    <3>2. ConnTypes'
      BY <1>2, <2>1 DEF ConnectFree, LinkInv, ConnTypes
    <3>3. PendingServed'
      <4> SUFFICES ASSUME NEW l \in Lives, pending'[l] # {}, ws'[l] = None
                   PROVE  \E d \in Conns : conn'[d] = "replacing" /\ lvOf'[d] = l
        BY DEF PendingServed
      <4>1. ws[l] = None /\ pending[l] # {}
        BY <1>1, <1>2, <2>1 DEF ConnectFree, LinkInv, LiveTypes
      <4>2. PICK d \in Conns : conn[d] = "replacing" /\ lvOf[d] = l
        BY <4>1 DEF LinkInv, PendingServed
      <4>3. d # c
        BY <1>1, <4>2
      <4> QED BY <2>1, <4>2, <4>3 DEF ConnectFree, LinkInv, ConnTypes
    <3> QED BY <3>1, <3>2, <3>3
  <2>2. CASE ConnectReplace(c, s)
    <3>1. LiveTypes'
      BY <1>1, <1>2, <2>2 DEF ConnectReplace, LinkInv, LiveTypes
    <3>2. ws[Got] \in Conns
      BY <1>2, <2>2 DEF ConnectReplace, LinkInv, LiveTypes
    <3>3. ConnTypes'
      BY <1>2, <2>2, <3>2 DEF ConnectReplace, LinkInv, ConnTypes
    <3>4. PendingServed'
      <4> SUFFICES ASSUME NEW l \in Lives, pending'[l] # {}, ws'[l] = None
                   PROVE  \E d \in Conns : conn'[d] = "replacing" /\ lvOf'[d] = l
        BY DEF PendingServed
      <4>1. CASE l = Got
        BY <2>2, <4>1 DEF ConnectReplace, LinkInv, ConnTypes
      <4>2. CASE l # Got
        <5>1. ws[l] = None /\ pending[l] # {}
          BY <1>1, <2>2, <4>2 DEF ConnectReplace, LinkInv, LiveTypes
        <5>2. PICK d \in Conns : conn[d] = "replacing" /\ lvOf[d] = l
          BY <5>1 DEF LinkInv, PendingServed
        <5> QED BY <1>1, <2>2, <5>2 DEF ConnectReplace, LinkInv, ConnTypes
      <4> QED BY <4>1, <4>2
    <3> QED BY <3>1, <3>3, <3>4
  <2> QED BY <2>1, <2>2
<1> QED BY <1>3, <1>4, <1>5 DEF LinkInv

\* The handler that waited for the old socket takes the object over.
LEMMA InstallStep ==
  ASSUME LinkInv, NEW c \in Conns, Install(c)
  PROVE  LinkInv'
<1> USE LinkAssumption
<1>1. lvOf[c] \in Lives /\ UNCHANGED <<serverVars, live, made, manage, acc, pending, sock, lvOf, callVars>>
  BY DEF Install, LinkInv, ConnTypes
<1>2. ServerTypes' /\ CallTypes' /\ DeletedUnreachable'
  BY <1>1 DEF LinkInv, ServerTypes, CallTypes, DeletedUnreachable, serverVars, callVars
<1>3. PendingExact' /\ FreshFutures'
  BY <1>1, PendingFrame DEF callVars
<1>4. LiveTypes' /\ ConnTypes'
  BY <1>1 DEF Install, LinkInv, LiveTypes, ConnTypes
<1>5. PendingServed'
  <2> SUFFICES ASSUME NEW l \in Lives, pending'[l] # {}, ws'[l] = None
               PROVE  \E d \in Conns : conn'[d] = "replacing" /\ lvOf'[d] = l
    BY DEF PendingServed
  <2>1. l # lvOf[c] /\ ws[l] = None /\ pending[l] # {}
    BY <1>1 DEF Install, LinkInv, LiveTypes
  <2>2. PICK d \in Conns : conn[d] = "replacing" /\ lvOf[d] = l
    BY <2>1 DEF LinkInv, PendingServed
  <2> QED BY <1>1, <2>1, <2>2 DEF Install, LinkInv, ConnTypes
<1> QED BY <1>2, <1>3, <1>4, <1>5 DEF LinkInv

\* What a handler does that touches neither lv.ws nor the requests.
LEMMA QuietHandlerStep ==
  ASSUME LinkInv, NEW c \in Conns,
         \/ \E s \in issued : Reject(c, s)
         \/ Greeted(c) \/ GreetingFails(c) \/ PeerGone(c)
         \/ \E flushes, alerting \in BOOLEAN : Ingest(c, flushes, alerting)
         \/ \E mode \in BOOLEAN : LinkHello(c, mode)
  PROVE  LinkInv'
<1>1. UNCHANGED <<row, secret, token, issued, enrolling, deleting, live, made, ws, pending, lvOf, callVars>>
  BY DEF Reject, Greeted, GreetingFails, PeerGone, Ingest, LinkHello, serverVars, liveVars, connVars
<1>2. \/ UNCHANGED conn
      \/ conn[c] \in {"idle", "greeting"} /\ conn' = [conn EXCEPT ![c] = "done"]
      \/ conn[c] = "greeting" /\ conn' = [conn EXCEPT ![c] = "serving"]
  BY DEF Reject, Greeted, GreetingFails, PeerGone, Ingest, LinkHello, connVars
<1>3. samples' \in BOOLEAN /\ alert' \in BOOLEAN
  BY DEF Reject, Greeted, GreetingFails, PeerGone, Ingest, LinkHello, serverVars, LinkInv, ServerTypes
<1>4. ServerTypes' /\ CallTypes' /\ DeletedUnreachable'
  BY <1>1, <1>3 DEF LinkInv, ServerTypes, CallTypes, DeletedUnreachable, callVars
<1>5. manage' \in [Lives -> BOOLEAN] /\ acc' \in [Lives -> BOOLEAN]
  BY DEF Reject, Greeted, GreetingFails, PeerGone, Ingest, LinkHello, liveVars, LinkInv, LiveTypes
<1>6. LiveTypes'
  BY <1>1, <1>5 DEF LinkInv, LiveTypes
<1>7. sock' \in [Conns -> {"open", "closed", "lost"}]
  BY DEF Reject, Greeted, GreetingFails, PeerGone, Ingest, LinkHello, connVars, LinkInv, ConnTypes
<1>8. ConnTypes'
  BY <1>1, <1>2, <1>7 DEF LinkInv, ConnTypes
<1>9. PendingExact' /\ FreshFutures'
  BY <1>1, PendingFrame DEF callVars
<1>10. PendingServed'
  BY <1>1, <1>2 DEF LinkInv, PendingServed, ConnTypes
<1> QED BY <1>4, <1>6, <1>8, <1>9, <1>10 DEF LinkInv

\* An answer wakes its caller and takes the request out.
LEMMA AnswerStep ==
  ASSUME LinkInv, NEW c \in Conns, NEW r \in Calls, Answer(c, r)
  PROVE  LinkInv'
<1>1. /\ UNCHANGED <<serverVars, live, made, ws, manage, acc, connVars, phase, callLv, callWs, outcome>>
      /\ lvOf[c] \in Lives
  BY DEF Answer, LinkInv, ConnTypes
<1>2. ServerTypes' /\ ConnTypes' /\ DeletedUnreachable'
  BY <1>1 DEF LinkInv, ServerTypes, ConnTypes, DeletedUnreachable, serverVars, connVars
<1>3. LiveTypes' /\ CallTypes'
  BY <1>1 DEF Answer, LinkInv, LiveTypes, CallTypes
<1>4. \A l \in Lives : pending'[l] = IF l = lvOf[c] THEN pending[l] \ {r} ELSE pending[l]
  BY <1>1 DEF Answer, LinkInv, LiveTypes
<1>5. \A q \in Calls : fut'[q] = IF q = r THEN "result" ELSE fut[q]
  BY DEF Answer, LinkInv, CallTypes
<1>6. callLv[r] = lvOf[c] /\ phase[r] # "idle"
  BY <1>1 DEF Answer, LinkInv, PendingExact
<1>7. PendingExact' /\ FreshFutures'
  <2>1. ASSUME NEW l \in Lives, NEW q \in Calls
        PROVE  q \in pending'[l] <=> /\ phase'[q] \in {"sending", "waiting"}
                                     /\ callLv'[q] = l /\ fut'[q] = "none"
    <3>1. q \in pending[l] <=> /\ phase[q] \in {"sending", "waiting"}
                                /\ callLv[q] = l /\ fut[q] = "none"
      BY DEF LinkInv, PendingExact
    <3>2. CASE q = r
      BY <3>1, <3>2, <1>1, <1>4, <1>5, <1>6
    <3>3. CASE q # r
      BY <3>1, <3>3, <1>1, <1>4, <1>5, <1>6
    <3> QED BY <3>2, <3>3
  <2>2. FreshFutures'
    BY <1>1, <1>4, <1>5, <1>6 DEF LinkInv, FreshFutures
  <2> QED BY <2>1, <2>2 DEF PendingExact
<1>8. PendingServed'
  BY <1>1, <1>4, ServedFrame DEF connVars
<1> QED BY <1>2, <1>3, <1>7, <1>8 DEF LinkInv

\* The end of a handler: every request on its object fails, or it is not the
\* installed one and leaves everything to the one that is.
LEMMA LeaveStep ==
  ASSUME LinkInv, NEW c \in Conns, Leave(c)
  PROVE  LinkInv'
<1> USE LinkAssumption
<1>1. /\ UNCHANGED <<row, secret, token, issued, enrolling, deleting, alert, live, made, manage,
                     sock, lvOf, phase, callLv, callWs, outcome>>
      /\ lvOf[c] \in Lives
      /\ conn[c] = "serving" /\ conn' = [conn EXCEPT ![c] = "done"]
  BY DEF Leave, LinkInv, ConnTypes
<1>2. ConnTypes' /\ DeletedUnreachable'
  BY <1>1 DEF LinkInv, ConnTypes, DeletedUnreachable
<1>3. samples' \in BOOLEAN
  BY DEF Leave, LinkInv, ServerTypes
<1>4. ServerTypes'
  BY <1>1, <1>3 DEF LinkInv, ServerTypes
<1>5. acc' \in [Lives -> BOOLEAN]
  BY DEF Leave, LinkInv, LiveTypes
<1>6. CASE OwnsLive(c)
  <2>1. /\ ws' = [ws EXCEPT ![lvOf[c]] = None]
        /\ fut' = [r \in Calls |-> IF r \in pending[lvOf[c]] THEN "error" ELSE fut[r]]
        /\ pending' = [pending EXCEPT ![lvOf[c]] = {}]
    BY <1>6 DEF Leave, FailPending
  <2>2. LiveTypes' /\ CallTypes'
    BY <1>1, <1>5, <2>1 DEF LinkInv, LiveTypes, CallTypes
  <2>3. \A l \in Lives : pending'[l] = IF l = lvOf[c] THEN {} ELSE pending[l]
    BY <2>1 DEF LinkInv, LiveTypes
  <2>4. PendingExact' /\ FreshFutures'
    BY <1>1, <2>1, <2>3 DEF LinkInv, PendingExact, FreshFutures
  <2>5. PendingServed'
    <3> SUFFICES ASSUME NEW l \in Lives, pending'[l] # {}, ws'[l] = None
                 PROVE  \E d \in Conns : conn'[d] = "replacing" /\ lvOf'[d] = l
      BY DEF PendingServed
    <3>1. l # lvOf[c] /\ ws[l] = None /\ pending[l] # {}
      BY <2>1, <2>3 DEF LinkInv, LiveTypes
    <3>2. PICK d \in Conns : conn[d] = "replacing" /\ lvOf[d] = l
      BY <3>1 DEF LinkInv, PendingServed
    <3> QED BY <1>1, <3>2 DEF LinkInv, ConnTypes
  <2> QED BY <1>2, <1>4, <2>2, <2>4, <2>5 DEF LinkInv
<1>7. CASE ~OwnsLive(c)
  <2>1. UNCHANGED <<ws, fut, pending, acc>>
    BY <1>7 DEF Leave
  <2>2. LiveTypes' /\ CallTypes'
    BY <1>1, <2>1 DEF LinkInv, LiveTypes, CallTypes
  <2>3. PendingExact' /\ FreshFutures'
    BY <1>1, <2>1, PendingFrame
  <2>4. PendingServed'
    BY <1>1, <2>1 DEF LinkInv, PendingServed, ConnTypes
  <2> QED BY <1>2, <1>4, <2>2, <2>3, <2>4 DEF LinkInv
<1> QED BY <1>6, <1>7

LEMMA HandlerStep ==
  ASSUME LinkInv, NEW c \in Conns, Handler(c)
  PROVE  LinkInv'
  BY ConnectStep, InstallStep, QuietHandlerStep, AnswerStep, LeaveStep DEF Handler

-----------------------------------------------------------------------------
\* What the end of a call leaves alone.
EndsFrame == UNCHANGED <<serverVars, live, made, ws, manage, acc, connVars, callLv, callWs, fut>>

\* A call that ends was waiting on the object it takes its request out of.
LEMMA EndsStep ==
  ASSUME LinkInv, NEW r \in Calls, NEW result \in {200, 400, 503, 504},
         phase[r] \in {"sending", "waiting"}, Ends(r, result), EndsFrame
  PROVE  LinkInv'
<1>1. callLv[r] \in Lives
  BY DEF LinkInv, CallTypes
<1>2. ServerTypes' /\ ConnTypes' /\ DeletedUnreachable'
  BY DEF EndsFrame, LinkInv, ServerTypes, ConnTypes, DeletedUnreachable, serverVars, connVars
<1>3. LiveTypes' /\ CallTypes'
  BY <1>1 DEF EndsFrame, Ends, LinkInv, LiveTypes, CallTypes
<1>4. \A l \in Lives : pending'[l] = IF l = callLv[r] THEN pending[l] \ {r} ELSE pending[l]
  BY <1>1 DEF Ends, LinkInv, LiveTypes
<1>5. \A q \in Calls : phase'[q] = IF q = r THEN "ended" ELSE phase[q]
  BY DEF Ends, LinkInv, CallTypes
<1>0. UNCHANGED <<callLv, fut, ws, conn, lvOf>>
  BY DEF EndsFrame, connVars
<1>6. PendingExact' /\ FreshFutures'
  <2>1. ASSUME NEW l \in Lives, NEW q \in Calls
        PROVE  q \in pending'[l] <=> /\ phase'[q] \in {"sending", "waiting"}
                                     /\ callLv'[q] = l /\ fut'[q] = "none"
    <3>1. q \in pending[l] <=> /\ phase[q] \in {"sending", "waiting"}
                                /\ callLv[q] = l /\ fut[q] = "none"
      BY DEF LinkInv, PendingExact
    <3>2. pending'[l] = IF l = callLv[r] THEN pending[l] \ {r} ELSE pending[l]
      BY <1>4
    <3>3. CASE q = r
      BY <3>1, <3>2, <3>3, <1>0, <1>5
    <3>4. CASE q # r
      BY <3>1, <3>2, <3>4, <1>0, <1>5
    <3> QED BY <3>3, <3>4
  <2>2. FreshFutures'
    BY <1>0, <1>5 DEF LinkInv, FreshFutures
  <2> QED BY <2>1, <2>2 DEF PendingExact
<1>7. PendingServed'
  <2>1. ASSUME NEW l \in Lives PROVE pending'[l] \subseteq pending[l]
    <3>1. pending'[l] = IF l = callLv[r] THEN pending[l] \ {r} ELSE pending[l]
      BY <1>4
    <3> QED BY <3>1
  <2> QED BY <1>0, <2>1, ServedFrame
<1> QED BY <1>2, <1>3, <1>6, <1>7 DEF LinkInv

LEMMA CallStep ==
  ASSUME LinkInv, NEW r \in Calls, Call(r)
  PROVE  LinkInv'
<1> USE LinkAssumption
<1>1. CASE CallRefused(r)
  <2>1. UNCHANGED <<serverVars, liveVars, connVars, callLv, callWs, fut>>
        /\ phase[r] = "idle" /\ phase' = [phase EXCEPT ![r] = "ended"]
    BY <1>1 DEF CallRefused
  <2>2. ServerTypes' /\ ConnTypes' /\ LiveTypes' /\ DeletedUnreachable'
    BY <2>1 DEF LinkInv, ServerTypes, ConnTypes, LiveTypes, DeletedUnreachable, serverVars, connVars, liveVars
  <2>3. CallTypes'
    BY <1>1, <2>1 DEF CallRefused, LinkInv, CallTypes
  <2>4. PendingExact' /\ FreshFutures'
    BY <2>1 DEF LinkInv, PendingExact, FreshFutures, CallTypes, liveVars
  <2>5. PendingServed'
    BY <2>1, ServedFrame DEF liveVars, connVars
  <2> QED BY <2>2, <2>3, <2>4, <2>5 DEF LinkInv
<1>2. CASE CallStart(r)
  <2>1. UNCHANGED <<serverVars, live, made, ws, manage, acc, connVars, fut, outcome>>
        /\ phase[r] = "idle" /\ fut[r] = "none"
        /\ live \in Lives /\ ws[live] \in Conns
    BY <1>2, LiveIsOne DEF CallStart, Connected, LinkInv, FreshFutures, LiveTypes
  <2>2. ServerTypes' /\ ConnTypes' /\ DeletedUnreachable'
    BY <2>1 DEF LinkInv, ServerTypes, ConnTypes, DeletedUnreachable, serverVars, connVars
  <2>3. LiveTypes' /\ CallTypes'
    BY <1>2, <2>1 DEF CallStart, LinkInv, LiveTypes, CallTypes
  <2>4. \A l \in Lives : pending'[l] = IF l = live THEN pending[l] \cup {r} ELSE pending[l]
    BY <1>2, <2>1 DEF CallStart, LinkInv, LiveTypes
  <2>5. \A q \in Calls : /\ phase'[q] = IF q = r THEN "sending" ELSE phase[q]
                         /\ callLv'[q] = IF q = r THEN live ELSE callLv[q]
    BY <1>2 DEF CallStart, LinkInv, CallTypes
  <2>6. PendingExact' /\ FreshFutures'
    <3>1. ASSUME NEW l \in Lives, NEW q \in Calls
          PROVE  q \in pending'[l] <=> /\ phase'[q] \in {"sending", "waiting"}
                                       /\ callLv'[q] = l /\ fut'[q] = "none"
      <4>1. q \in pending[l] <=> /\ phase[q] \in {"sending", "waiting"}
                                  /\ callLv[q] = l /\ fut[q] = "none"
        BY DEF LinkInv, PendingExact
      <4>2. CASE q = r
        BY <4>1, <4>2, <2>1, <2>4, <2>5
      <4>3. CASE q # r
        BY <4>1, <4>3, <2>1, <2>4, <2>5
      <4> QED BY <4>2, <4>3
    <3>2. FreshFutures'
      BY <2>1, <2>4, <2>5 DEF LinkInv, FreshFutures
    <3> QED BY <3>1, <3>2 DEF PendingExact
  <2>7. PendingServed'
    BY <2>1, <2>4 DEF LinkInv, PendingServed, connVars
  <2> QED BY <2>2, <2>3, <2>6, <2>7 DEF LinkInv
<1>3. CASE CallSent(r)
  <2>1. UNCHANGED <<serverVars, liveVars, connVars, callLv, callWs, fut, outcome>>
        /\ phase[r] = "sending" /\ phase' = [phase EXCEPT ![r] = "waiting"]
    BY <1>3 DEF CallSent
  <2>2. ServerTypes' /\ ConnTypes' /\ LiveTypes' /\ DeletedUnreachable'
    BY <2>1 DEF LinkInv, ServerTypes, ConnTypes, LiveTypes, DeletedUnreachable, serverVars, connVars, liveVars
  <2>3. CallTypes'
    BY <2>1 DEF LinkInv, CallTypes
  <2>4. PendingExact' /\ FreshFutures'
    BY <2>1 DEF LinkInv, PendingExact, FreshFutures, CallTypes, liveVars
  <2>5. PendingServed'
    BY <2>1, ServedFrame DEF liveVars, connVars
  <2> QED BY <2>2, <2>3, <2>4, <2>5 DEF LinkInv
<1>4. CASE CallSendFails(r)
  BY <1>4, EndsStep DEF CallSendFails, EndsFrame
<1>5. CASE CallDone(r)
  BY <1>5, EndsStep DEF CallDone, EndsFrame
<1>6. CASE CallTimeout(r)
  BY <1>6, EndsStep DEF CallTimeout, EndsFrame
<1> QED BY <1>1, <1>2, <1>3, <1>4, <1>5, <1>6 DEF Call

-----------------------------------------------------------------------------
LEMMA LinkInductive ==
  ASSUME LinkInv, [LinkNext]_linkVars
  PROVE  LinkInv'
<1>1. CASE UNCHANGED linkVars
  BY <1>1 DEF linkVars, serverVars, liveVars, connVars, callVars, LinkInv, ServerTypes, LiveTypes,
              ConnTypes, CallTypes, PendingExact, PendingServed, FreshFutures, DeletedUnreachable
<1> QED BY <1>1, PanelStep, HandlerStep, CallStep DEF LinkNext

\* Whatever connects, drops, is deleted or times out in whatever order:
\* lv.pending holds exactly the requests somebody waits for and nobody has
\* answered, and a request waits on an object without a socket only while a
\* newer connection is taking it over (agent_ws, rpc.call).
THEOREM PendingExactly == LinkSpec => []PendingIsWaiting
<1>1. LinkInit => LinkInv
  BY LinkInitial
<1>2. LinkInv /\ [LinkNext]_linkVars => LinkInv'
  BY LinkInductive
<1> QED BY <1>1, <1>2, InvImplies, PTL DEF LinkSpec

\* Once the row of a server is gone, no Live object is ever registered for
\* it: a connection that races with delete_server is refused or finds the
\* object already forgotten (delete_server, agent_ws, live.get).
THEOREM DeletionHolds == LinkSpec => []DeletedUnreachable
<1>1. LinkInit => LinkInv
  BY LinkInitial
<1>2. LinkInv /\ [LinkNext]_linkVars => LinkInv'
  BY LinkInductive
<1> QED BY <1>1, <1>2, InvImplies, PTL DEF LinkSpec

\* A future that is done keeps its value; a call that has ended keeps its outcome.
FinalStep ==
    \A r \in Calls : /\ fut[r] # "none" => fut'[r] = fut[r]
                     /\ phase[r] = "ended" => phase'[r] = "ended" /\ outcome'[r] = outcome[r]

LEMMA FinalSteps == LinkInv /\ [LinkNext]_linkVars => FinalStep
<1> SUFFICES ASSUME LinkInv, [LinkNext]_linkVars, NEW r \in Calls
             PROVE  /\ fut[r] # "none" => fut'[r] = fut[r]
                    /\ phase[r] = "ended" => phase'[r] = "ended" /\ outcome'[r] = outcome[r]
  BY DEF FinalStep
<1>1. CASE UNCHANGED linkVars
  BY <1>1 DEF linkVars, callVars
<1>2. CASE Panel
  <2>1. UNCHANGED callVars
    BY <1>2 DEF Panel, NewEnrollToken, Enroll, EnrollAnswer, DeleteOffline, DeleteServer, DeleteFinish
  <2> QED BY <2>1 DEF callVars
<1>3. ASSUME NEW c \in Conns, Handler(c)
      PROVE  /\ fut[r] # "none" => fut'[r] = fut[r]
             /\ UNCHANGED <<phase, outcome>>
  <2>1. CASE \E q \in Calls : Answer(c, q)
    <3>1. PICK q \in Calls : Answer(c, q)
      BY <2>1
    <3>2. lvOf[c] \in Lives /\ q \in pending[lvOf[c]]
      BY <3>1 DEF Answer, LinkInv, ConnTypes
    <3>3. fut[q] = "none"
      BY <3>2 DEF LinkInv, PendingExact
    <3> QED BY <3>1, <3>3 DEF Answer, LinkInv, CallTypes
  <2>2. CASE Leave(c)
    <3>1. lvOf[c] \in Lives /\ UNCHANGED <<phase, outcome>>
      BY <2>2 DEF Leave, LinkInv, ConnTypes
    <3>2. r \in pending[lvOf[c]] => fut[r] = "none"
      BY <3>1 DEF LinkInv, PendingExact
    <3> QED BY <2>2, <3>1, <3>2 DEF Leave, FailPending
  <2>3. CASE \/ \E s \in issued : Reject(c, s) \/ ConnectFree(c, s) \/ ConnectReplace(c, s)
             \/ Install(c) \/ Greeted(c) \/ GreetingFails(c) \/ PeerGone(c)
             \/ \E flushes, alerting \in BOOLEAN : Ingest(c, flushes, alerting)
             \/ \E mode \in BOOLEAN : LinkHello(c, mode)
    <3>1. UNCHANGED callVars
      BY <2>3 DEF Reject, ConnectFree, ConnectReplace, Install, Greeted, GreetingFails, PeerGone,
                  Ingest, LinkHello
    <3> QED BY <3>1 DEF callVars
  <2> QED BY <1>3, <2>1, <2>2, <2>3 DEF Handler
<1>4. ASSUME NEW q \in Calls, Call(q)
      PROVE  /\ UNCHANGED fut
             /\ phase[r] = "ended" => phase'[r] = "ended" /\ outcome'[r] = outcome[r]
  <2>1. UNCHANGED fut /\ phase[q] # "ended"
    BY <1>4 DEF Call, CallRefused, CallStart, CallSent, CallSendFails, CallDone, CallTimeout
  <2>2. CASE r = q
    BY <2>1, <2>2
  <2>3. CASE r # q
    BY <1>4, <2>1, <2>3 DEF Call, CallRefused, CallStart, CallSent, CallSendFails, CallDone,
                            CallTimeout, Ends, LinkInv, CallTypes
  <2> QED BY <2>1, <2>2, <2>3
<1> QED BY <1>1, <1>2, <1>3, <1>4 DEF LinkNext

\* An answer is delivered once: a late answer, a time-out or a dropped
\* connection never changes a future that is done, and a call that has ended
\* keeps its outcome (rpc.call, agent_ws).
THEOREM AnswersAreFinal == LinkSpec => [][FinalStep]_linkVars
<1>1. LinkInit => LinkInv
  BY LinkInitial
<1>2. LinkInv /\ [LinkNext]_linkVars => LinkInv'
  BY LinkInductive
<1>3. LinkInv /\ [LinkNext]_linkVars => [FinalStep]_linkVars
  BY FinalSteps
<1> QED BY <1>1, <1>2, <1>3, PTL DEF LinkSpec
=============================================================================
