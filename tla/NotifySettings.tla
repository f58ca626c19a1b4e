---------------------------- MODULE NotifySettings ----------------------------
(***************************************************************************)
(* The settings of one notification channel of the hub, and the messages   *)
(* sent with them (hub/icsd_hub/notify.py). Telegram and Bale are two such *)
(* channels. A message is sent in the background by a task that has read   *)
(* the settings once, and goes out while they may be saved again. The bot  *)
(* token is part of the request, so that a host that gets a message gets   *)
(* the token. What a message says, and the chat it goes to, are left out.  *)
(***************************************************************************)
EXTENDS FiniteSets, Integers

CONSTANTS
    Tokens, NoToken,
    DefaultApi,      \* DEFAULTS["telegram_api"]
    Mirrors,         \* other addresses that begin with https://
    MaxSending       \* bound: messages under way

ASSUME NoTokenAssumption == NoToken \notin Tokens

\* What a form may hold for the address: nothing at all, an empty field, an
\* address, or one that does not begin with https://.
ApiFields == {"absent", "empty", "plain"} \cup {DefaultApi} \cup Mirrors

VARIABLES
    token, api, on,  \* the stored settings, where token may be NoToken
    sending,         \* the messages under way: [token, host]
    entered          \* history: for each token, the addresses it was entered for

notifySettings  == <<token, api, on>>
notifyHubVars   == <<notifySettings, sending, entered>>

NotifySettingsInit ==
    /\ token = NoToken /\ api = DefaultApi /\ on = FALSE
    /\ sending = {}
    /\ entered = [t \in Tokens |-> {}]

M_NeedsToken(newApi, newToken) == newApi # api /\ token # NoToken /\ newToken = NoToken /\ on

\* The first loop of save: another address needs the token again.
NeedsToken(newApi, newToken) == newApi # api /\ token # NoToken /\ newToken = NoToken

\* The address a field is compared as, and the one that is stored.
Compared(field) == IF field \in {"absent", "empty"} THEN api ELSE field
Stored(field) ==
    IF field = "absent" THEN api
    ELSE IF field \in {"empty", "plain"} THEN DefaultApi ELSE field

\* save; an empty token field keeps the stored token.
Save(field, newToken, newOn) ==
    /\ ~NeedsToken(Compared(field), newToken)
    /\ api' = Stored(field)
    /\ token' = IF newToken = NoToken THEN token ELSE newToken
    /\ on' = newOn
    /\ entered' = IF newToken = NoToken THEN entered ELSE [entered EXCEPT ![newToken] = @ \cup {api'}]
    /\ UNCHANGED sending

\* fire, or the test endpoint: send reads the settings and begins to post.
SendMessage ==
    /\ on /\ token # NoToken /\ Cardinality(sending) < MaxSending
    /\ sending' = sending \cup {[token |-> token, host |-> api]}
    /\ UNCHANGED <<notifySettings, entered>>

\* The post succeeds, fails or times out; or the hub is restarted.
MessageEnds(msg) ==
    /\ msg \in sending
    /\ sending' = sending \ {msg}
    /\ UNCHANGED <<notifySettings, entered>>

NotifySettingsNext ==
    \/ \E field \in ApiFields, newToken \in Tokens \cup {NoToken}, newOn \in BOOLEAN :
          Save(field, newToken, newOn)
    \/ SendMessage
    \/ \E msg \in sending : MessageEnds(msg)

NotifySettingsSpec == NotifySettingsInit /\ [][NotifySettingsNext]_notifyHubVars

-----------------------------------------------------------------------------
\* A bot token goes only to an address it was entered for, or to the default
\* one, whatever is saved between, and while a message is under way: the
\* stored token cannot be redirected by a form that leaves it out, and no
\* message mixes the token of one save with the address of another.
TokenStaysHome ==
    /\ token # NoToken => api \in entered[token] \cup {DefaultApi}
    /\ \A msg \in sending : msg.host \in entered[msg.token] \cup {DefaultApi}
=============================================================================
