-------------------------------- MODULE V1Mail --------------------------------
(***************************************************************************)
(* Mail of panel version 1 (services/email.py): domains, mailboxes and     *)
(* aliases, and the DKIM key of a domain, whose private half is written to *)
(* a file per selector and whose public half is kept as a setting, from    *)
(* which the DNS record is made. The maps of generate_postfix_maps are     *)
(* computed from the tables when they are asked for.                       *)
(***************************************************************************)
EXTENDS V1

CONSTANTS
    MailDomains,
    Selectors,
    MaxKey        \* bound: key pairs generated

VARIABLES
    mailDomain,   \* mail_domains
    mailbox,      \* the domains that have a mailbox (one each is enough)
    alias,        \* the domains that have an alias
    keyFile,      \* <domain>/<selector>.private: Nil, 0 when cut off, or a key
    setting,      \* dkim:<domain>: Nil or [selector, key]
    lastKey,      \* the key pairs generated
    given,        \* history: the keys handed to the administrator
    cutOff        \* history: the domains whose setup ended before it was sound, see Published

mailVars == <<mailDomain, mailbox, alias, keyFile, setting, lastKey, given, cutOff>>

MailInit ==
    /\ mailDomain = {} /\ mailbox = {} /\ alias = {}
    /\ keyFile = [d \in MailDomains |-> [s \in Selectors |-> Nil]]
    /\ setting = [d \in MailDomains |-> Nil]
    /\ lastKey = 0 /\ given = {} /\ cutOff = {}

AddDomain(d) ==
    /\ d \notin mailDomain
    /\ mailDomain' = mailDomain \cup {d}
    /\ UNCHANGED <<mailbox, alias, keyFile, setting, lastKey, given, cutOff>>

M_DeleteDomain(d) ==
    /\ mailDomain' = mailDomain \ {d}
    /\ alias' = alias \ {d}
    /\ UNCHANGED <<mailbox, keyFile, setting, lastKey, given, cutOff>>

\* delete_domain, one transaction; the key and its setting stay.
DeleteDomain(d) ==
    /\ mailDomain' = mailDomain \ {d}
    /\ mailbox' = mailbox \ {d}
    /\ alias' = alias \ {d}
    /\ UNCHANGED <<keyFile, setting, lastKey, given, cutOff>>

CreateMailbox(d) ==
    /\ d \in mailDomain /\ d \notin mailbox
    /\ mailbox' = mailbox \cup {d}
    /\ UNCHANGED <<mailDomain, alias, keyFile, setting, lastKey, given, cutOff>>

DeleteMailbox(d) ==
    /\ d \in mailbox
    /\ mailbox' = mailbox \ {d}
    /\ UNCHANGED <<mailDomain, alias, keyFile, setting, lastKey, given, cutOff>>

\* create_alias does not ask whether the panel has the domain.
CreateAlias(d) ==
    /\ alias' = alias \cup {d}
    /\ UNCHANGED <<mailDomain, mailbox, keyFile, setting, lastKey, given, cutOff>>

DeleteAlias(d) ==
    /\ alias' = alias \ {d}
    /\ UNCHANGED <<mailDomain, mailbox, keyFile, setting, lastKey, given, cutOff>>

\* _store_dkim_key: "kept"; "refused", no file can be opened; "broken", the
\* old file is emptied and the new key not written; "unguarded", written but
\* not protected. All but the first return None.
StoreDkimKey(d, s, key, outcome) ==
    keyFile' = CASE outcome \in {"kept", "unguarded"} -> [keyFile EXCEPT ![d][s] = key]
                 [] outcome = "broken"                -> [keyFile EXCEPT ![d][s] = 0]
                 [] outcome = "refused"               -> keyFile

\* What a setup that carries out k steps leaves of the published key: "sound",
\* it signs or was given; "lost", it does neither; "same", as it was before.
Published(d, s, outcome, k) ==
    IF k = 3 \/ (k = 2 /\ outcome \in {"kept", "unguarded"}) THEN "sound"
    ELSE IF k = 2 \/ (outcome # "refused" /\ setting[d] # Nil /\ setting[d].selector = s) THEN "lost"
    ELSE "same"

M_DkimSetup(d, s, outcome, k) ==
    /\ d \in mailDomain /\ lastKey < MaxKey /\ k >= 1
    /\ lastKey' = lastKey + 1
    /\ StoreDkimKey(d, s, lastKey', outcome)
    /\ setting' = IF k >= 2 /\ setting[d] = Nil
                  THEN [setting EXCEPT ![d] = [selector |-> s, key |-> lastKey']] ELSE setting
    /\ given' = IF k = 3 /\ outcome # "kept" THEN given \cup {lastKey'} ELSE given
    /\ cutOff' = CASE Published(d, s, outcome, k) = "sound" -> cutOff \ {d}
                   [] Published(d, s, outcome, k) = "lost"  -> cutOff \cup {d}
                   [] OTHER -> cutOff
    /\ UNCHANGED <<mailDomain, mailbox, alias>>

\* dkim_setup: a new pair, the private key to its file, then the setting;
\* after it the audit, which may fail, and the answer, of which a key that
\* was not stored is part. A prefix of these three steps.
DkimSetup(d, s, outcome, k) ==
    /\ d \in mailDomain /\ lastKey < MaxKey /\ k >= 1
    /\ lastKey' = lastKey + 1
    /\ StoreDkimKey(d, s, lastKey', outcome)
    /\ setting' = IF k >= 2 THEN [setting EXCEPT ![d] = [selector |-> s, key |-> lastKey']] ELSE setting
    /\ given' = IF k = 3 /\ outcome # "kept" THEN given \cup {lastKey'} ELSE given
    /\ cutOff' = CASE Published(d, s, outcome, k) = "sound" -> cutOff \ {d}
                   [] Published(d, s, outcome, k) = "lost"  -> cutOff \cup {d}
                   [] OTHER -> cutOff
    /\ UNCHANGED <<mailDomain, mailbox, alias>>

MailNext ==
    \E d \in MailDomains :
       \/ AddDomain(d) \/ DeleteDomain(d) \/ CreateMailbox(d) \/ DeleteMailbox(d)
       \/ CreateAlias(d) \/ DeleteAlias(d)
       \/ \E s \in Selectors, outcome \in {"kept", "refused", "broken", "unguarded"}, k \in Steps(3) :
             DkimSetup(d, s, outcome, k)

MailSpec == MailInit /\ [][MailNext]_mailVars

\* The DKIM record dns_records shows, and the maps: mailboxes of the domains.
DkimRecord(d)  == setting[d]
VMailboxes     == mailbox
VDomains       == mailDomain

-----------------------------------------------------------------------------
\* The key in the DNS record of a domain is the one the mail server signs
\* with (in the file of the record's selector), or one the administrator was
\* given to install; through repeated setups with other selectors, files that
\* cannot be written, and domains deleted and added again. Excepted until a
\* later setup is sound is a domain of which a setup ended after it had
\* overwritten the published selector's file and before the setting, or after
\* the setting of a key not stored and before the answer: its record names a
\* key that signs nothing and that nobody has (email.py:220-231). Postfix gets
\* a mailbox only for a domain it is told of.
MailConsistent ==
    /\ \A d \in MailDomains : DkimRecord(d) # Nil /\ d \notin cutOff =>
          \/ keyFile[d][DkimRecord(d).selector] = DkimRecord(d).key
          \/ DkimRecord(d).key \in given
    /\ VMailboxes \subseteq VDomains
=============================================================================
