------------------------------- MODULE V1Sites -------------------------------
(***************************************************************************)
(* Sites of panel version 1 (services/sites.py, services/ssl.py): a row of *)
(* the table sites, the vhost file, how it is switched on (a symbolic link *)
(* on Debian, the name .conf or .conf.disabled in conf.d elsewhere), the   *)
(* installed certificate, and the configuration nginx has loaded.          *)
(*                                                                         *)
(* A vhost is abstracted to what decides whether nginx accepts it: whether *)
(* it names a certificate, and whether what the user typed into it         *)
(* (proxy_pass, webroot, the alias names: none is checked against nginx's  *)
(* syntax) breaks the file. A site type without a template is a row whose  *)
(* vhost cannot be rendered at all.                                        *)
(***************************************************************************)
EXTENDS V1

CONSTANT Domains

VARIABLES
    layout,    \* detect_os().family: "debian", or "rhel" for all the others
    siteRow,   \* sites: Nil or [kind, ssl, enabled]
    conf,      \* <domain>.conf: Nil or a vhost
    off,       \* <domain>.conf.disabled (RHEL): Nil or a vhost
    link,      \* sites-enabled/<domain>.conf exists (Debian)
    cert,      \* the certificate is at CERT_BASE/<domain>
    serving,   \* the vhosts nginx has loaded
    clean,     \* history: no step is missing from what was done to the site
    settled    \* history: the last handler ran to its end and nginx reloaded

fileVars  == <<conf, off, link>>
sitesVars == <<layout, siteRow, fileVars, cert, serving, clean, settled>>

Kinds   == {"good", "bad", "unknown"}
SiteRow == [kind : Kinds, ssl : BOOLEAN, enabled : BOOLEAN]
Vhost   == [ssl : BOOLEAN, bad : BOOLEAN]

ASSUME NilIsNoSite == Nil \notin SiteRow \cup Vhost

\* What render_vhost makes of a row; raises for an unknown site type.
Renders(r)      == r.kind # "unknown"
RenderVhost(r)  == [ssl |-> r.ssl, bad |-> r.kind = "bad"]

\* A link whose file is gone stops nginx like a vhost it cannot parse.
Dangling == [ssl |-> FALSE, bad |-> TRUE]

\* The vhosts that the files switch on.
Active(c, l) ==
    [d \in Domains |-> IF layout = "rhel" THEN c[d]
                       ELSE IF ~l[d] THEN Nil
                       ELSE IF c[d] = Nil THEN Dangling ELSE c[d]]

\* nginx -t (external): every vhost opens, parses and finds its certificate.
NginxTest(a, certs) ==
    \A d \in Domains : a[d] # Nil => ~a[d].bad /\ (a[d].ssl => certs[d])

\* nginx -t and, when it passes, the reload, which may fail; its result is
\* not looked at.
TestAndReload(done, reloads) ==
    LET a == Active(conf', link')
    IN serving' = IF done /\ reloads /\ NginxTest(a, cert') THEN a ELSE serving

\* The first k of the three steps of _write_and_enable: write the file;
\* remove the old link; link it. Without a directory of links the second
\* step renames: on top of the file just written when a .disabled is there.
WriteAndEnable(d, vhost, enabled, k) ==
    LET left == off[d] # Nil
    IN IF layout = "debian"
       THEN /\ conf' = IF k >= 1 THEN [conf EXCEPT ![d] = vhost] ELSE conf
            /\ link' = IF k >= 2 THEN [link EXCEPT ![d] = enabled /\ k >= 3] ELSE link
            /\ UNCHANGED off
       ELSE /\ conf' = [conf EXCEPT ![d] = CASE k = 0              -> @
                                             [] k = 1              -> vhost
                                             [] k >= 2 /\ enabled  -> IF left THEN off[d] ELSE vhost
                                             [] k >= 2 /\ ~enabled -> Nil]
            /\ off' = IF k >= 2 THEN [off EXCEPT ![d] = IF enabled THEN Nil ELSE vhost] ELSE off
            /\ UNCHANGED link

\* A handler that wrote the vhost of d: is the site as it should be after it?
Cleaned(d, complete, enabled) ==
    clean' = [clean EXCEPT ![d] =
                complete /\ (layout = "debian" \/ ~enabled \/ off[d] = Nil \/ @)]

SitesInit ==
    /\ layout \in {"debian", "rhel"}
    /\ siteRow = [d \in Domains |-> Nil]
    /\ conf = [d \in Domains |-> Nil] /\ off = conf /\ serving = conf
    /\ link = [d \in Domains |-> FALSE] /\ cert = link
    /\ clean = [d \in Domains |-> TRUE] /\ settled = TRUE

\* create_site: the row, the webroot (which may fail), the vhost, the reload.
\* With apply = FALSE only the row. A vhost nginx rejects stays switched on.
CreateSite(d, kind, k, reloads) ==
    LET row == [kind |-> kind, ssl |-> FALSE, enabled |-> TRUE]
    IN /\ siteRow[d] = Nil
       /\ k >= 1 /\ (~Renders(row) => k = 1)
       /\ siteRow' = [siteRow EXCEPT ![d] = row]
       /\ WriteAndEnable(d, RenderVhost(row), TRUE, k - 1)
       /\ Cleaned(d, k = 5, TRUE)
       /\ settled' = (k = 5 /\ reloads)
       /\ UNCHANGED <<layout, cert>>
       /\ TestAndReload(k = 5, reloads)

\* set_enabled: the column, the vhost of the row as it was read, the reload.
SetEnabled(d, enabled, k, reloads) ==
    /\ siteRow[d] # Nil
    /\ k >= 1 /\ (~Renders(siteRow[d]) => k = 1)
    /\ siteRow' = [siteRow EXCEPT ![d].enabled = enabled]
    /\ WriteAndEnable(d, RenderVhost(siteRow[d]), enabled, k - 1)
    /\ Cleaned(d, k = 5, enabled)
    /\ settled' = (k = 5 /\ reloads)
    /\ UNCHANGED <<layout, cert>>
    /\ TestAndReload(k = 5, reloads)

M_DeleteSite(d, k, reloads) ==
    /\ siteRow[d] # Nil
    /\ k >= 1
    /\ siteRow' = [siteRow EXCEPT ![d] = Nil]
    /\ conf' = IF k >= 2 THEN [conf EXCEPT ![d] = Nil] ELSE conf
    /\ off'  = IF k >= 3 THEN [off EXCEPT ![d] = Nil] ELSE off
    /\ link' = IF k >= 4 THEN [link EXCEPT ![d] = FALSE] ELSE link
    /\ clean' = [clean EXCEPT ![d] = (k = 5)]
    /\ settled' = (k = 5 /\ reloads)
    /\ UNCHANGED <<layout, cert>>
    /\ TestAndReload(k >= 5, reloads)

\* delete_site: the files, the link, the reload, and the row last.
DeleteSite(d, k, reloads) ==
    /\ siteRow[d] # Nil
    /\ k >= 1
    /\ conf' = [conf EXCEPT ![d] = Nil]
    /\ off'  = IF k >= 2 THEN [off EXCEPT ![d] = Nil] ELSE off
    /\ link' = IF k >= 3 THEN [link EXCEPT ![d] = FALSE] ELSE link
    /\ siteRow' = IF k = 5 THEN [siteRow EXCEPT ![d] = Nil] ELSE siteRow
    /\ clean' = [clean EXCEPT ![d] = (k = 5)]
    /\ settled' = (k = 5 /\ reloads)
    /\ UNCHANGED <<layout, cert>>
    /\ TestAndReload(k >= 4, reloads)

\* acme.sh --install-cert, whose result is not looked at: it may not install
\* anything. Its --reloadcmd runs without nginx -t; nginx keeps what it has
\* when the new configuration is broken (external).
InstallCert(d, installs) == cert' = [cert EXCEPT ![d] = @ \/ installs]

M_InstallAndEnableSsl(d, k, reloads) ==
    LET row == [siteRow[d] EXCEPT !.ssl = TRUE]
    IN /\ siteRow' = [siteRow EXCEPT ![d].ssl = TRUE]
       /\ WriteAndEnable(d, RenderVhost(row), TRUE, k - 1)
       /\ Cleaned(d, k = 5, row.enabled)
       /\ TestAndReload(k = 5, reloads)

\* _install_and_enable_ssl after the installation: the column, the vhost with
\* TLS, switched on or off as the row says, the reload.
InstallAndEnableSsl(d, k, reloads) ==
    LET row == [siteRow[d] EXCEPT !.ssl = TRUE]
    IN /\ siteRow' = [siteRow EXCEPT ![d].ssl = TRUE]
       /\ WriteAndEnable(d, RenderVhost(row), row.enabled, k - 1)
       /\ Cleaned(d, k = 5, row.enabled)
       /\ TestAndReload(k = 5, reloads)

\* issue_certificate once a CA has issued one (with none it raises and
\* nothing changes), and _record, which repeats the column.
IssueCertificate(d, installs, k, reloads) ==
    /\ InstallCert(d, installs)
    /\ IF siteRow[d] = Nil \/ k = 0
       THEN /\ UNCHANGED <<siteRow, fileVars, clean>>
            /\ TestAndReload(installs, reloads)
            /\ settled' = (settled /\ (installs => reloads))
       ELSE /\ ~Renders(siteRow[d]) => k = 1
            /\ InstallAndEnableSsl(d, k, reloads)
            /\ settled' = (k = 5 /\ reloads)
    /\ UNCHANGED layout

\* renew_all, from the endpoint and from the scheduler's thread: renewed
\* certificates are installed again and nginx reloads.
RenewAll(reloads) ==
    /\ \E d \in Domains : cert[d]
    /\ UNCHANGED <<layout, siteRow, fileVars, cert, clean>>
    /\ settled' = (settled /\ reloads)
    /\ TestAndReload(TRUE, reloads)

SitesNext ==
    \/ \E reloads \in BOOLEAN, d \in Domains :
          \/ \E kind \in Kinds, k \in Steps(5) : CreateSite(d, kind, k, reloads)
          \/ \E enabled \in BOOLEAN, k \in Steps(5) : SetEnabled(d, enabled, k, reloads)
          \/ \E k \in Steps(5) : DeleteSite(d, k, reloads)
          \/ \E installs \in BOOLEAN, k \in Steps(5) : IssueCertificate(d, installs, k, reloads)
    \/ \E reloads \in BOOLEAN : RenewAll(reloads)

SitesSpec == SitesInit /\ [][SitesNext]_sitesVars

-----------------------------------------------------------------------------
\* No vhost is left that the table does not list.
NoOrphanVhost ==
    \A d \in Domains : conf[d] # Nil \/ off[d] # Nil \/ link[d] => siteRow[d] # Nil

\* Of the sites no step is missing from, nginx serves those the table calls
\* enabled, as their rows say.
ServesTheTable ==
    settled /\ NginxTest(Active(conf, link), cert) =>
        \A d \in Domains : clean[d] =>
            serving[d] = IF siteRow[d] = Nil THEN Nil
                         ELSE IF siteRow[d].enabled THEN RenderVhost(siteRow[d]) ELSE Nil

\* Table, files and nginx agree. Whatever step a handler of sites.py ends at,
\* no vhost is left that the table does not list, so that a site can always be
\* listed and deleted again. When the last handler ran to its end and all
\* vhosts pass nginx -t, nginx serves what the table says, whatever was broken
\* or refused before.
SitesAgree == NoOrphanVhost /\ ServesTheTable
=============================================================================
