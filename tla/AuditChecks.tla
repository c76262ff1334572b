---------------------------- MODULE AuditChecks ----------------------------
(***************************************************************************)
(* What the checks of the security audit (audit.go) conclude from what they *)
(* could read.  A source is a file, a directory, a registry key, a command  *)
(* or a list of processes: what it holds is a set of entries, of which some *)
(* are "bad" (what the check looks for), "odd" (what a second check over    *)
(* the same source looks for) or "plain".  Matching an entry against paths, *)
(* names and patterns is left out, and so is the wording of the results.    *)
(***************************************************************************)
EXTENDS FiniteSets, Integers

Entries == {"plain", "odd", "bad"}

\* What came of reading a source: all of it, nothing as it does not exist, or an
\* error.  A command that fails or runs out of time may have printed a part.
Sources ==
    {[state |-> "read", all |-> a, got |-> a] : a \in SUBSET Entries}
        \cup {[state |-> "absent", all |-> {}, got |-> {}]}
        \cup UNION {{[state |-> "failed", all |-> a, got |-> g] : g \in SUBSET a}
                        : a \in SUBSET Entries}

\* A file that cannot be read gives nothing.
Files == {s \in Sources : s.state = "failed" => s.got = {}}

Found(s) == s.got \cap {"bad"}
Odd(s)   == s.got \cap {"odd"}
Err(s)   == s.state # "read"

----------------------------------------------------------------------------
(* The ways to build a result *)

check(key, status) == [key |-> key, status |-> status, items |-> {}, partial |-> FALSE]

finding(key, status, items) ==
    [check(key, IF items = {} THEN "ok" ELSE status) EXCEPT !.items = items]

findingOrSkipped(key, status, items, ran) ==
    IF ran THEN finding(key, status, items) ELSE check(key, "info")

\* Seeded bug for AuditIsHonest: the error of the command is dropped.
findingAnyway(key, status, items, err) == finding(key, status, items)

findingOrUnknown(key, status, items, err) ==
    IF err /\ items = {} THEN check(key, "info")
    ELSE [finding(key, status, items) EXCEPT !.partial = err]

statusFor(bad, badStatus) == IF bad THEN badStatus ELSE "ok"

----------------------------------------------------------------------------
(* Processes.  A process is the set of what is true of it: "staged" (it runs *)
(* from a temporary or download directory), "system" (it has the name of a  *)
(* system process), "system32" (and its path), "deleted", "shell", "socket" *)
(* (a standard stream is a network socket), "traced"; the links under /proc  *)
(* of one that is "foreign" cannot be read, its status can.                 *)

Traits == {"staged", "system", "system32", "deleted", "shell", "socket", "traced", "foreign"}

\* The error of process.Processes is dropped, and an unreadable table of sockets
\* is an empty one.
auditProcesses(os, procs, inet) ==
    LET open == {p \in procs : "foreign" \notin p}
        deleted == {p \in open : "deleted" \in p}
        revshell == {p \in open : inet /\ {"shell", "socket"} \subseteq p}
        traced == {p \in procs : "traced" \in p}
        masq == {p \in open : "system" \in p /\ "system32" \notin p}
    IN  {finding("p_suspath", "risk", {p \in open : "staged" \in p})}
            \cup CASE os = "windows" -> {finding("p_masq", "risk", masq)}
                   [] os = "linux" -> {finding("p_deleted", "risk", deleted),
                                       finding("p_revshell", "risk", revshell),
                                       finding("p_traced", "warn", traced)}
                   [] OTHER -> {findingOrSkipped("p_deleted", "risk", {}, FALSE)}

----------------------------------------------------------------------------
(* Persistence; h is the host, one field per source *)

RunKeys(h) ==
    IF Found(h.run) # {} THEN finding("pw_run_susp", "risk", Found(h.run))
    ELSE finding("pw_run", "info", h.run.got)

\* Only two of the commands are asked whether they failed.
auditPersistenceWindows(h) ==
    {RunKeys(h),
     finding("pw_startup", "warn", h.startup.got),
     findingOrUnknown("pw_tasks", "risk", Found(h.tasks), Err(h.tasks)),
     finding("pw_winlogon", "risk", Found(h.winlogon)),
     finding("pw_ifeo", "risk", Found(h.ifeo)),
     finding("pw_appinit", "risk", h.appinit.got),
     findingOrUnknown("pw_services", "risk", Found(h.services), Err(h.services)),
     findingOrUnknown("pw_unquoted", "warn", Odd(h.services), Err(h.services))}

\* /etc/passwd tells whose files to look at; if it cannot be read, they are those
\* of the current home.
userHomes(h) == IF Err(h.passwd) THEN {"own"} ELSE {"own", "other"}

\* What the start-up files hold, of the system and of every home.
suspiciousRCLines(h) == Found(h.rc) \cup (IF "other" \in userHomes(h) THEN Found(h.rcOther) ELSE {})

auditSystemdSystem(h) ==
    {finding("pl_sysd_susp", "risk", Found(h.units)),
     finding("pl_sysd_sys", "info", h.units.got)}

\* Odd entries of cron are comments and settings; of the desktop's own autostart
\* directory only bad entries are told.
auditPersistenceLinux(h) ==
    {finding("pl_cron", "info", h.cron.got \ Odd(h.cron)),
     finding("pl_rc", "risk", suspiciousRCLines(h)),
     finding("pl_auto_susp", "risk", Found(h.xdg) \cup Found(h.autostart)),
     finding("pl_auto", "info", h.autostart.got),
     finding("pl_systemd", "warn", h.userUnits.got)}
        \cup auditSystemdSystem(h)

----------------------------------------------------------------------------
(* Hardening *)

\* Profiles that are off are bad, those that are on plain.
auditWinFirewall(h) ==
    CASE Found(h.winfw) # {} -> check("hw_fw", "risk")
      [] Found(h.winfw) = {} /\ "plain" \in h.winfw.got -> check("hw_fw", "ok")
      [] OTHER -> check("hw_fw", "info")

\* The protection is on ("plain") or off ("bad").  A Get-MpComputerStatus that fails or
\* is not there leaves both of its fields empty, and ";" is printed: that is not "True".
\* Only a PowerShell that fails prints nothing.
Defender(h) ==
    CASE h.defender.state = "failed" /\ h.defender.got = {} -> check("hw_def", "info")
      [] h.defender.got = {"plain"} -> check("hw_def", "ok")
      [] OTHER -> check("hw_def", "risk")

\* fDenyTSConnections: neither value, no check.
RDP(h) ==
    IF Found(h.rdp) # {} THEN {check("hw_rdp", "warn")}
    ELSE IF "plain" \in h.rdp.got THEN {check("hw_rdp", "ok")} ELSE {}

\* A bad entry is a fourth member.
Admins(h) ==
    IF h.admins.got = {} THEN check("hw_admins", "info")
    ELSE [check("hw_admins", statusFor("bad" \in h.admins.got, "warn"))
             EXCEPT !.items = h.admins.got]

auditHostsFile(h) ==
    IF Err(h.hosts) THEN check("hosts", "info")
    ELSE IF Found(h.hosts) = {} THEN check("hosts", "ok")
    ELSE finding("hosts_custom", "warn", Found(h.hosts))

auditHardeningWindows(h) ==
    {auditWinFirewall(h), Defender(h), Admins(h), auditHostsFile(h)} \cup RDP(h)

\* ufw status prints "inactive" (bad) or not; its error is dropped.
Ufw(h) == check("hl_ufw", IF Found(h.ufw) # {} THEN "risk" ELSE "ok")

\* Seeded bug for AuditIsHonest: an empty listing reads as no rules.
RulesAnyway(h) == check("hl_fw", IF h.nft.got # {} THEN "ok" ELSE "warn")

\* The rules of nft or iptables, counted.
Rules(h) ==
    CASE Err(h.nft) /\ h.nft.got = {} -> check("hl_fw", "info")
      [] h.nft.got # {} -> check("hl_fw", "ok")
      [] OTHER -> check("hl_fw", "warn")

Firewall(h) ==
    CASE h.tool = "ufw" -> Ufw(h)
      [] h.tool = "nft" -> Rules(h)
      [] OTHER -> check("hl_fw", "info")

\* A file that cannot be read: no check.
SSHConfig(h) == IF Err(h.sshd) THEN {} ELSE {finding("hl_ssh", "warn", Found(h.sshd))}

UID0(h) == IF Err(h.passwd) THEN {} ELSE {finding("hl_uid0", "risk", Found(h.passwd))}

\* Every key is told; a file that does not exist holds none, one that cannot be
\* read is an error.
auditSSHAuthorizedKeys(h) ==
    findingOrUnknown("hl_authkeys", "warn", h.keys.got, h.keys.state = "failed")

auditShadowPerms(h) == finding("hl_shadow", "risk", Found(h.shadow))

auditSudoers(h) == finding("hl_sudo", "warn", Found(h.sudoers))

\* find, over the directories there are.
auditSUID(h) == findingOrUnknown("hl_suid", "risk", Found(h.suid), h.suid.state = "failed")

\* AppArmor's profiles, or SELinux's enforce ("plain" is enforcing).
auditMAC(h) ==
    CASE ~Err(h.apparmor) -> check("hl_mac", "ok")
      [] Err(h.apparmor) /\ ~Err(h.selinux) ->
            check("hl_mac", IF h.selinux.got = {"plain"} THEN "ok" ELSE "warn")
      [] OTHER -> check("hl_mac", "info")

auditPathWritable(h) == finding("hl_path_ww", "risk", Found(h.path))

auditHardeningLinux(h) ==
    {Firewall(h), auditSSHAuthorizedKeys(h), auditShadowPerms(h), auditSudoers(h),
     auditSUID(h), auditMAC(h), auditPathWritable(h), auditHostsFile(h)}
        \cup SSHConfig(h) \cup UID0(h)

----------------------------------------------------------------------------
(* Rootkit heuristics *)

\* hiddenProcs on Linux asks of a number that /proc did not list (1) whether it
\* takes a signal (2), is shown now (3) and still takes a signal (4); alive are
\* the instants at which a process with that number runs.
hiddenPid(alive, shown) ==
    /\ ~(1 \in alive /\ shown)
    /\ 2 \in alive
    /\ ~(3 \in alive /\ shown)
    /\ 4 \in alive

\* On Windows: a number that one source has (1, 2) and the other has not is asked
\* for again in both (3, 4).
hiddenWinPid(api, tasklist) ==
    /\ (1 \in api) # (2 \in tasklist)
    /\ (3 \in api) # (4 \in tasklist)

\* A sweep that runs out of time (failed) says so in the detail.
Hidden(os, h) ==
    [findingOrSkipped("rk_hidden", IF os = "linux" THEN "risk" ELSE "warn", Found(h.hidden),
                      os = "linux" \/ h.hidden.state # "absent")
        EXCEPT !.partial = h.hidden.state = "failed"]

\* Ports that ss or netstat lists and the program's own enumeration does not; if
\* that one fails, every port is one of them.
auditHiddenPorts(h) ==
    LET own == IF h.api.state = "read" THEN h.ports.got \ {"bad"} ELSE {} IN
    IF Err(h.ports) \/ h.ports.got = {} THEN check("rk_ports", "info")
    ELSE finding("rk_ports", "warn", h.ports.got \ own)

Preload(h) == check("rk_preload", IF h.preload.got # {} THEN "risk" ELSE "ok")

auditEnvPreload(h) == check("rk_env_preload", IF Found(h.environ) # {} THEN "risk" ELSE "ok")

\* Modules of a known family are plain.
unknownModules(h) == h.modules.got \ {"plain"}

\* The taint flags: "plain" are O and E, which out-of-tree modules set.
Tainted(h) ==
    IF Err(h.taint) THEN {}
    ELSE CASE h.taint.got = {} -> {check("rk_tainted", "ok")}
           [] h.taint.got = {"plain"} /\ h.modules.got # {} /\ unknownModules(h) = {} ->
                 {check("rk_tainted", "info")}
           [] OTHER -> {check("rk_tainted", "warn")}

Modules(h) ==
    CASE Err(h.modules) -> check("rk_modules", "info")
      [] ~Err(h.modules) /\ h.modules.got # {} /\ unknownModules(h) = {} ->
            [check("rk_modules", "info") EXCEPT !.items = h.modules.got]
      [] OTHER -> finding("rk_modules", "warn", h.modules.got)

auditWinDrivers(h) == findingOrUnknown("rk_drivers", "warn", Found(h.drivers), Err(h.drivers))

\* Interfaces in promiscuous mode; a capture of this program (own), or of a tool
\* that runs, explains them.
Promisc(ifaces, own, tools) ==
    LET pc == findingOrSkipped("rk_promisc", "warn", ifaces.got, ifaces.state = "read") IN
    IF ifaces.got # {} /\ (own \/ tools) THEN [pc EXCEPT !.status = "info"] ELSE pc

auditRootkit(os, h) ==
    {Hidden(os, h), auditHiddenPorts(h)}
        \cup CASE os = "linux" -> {Preload(h), auditEnvPreload(h), Modules(h),
                                  Promisc(h.ifaces, h.own, h.tools)} \cup Tainted(h)
               [] os = "windows" -> {auditWinDrivers(h)}
               [] OTHER -> {}

\* The categories; every system but Windows is asked as Linux is.
Checks(os, h) ==
    auditProcesses(os, h.procs, h.inet)
        \cup IF os = "windows"
             THEN auditPersistenceWindows(h) \cup auditHardeningWindows(h) \cup auditRootkit(os, h)
             ELSE auditPersistenceLinux(h) \cup auditHardeningLinux(h) \cup auditRootkit(os, h)

----------------------------------------------------------------------------
(* What the checks must satisfy, of every host of a set *)


\* The sources a check reads.
Reads ==
    [pw_run |-> {"run"}, pw_run_susp |-> {"run"}, pw_startup |-> {"startup"},
     pw_tasks |-> {"tasks"}, pw_winlogon |-> {"winlogon"}, pw_ifeo |-> {"ifeo"},
     pw_appinit |-> {"appinit"}, pw_services |-> {"services"}, pw_unquoted |-> {"services"},
     pl_cron |-> {"cron"}, pl_rc |-> {"rc", "rcOther"},
     pl_auto_susp |-> {"xdg", "autostart"}, pl_auto |-> {"autostart"},
     pl_systemd |-> {"userUnits"}, pl_sysd_susp |-> {"units"}, pl_sysd_sys |-> {"units"},
     hw_fw |-> {"winfw"}, hw_def |-> {"defender"}, hw_rdp |-> {"rdp"},
     hw_admins |-> {"admins"}, hosts |-> {"hosts"}, hosts_custom |-> {"hosts"},
     hl_ufw |-> {"ufw"}, hl_fw |-> {"nft"}, hl_ssh |-> {"sshd"}, hl_uid0 |-> {"passwd"},
     hl_authkeys |-> {"keys"}, hl_shadow |-> {"shadow"}, hl_sudo |-> {"sudoers"},
     hl_suid |-> {"suid"}, hl_mac |-> {"apparmor", "selinux"}, hl_path_ww |-> {"path"},
     rk_hidden |-> {"hidden"}, rk_ports |-> {"ports"}, rk_preload |-> {"preload"},
     rk_env_preload |-> {"environ"}, rk_modules |-> {"modules"}, rk_tainted |-> {"taint"},
     rk_promisc |-> {"ifaces"}, rk_drivers |-> {"drivers"}]

ReadBy(key) == IF key \in DOMAIN Reads THEN Reads[key] ELSE {}

Systems == {"windows", "linux", "darwin"}

\* Checks that take a source that fails for one that holds nothing: the registry keys
\* that are asked for with runCmd, the files and directories that need not exist or
\* that others may not read, and ufw.  So do the checks of processes, whose sources
\* are in no list.
Unasked == {"pw_run", "pw_startup", "pw_winlogon", "pw_ifeo", "pw_appinit",
            "pl_cron", "pl_rc", "pl_auto_susp", "pl_auto", "pl_systemd", "pl_sysd_susp",
            "pl_sysd_sys", "hl_ufw", "hl_shadow", "hl_sudo", "hl_path_ww",
            "rk_preload", "rk_env_preload"}

\* Checks that also tell a part from the whole.
TellsPart == {"pw_tasks", "pw_services", "pw_unquoted", "hl_authkeys", "hl_suid", "rk_hidden",
              "rk_drivers"}

\* Checks over a source that are not about its bad entries.
Otherwise == {"pw_unquoted", "hl_fw", "hl_mac"}

\* Checks whose warning is about what a source does not hold: no rules, no enforcing.
OfAbsence == {"hl_fw", "hl_mac"}

\* Processes nothing is wrong with: of another user, a system process in its place,
\* a service that writes to a socket.
Ordinary == {{"foreign", "shell"}, {"system", "system32"}, {"socket"}, {}}

\* But for the unasked ones, a check says that all is well, without saying that it
\* looked in part, only if a source of it gave something or did not fail; one that tells
\* a part from the whole only if none failed (findingOrUnknown).
FailureIsTold(hosts) ==
    \A os \in Systems, h \in hosts : \A c \in Checks(os, h) :
        c.key \in DOMAIN Reads \ Unasked /\ c.status = "ok" /\ ~c.partial =>
            /\ \E s \in ReadBy(c.key) : h[s].state # "failed" \/ h[s].got # {}
            /\ c.key \in TellsPart => \A s \in ReadBy(c.key) : h[s].state # "failed"

\* A failure is no alarm either: every one is about something that was read, entries of
\* a source of the check, or a process out of the ordinary; but Defender is said to be
\* off also if its status could not be had.  (Without the program's own list of ports,
\* every port that was read is hidden.)
AlarmIsFounded(hosts) ==
    \A os \in Systems, h \in hosts : \A c \in Checks(os, h) : c.status \in {"warn", "risk"} =>
        \/ \E s \in ReadBy(c.key) : h[s].got # {}
        \/ c.key \in OfAbsence /\ \E s \in ReadBy(c.key) : h[s].state = "read"
        \/ c.key \notin DOMAIN Reads /\ ~(h.procs \subseteq Ordinary)
        \/ c.key = "hw_def" /\ h.defender.state # "failed"

\* What was read and is bad is not passed over, but in the homes of others if the
\* list of users could not be read (userHomes).
BadIsTold(hosts) ==
    \A os \in Systems, h \in hosts : \A c \in Checks(os, h) :
        c.key \notin Otherwise /\ c.status = "ok" =>
            \A s \in ReadBy(c.key) :
                Found(h[s]) = {} \/ (s = "rcOther" /\ Err(h.passwd))

\* The taint is explained only where the modules are; both are files (Tainted).
TaintIsExplained(hosts) ==
    \A h \in hosts : h.modules \in Files =>
        LET checks == Checks("linux", h) IN
        (\E c \in checks : c.key = "rk_tainted" /\ c.status = "info")
            => \A c \in checks : c.key = "rk_modules" => c.status = "info" /\ c.items # {}

\* A process that lives from one instant to another and is shown while it lives is
\* not hidden; on Windows it is if it starts and ends within the two pairs of looks.
\* One that runs throughout and is never shown is.
HiddenIsHidden(instants) ==
    /\ \A first, last \in instants :
           /\ ~hiddenPid(first .. last, TRUE)
           /\ hiddenWinPid(first .. last, first .. last) => first = 2 /\ last = 3
           /\ first <= 1 /\ last >= 4 =>
                 /\ hiddenPid(first .. last, FALSE)
                 /\ hiddenWinPid(first .. last, {}) /\ hiddenWinPid({}, first .. last)

(* A check that asks whether its source failed does not say that all is well *)
(* if it could not look ("in a security audit a false OK is the worst        *)
(* possible output", runCmdErr); the ones that do not ask are Unasked.  No   *)
(* failure but that of Defender's status is an alarm; what was read and is   *)
(* bad is not passed over; a taint is explained by the modules that are      *)
(* named; a process that comes or goes during the sweep is not hidden.       *)
ChecksAreHonest(hosts) ==
    /\ FailureIsTold(hosts) /\ AlarmIsFounded(hosts) /\ BadIsTold(hosts)
    /\ TaintIsExplained(hosts)
    /\ HiddenIsHidden(1 .. 4)

(* A firewall is only said to be on if its command answered (runCmd's        *)
(* comment: where a failure would be mistaken for a clean result, the error *)
(* has to be asked for).                                                    *)
FirewallAnswered(hosts) ==
    \A h \in hosts : \A c \in Checks("linux", h) :
        c.key \in {"hl_ufw", "hl_fw"} /\ c.status = "ok" =>
            \A s \in ReadBy(c.key) : h[s].state # "failed"
=============================================================================
