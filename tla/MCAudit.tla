------------------------------ MODULE MCAudit ------------------------------
(* Two requests for the audit and two things to find; or two requests and a *)
(* capture.  What the checks conclude is evaluated once.                    *)
EXTENDS Audit, TLC

CONSTANTS c1, c2, es

MCScopes == {[callers |-> {c1}, langs |-> {es}, items |-> Items, sessions |-> {}],
             [callers |-> {c1, c2}, langs |-> Langs, items |-> {}, sessions |-> {}],
             [callers |-> {c1}, langs |-> {es}, items |-> {}, sessions |-> Sessions]}

Nothing == [state |-> "read", all |-> {}, got |-> {}]

\* A host whose sources hold nothing, but for the ones of odd.
Host(tool, odd) ==
    [tool |-> tool, own |-> FALSE, tools |-> FALSE, procs |-> Ordinary, inet |-> TRUE]
        @@ odd @@ [s \in UNION {Reads[k] : k \in DOMAIN Reads} \cup {"api"} |-> Nothing]

\* Hosts with one source out of the ordinary, or with both the taint and the modules.
Hosts(sources) ==
    {Host(tool, s :> x) : tool \in {"ufw", "nft", "none"},
                          s \in UNION {Reads[k] : k \in DOMAIN Reads} \cup {"api"}, x \in sources}
        \cup {Host("none", ("taint" :> t) @@ ("modules" :> m)) : t \in Files \cap sources,
                                                                m \in Files \cap sources}

(* What a check says of sources that fail, in part or whole, of bad entries  *)
(* and of processes that come and go (audit.go, audit_linux.go).             *)
AuditIsHonest == AuditInit => ChecksAreHonest(Hosts(Sources))

(* ufw is said to be on only if "ufw status" answered (auditHardeningLinux). *)
FirewallWasAsked == AuditInit => FirewallAnswered(Hosts({s \in Sources : s.state = "failed" /\ s.got = {}}))
=============================================================================
