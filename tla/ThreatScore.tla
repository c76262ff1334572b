---------------------------- MODULE ThreatScore ----------------------------
(***************************************************************************)
(* The threat score of a connection (threatScore of connections.go): the     *)
(* signals found add points, each with its reason, up to 100.               *)
(* Points are tenths, which is what the weights of AbuseIPDB need.          *)
(***************************************************************************)
EXTENDS Integers

Unresolved == -1    \* no verdict of VirusTotal: pending, no key, no hash
NotInVT == -2       \* NOT_IN_VT
NoScore == -1       \* no AbuseIPDB score, no verdict on an address

\* What the providers say about the remote address.
Enrichment == [vt : Nat \cup {NoScore}, abuse : 0 .. 100 \cup {NoScore}, provider : BOOLEAN,
               c2 : BOOLEAN, threatfox : BOOLEAN, spamhaus : BOOLEAN, tor : BOOLEAN,
               vulns : BOOLEAN]
Clean == [vt |-> 0, abuse |-> 0, provider |-> FALSE, c2 |-> FALSE, threatfox |-> FALSE,
          spamhaus |-> FALSE, tor |-> FALSE, vulns |-> FALSE]

\* A row: the fields of Conn that threatScore reads.  "rate" is what exfil and cpu
\* quote; enrich is empty while nothing is known of the address.
Rows == [wlExe : BOOLEAN, wlIP : BOOLEAN, vt : Nat \cup {Unresolved, NotInVT},
         staging : BOOLEAN, downloads : BOOLEAN, port : BOOLEAN, spawn : BOOLEAN,
         egress : BOOLEAN, cpu : BOOLEAN, rate : Nat, creds : BOOLEAN, exec : BOOLEAN,
         sig : {"NotSigned", "bad", "neutral", "PENDING"},
         public : BOOLEAN, enrich : {{}} \cup {{e} : e \in Enrichment}]
Quiet == [wlExe |-> FALSE, wlIP |-> FALSE, vt |-> 0, staging |-> FALSE, downloads |-> FALSE,
          port |-> FALSE, spawn |-> FALSE, egress |-> FALSE, cpu |-> FALSE, rate |-> 0,
          creds |-> FALSE, exec |-> FALSE, sig |-> "neutral", public |-> TRUE,
          enrich |-> {Clean}]

When(signal, tenths) == IF signal THEN tenths ELSE 0

\* Detections count up to ten.
Detections(n) == IF n > 10 THEN 10 ELSE IF n > 0 THEN n ELSE 0

\* An independent reason to distrust the binary.
Suspect(c) == c.staging \/ c.port \/ c.spawn

\* Seeded bug for ScoreIsSound (NeverLowers): the weaker path is asked about first.
PathSwapped(c) ==
    IF c.downloads THEN "path_untrusted" ELSE IF c.staging THEN "path_staging" ELSE "none"

\* The switch on the path.
Path(c) ==
    IF c.staging THEN "path_staging" ELSE IF c.downloads THEN "path_untrusted" ELSE "none"

\* What is known of the address: an address that nothing is known of adds nothing.
About(c) == IF c.enrich = {} THEN Clean ELSE CHOOSE e \in c.enrich : TRUE

\* The points of each signal under the key of its reason, zero if it is not there.
Points(c) ==
    LET e == About(c) IN
    [vt             |-> 60 * Detections(c.vt),
     path_staging   |-> When(Path(c) = "path_staging", 250),
     path_untrusted |-> When(Path(c) = "path_untrusted", 80),
     port           |-> When(c.port, 120),
     spawn          |-> When(c.spawn, 400),
     exfil          |-> When(c.egress /\ Suspect(c), 250),
     cpu            |-> When(c.cpu /\ Suspect(c), 250),
     creds          |-> When(c.creds, 250),
     execmap        |-> When(c.exec, 300),
     unsigned       |-> When(c.sig = "NotSigned", 150),
     sig            |-> When(c.sig = "bad", 100),
     vtip           |-> 40 * Detections(e.vt),
     abuse_att      |-> When(e.abuse > 0 /\ e.provider, e.abuse),
     abuse          |-> When(e.abuse > 0 /\ ~e.provider, 4 * e.abuse),
     c2             |-> When(e.c2, 600),
     threatfox      |-> When(e.threatfox, 550),
     spamhaus       |-> When(e.spamhaus, 300),
     tor            |-> When(e.tor, 150),
     cves           |-> When(e.vulns, 100)]

\* What is added up: the points of the binary and those of its address.
BinaryPoints(pts) ==
    pts.vt + pts.path_staging + pts.path_untrusted + pts.port + pts.spawn + pts.exfil + pts.cpu
    + pts.creds + pts.execmap + pts.unsigned + pts.sig

AddressPoints(pts) ==
    pts.vtip + pts.abuse_att + pts.abuse + pts.c2 + pts.threatfox + pts.spamhaus + pts.tor + pts.cves

Total(pts) == BinaryPoints(pts) + AddressPoints(pts)

\* The numbers the texts quote.
Quoted(c) ==
    [vt |-> c.vt, exfil |-> c.rate, cpu |-> c.rate, vtip |-> About(c).vt,
     abuse_att |-> About(c).abuse, abuse |-> About(c).abuse]

Reason(key, tenths, arg) == [key |-> key, tenths |-> tenths, arg |-> arg]

Reasons(c) ==
    LET pts == Points(c)
        quoted == Quoted(c)
    IN {Reason(k, pts[k], IF k \in DOMAIN quoted THEN quoted[k] ELSE 0) :
          k \in {k \in DOMAIN pts : pts[k] > 0}}

CoverageIncomplete(c) ==
    \/ c.vt = Unresolved
    \/ c.public /\ c.enrich = {}
    \/ c.sig = "PENDING"

\* The verdict where there are no points.
Only(key) == {Reason(key, 0, 0)}

Whole(tenths) == IF tenths > 1000 THEN 100 ELSE tenths \div 10

\* The score, why, and whether it rests on missing data.
threatScore(c) ==
    IF c.wlExe THEN [threat |-> 0, why |-> Only("wl_exe"), partial |-> FALSE]
    ELSE IF c.wlIP THEN [threat |-> 0, why |-> Only("wl_ip"), partial |-> FALSE]
    ELSE LET why == Reasons(c)
             lacking == why = {} /\ CoverageIncomplete(c)
         IN [threat  |-> Whole(Total(Points(c))),
             why     |-> IF why # {} THEN why ELSE IF lacking THEN Only("partial") ELSE Only("clean"),
             partial |-> lacking]

----------------------------------------------------------------------------
(* Properties, of every row of a set of inputs *)

\* The rows with one more signal than c.  The attenuation of a known provider is
\* not one: it takes points away, as does a whitelist.
Worse(c) ==
    {[c EXCEPT ![f] = TRUE] : f \in {"staging", "downloads", "port", "spawn", "egress", "cpu",
                                     "creds", "exec"}}
    \cup {[c EXCEPT !.vt = IF @ < 0 THEN 1 ELSE @ + 3]}
    \cup {[c EXCEPT !.sig = "NotSigned"]}
    \cup UNION {{[c EXCEPT !.enrich = {[e EXCEPT ![f] = TRUE]}] :
                   f \in {"c2", "threatfox", "spamhaus", "tor", "vulns"}} : e \in c.enrich}

\* The rows c may become once what it lacks is known, for better or worse.
Resolved(c) ==
    {[c EXCEPT !.vt = n] : n \in IF c.vt = Unresolved THEN {NotInVT, 0, 7} ELSE {c.vt}}
    \cup {[c EXCEPT !.sig = s] : s \in IF c.sig = "PENDING" THEN {"neutral", "NotSigned"}
                                       ELSE {c.sig}}
    \cup {[c EXCEPT !.enrich = {e}] : e \in IF c.enrich = {} THEN {Clean} ELSE c.enrich}

\* A further signal never lowers the score, however signals exclude or condition
\* each other: the switch on the path, the volume and CPU that count only for a
\* suspect binary (threatScore).
NeverLowers(inputs) ==
    \A c \in inputs : \A d \in Worse(c) : threatScore(d).threat >= threatScore(c).threat

\* What the breakdown shows for a key: its points without their tenths.
Shown(why, key) ==
    LET rs == {r \in why : r.key = key} IN
    IF rs = {} THEN 0 ELSE (CHOOSE r \in rs : TRUE).tenths \div 10

\* The breakdown adds up to the score below the cap, although the points of each
\* reason are truncated by themselves and the score by itself (add and finish).
AddsUp(inputs) ==
    \A c \in inputs :
        LET v == threatScore(c)
            points == Total([k \in DOMAIN Points(c) |-> Shown(v.why, k)])
        IN v.threat = IF points > 100 THEN 100 ELSE points

\* What is not known yet never convicts: no resolution of it lowers the score, and
\* a row with a public address is called clean only if there was nothing left to
\* resolve ("a zero score is only clean if we actually managed to check the key
\* signals").
UnknownNeverConvicts(inputs) ==
    \A c \in inputs :
        /\ \A d \in Resolved(c) : threatScore(d).threat >= threatScore(c).threat
        /\ c.public /\ threatScore(c).why = Only("clean") => \A d \in Resolved(c) : d = c
=============================================================================
