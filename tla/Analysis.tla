------------------------------ MODULE Analysis ------------------------------
(***************************************************************************)
(* What the worker derives from a project's findings after each scan:      *)
(* correlation (issues and links), the risk score and the gate's verdict,  *)
(* and the remediation plan the API derives on demand.  The engines are    *)
(* pure and are operators here; around them, scans of one project record,  *)
(* load, replace, score and judge in separate transactions that overlap.   *)
(*                                                                         *)
(* Findings are numbered in the order of their fingerprints.  Weights are  *)
(* scaled to integers, and score = 100(1 - exp(-total/k)) is left out: it  *)
(* increases with the total, so comparing scores is comparing totals.      *)
(***************************************************************************)
EXTENDS Integers, Sequences, FiniteSets, FiniteSetsExt

CONSTANTS
    Findings,      \* fingerprints, as numbers
    Catalogues,    \* what the findings may be: functions from Findings
    Scans,         \* scans of the project, image scans excluded
    Reports,       \* the sets of findings a scan may report
    Image,         \* the package URLs an image scan finds installed
    Listed,        \* those of them its truncated inventory lists
    Policies,      \* the policies the project may have
    MaxBucketSize, \* DefaultMaxBucketSize
    NoScan,
    MaxHuman       \* bound: status changes people make

ASSUME ConstantsAssumption ==
    /\ Findings \subseteq Nat
    /\ IsFiniteSet(Findings)
    /\ Reports \subseteq SUBSET Findings
    /\ Listed \subseteq Image
    /\ MaxBucketSize \in Nat \ {0}
    /\ NoScan \notin Scans
    /\ MaxHuman \in Nat

Severities == {"critical", "high", "medium", "unknown", "low", "info"}

\* What normalization lets into the store: a severity and a confidence of its
\* scales, and an EPSS percentile, scaled, or -1 for none.
ASSUME CataloguesAssumption ==
    \A c \in Catalogues :
        /\ DOMAIN c = Findings
        /\ \A f \in Findings : /\ c[f].severity \in Severities
                               /\ c[f].confidence \in {"high", "medium", "low"}
                               /\ c[f].epss \in Nat \union {-1}

\* Policy.Validate: a breached rule and an incomplete scan warn or fail.
ASSUME PoliciesAssumption ==
    \A p \in Policies : /\ p.incomplete \in {"warn", "fail"}
                        /\ \A r \in p.rules : r.level \in {"warn", "fail"}

VARIABLES
    attr,      \* what each finding is
    status,    \* the status of each finding
    issues,    \* correlated_issues with their members
    links,     \* finding_links
    image,     \* the inventory of the latest image scan
    job,       \* the analysis after each scan
    policy,    \* the project's security policy
    humans,    \* status changes people have made
    exact      \* the scan whose correlation ran alone and is still current

vars == <<attr, status, issues, links, image, job, policy, humans, exact>>

-----------------------------------------------------------------------------
(* Correlation *)

Live == {"open", "reopened", "acknowledged", "in_progress"}
Dismissed == {"resolved", "false_positive", "ignored"}
HumanSettable == {"open", "acknowledged", "in_progress", "false_positive", "ignored"}
Verdicts == {"pass", "warn", "fail"}

Rank(sev) ==
    [critical |-> 5, high |-> 4, medium |-> 3, unknown |-> 2, low |-> 1, info |-> 0][sev]

\* keysOf: an attribute that is missing is not a key.
KeysOf(f) ==
    {k \in {<<"cve", attr[f].cve>>, <<"purl", attr[f].purl>>} : k[2] # "none"}
        \union {<<"file", p>> : p \in attr[f].files}

Bucket(key, subjects) == {f \in subjects : key \in KeysOf(f)}

\* A bucket over the cap keeps its first members in fingerprint order.
Members(key, subjects) ==
    LET bucket == Bucket(key, subjects)
    IN  {f \in bucket : Cardinality({g \in bucket : g < f}) < MaxBucketSize}

Keys(subjects) == {k \in UNION {KeysOf(f) : f \in subjects} : Cardinality(Members(k, subjects)) >= 2}
Truncated(subjects) ==
    \E k \in UNION {KeysOf(f) : f \in subjects} : Members(k, subjects) # Bucket(k, subjects)

\* linkFor: what sharing one key says about a pair, and how strongly.  File
\* sharing counts only across categories.
Relation(key, f, g) ==
    CASE key[1] = "cve" -> [kind |-> "related", confidence |-> 3]
      [] key[1] = "purl" ->
           [kind |-> IF attr[f].category = attr[g].category
                          /\ attr[f].cve = "none" /\ attr[g].cve = "none"
                     THEN "likely_duplicate" ELSE "related", confidence |-> 2]
      [] key[1] = "file" /\ attr[f].category # attr[g].category
         -> [kind |-> "related", confidence |-> 1]
      [] OTHER -> [kind |-> "none", confidence |-> 0]

\* linkSet: a pair related by several keys appears once, with the strongest.
LinksOf(subjects) ==
    LET pairs == {p \in subjects \X subjects : p[1] < p[2]}
        found(p) == {Relation(k, p[1], p[2]) : k \in {x \in Keys(subjects) :
                        p[1] \in Members(x, subjects) /\ p[2] \in Members(x, subjects)}}
                    \ {[kind |-> "none", confidence |-> 0]}
    IN  {[pair |-> p, relation |-> CHOOSE r \in found(p) :
            \A q \in found(p) : q.confidence <= r.confidence] : p \in {q \in pairs : found(q) # {}}}

Categories(members) == {attr[f].category : f \in members}

Escalate(sev) ==
    [info |-> "low", low |-> "medium", medium |-> "high", high |-> "critical",
     critical |-> "critical", unknown |-> "unknown"][sev]

Worst(severities) == CHOOSE s \in severities : \A t \in severities : Rank(t) <= Rank(s)

\* issueSeverity: the worst member, one step up when domains corroborate.
IssueSeverity(members) ==
    LET worst == Worst({attr[f].severity : f \in members} \union {"info"})
    IN  IF Cardinality(Categories(members)) < 2 THEN worst ELSE Escalate(worst)

\* Mutant: a key that says nothing about deployment leaves the field empty.
DeploymentOfEmpty(key, artifact) ==
    CASE key[1] # "purl" -> ""
      [] key[1] = "purl" /\ key[2] \in artifact.purls -> "deployed"
      [] OTHER -> "unknown"

\* Mutant: what a truncated inventory does not list is not deployed.
DeploymentOfListed(key, artifact) ==
    IF key[1] # "purl" \/ ~artifact.found THEN "unknown"
    ELSE IF key[2] \in artifact.purls THEN "deployed" ELSE "not_deployed"

\* deploymentOf: only a complete inventory shows that a package is absent.
DeploymentOf(key, artifact) ==
    IF key[1] # "purl" \/ ~artifact.found THEN "unknown"
    ELSE IF key[2] \in artifact.purls THEN "deployed"
    ELSE IF artifact.complete THEN "not_deployed" ELSE "unknown"

\* formIssue: a file with findings of one category is no issue.
IssuesOf(subjects, artifact) ==
    {[key |-> k, members |-> Members(k, subjects),
      severity |-> IssueSeverity(Members(k, subjects)),
      deployment |-> DeploymentOf(k, artifact)] :
        k \in {x \in Keys(subjects) :
            x[1] = "file" => Cardinality(Categories(Members(x, subjects))) >= 2}}

-----------------------------------------------------------------------------
(* The risk engine: DefaultWeights, each table scaled to integers. *)

SeverityWeight(sev) ==
    [critical |-> 2000, high |-> 600, medium |-> 160, unknown |-> 100, low |-> 20, info |-> 1][sev]
ConfidenceWeight(c) == [high |-> 4, medium |-> 3, low |-> 2][c]
RaiseConfidence(c) == [low |-> "medium", medium |-> "high", high |-> "high"][c]

\* confidenceFactor: two reporters raise the confidence one step.
ConfidenceFactor(f) ==
    ConfidenceWeight(IF Cardinality(attr[f].sources) >= 2
                     THEN RaiseConfidence(attr[f].confidence) ELSE attr[f].confidence)

\* exploitabilityFactor: neutral without threat intelligence.
ExploitabilityFactor(f) == IF attr[f].epss = -1 THEN 2 ELSE 1 + attr[f].epss

\* effectiveSeverity, over the worst stored issue the finding is in.
EffectiveSeverity(f, stored) ==
    Worst({attr[f].severity} \union {i.severity : i \in {x \in stored : f \in x.members}})

\* scoreOne; exposure and criticality are the same factor for all findings.
RiskOf(f, stored) ==
    SeverityWeight(EffectiveSeverity(f, stored)) * ExploitabilityFactor(f) * ConfidenceFactor(f)

Risks(scored, stored) == [f \in scored |-> RiskOf(f, stored)]

\* Mutant: the mean of the live findings.
TotalMean(scored, stored) ==
    IF scored = {} THEN 0 ELSE SumFunction(Risks(scored, stored)) \div Cardinality(scored)

\* aggregate: the worst finding plus a discounted tail, times 100.
Total(scored, stored) ==
    LET risks == Risks(scored, stored)
        most == Max(Range(risks))
    IN  IF scored = {} THEN 0 ELSE 100 * most + 15 * (SumFunction(risks) - most)

-----------------------------------------------------------------------------
(* The gate: policies.InputFrom and Evaluate. *)

\* Mutant: an ignored finding still counts.
CountedIgnored == {f \in Findings : status[f] \notin {"none", "resolved", "false_positive"}}

\* What risk.Assess, policies.InputFrom and remediation.Build count, each with
\* its own list of dismissed statuses.
Scored == {f \in Findings : status[f] \notin Dismissed \union {"none"}}
Counted == {f \in Findings : status[f] \notin {"none", "resolved", "false_positive", "ignored"}}

Observe(rule, counted, total) ==
    CASE rule.kind = "severity_count" -> Cardinality({f \in counted : attr[f].severity = rule.selector})
      [] rule.kind = "category_count" -> Cardinality({f \in counted : attr[f].category = rule.selector})
      [] rule.kind = "risk_score" -> total

Breached(p, counted, total) == {r \in p.rules : Observe(r, counted, total) > r.max}

VerdictRank(v) == [pass |-> 0, warn |-> 1, fail |-> 2][v]

\* Mutant: the incomplete scan is judged by the rules alone.
EvaluateRules(p, counted, total, complete) ==
    LET levels == {"pass"} \union {r.level : r \in Breached(p, counted, total)}
    IN  CHOOSE v \in levels : \A w \in levels : VerdictRank(w) <= VerdictRank(v)

Evaluate(p, counted, total, complete) ==
    LET levels == {"pass"} \union {r.level : r \in Breached(p, counted, total)}
                           \union (IF complete THEN {} ELSE {p.incomplete})
    IN  CHOOSE v \in levels : \A w \in levels : VerdictRank(w) <= VerdictRank(v)

-----------------------------------------------------------------------------
(* Remediation *)

\* kindFor: what a finding asks for, by its category and whether a fix exists.
KindFor(f) ==
    CASE attr[f].category \in {"dependency", "container"} ->
           IF attr[f].fixed THEN "upgrade" ELSE "no_fix_available"
      [] attr[f].category = "license" -> "review_license"
      [] attr[f].category = "secrets" -> "rotate_credential"
      [] attr[f].category = "iac" -> "reconfigure"
      [] OTHER -> "change_code"

\* componentFor: a package is the unit of work, by its package URL or else by its
\* name; failing that the finding itself is.
ComponentFor(f) ==
    LET named == {c \in {attr[f].purl, attr[f].package} : c # "none"} IN
    IF KindFor(f) \notin {"upgrade", "no_fix_available", "review_license"} \/ named = {} THEN f
    ELSE IF attr[f].purl # "none" THEN attr[f].purl ELSE attr[f].package

ActionFor(f) == <<KindFor(f), ComponentFor(f)>>

\* BuildWith: one action per key, with the total that is left without it.
Plan(live, stored) ==
    {LET members == {f \in live : ActionFor(f) = key}
     IN  [key |-> key, members |-> members, after |-> Total(live \ members, stored)] :
        key \in {ActionFor(f) : f \in live}}

-----------------------------------------------------------------------------
(* The state machine. *)

NoArtifact == [found |-> FALSE, purls |-> {}, complete |-> FALSE, settled |-> TRUE]
IdleJob == [pc |-> "idle", subjects |-> {}, artifact |-> NoArtifact, alone |-> FALSE,
            cleared |-> {}, unlinked |-> {}, scored |-> {}, counted |-> {}, total |-> 0,
            complete |-> FALSE, verdict |-> "none"]
Correlating == {"artifact", "clear", "commit"}

TypeOK ==
    /\ attr \in Catalogues
    /\ status \in [Findings -> Live \union Dismissed \union {"none"}]
    /\ \A i \in issues : /\ i.by \in Scans
                         /\ i.issue.severity \in Severities
                         /\ i.issue.members \in SUBSET Findings
                         /\ i.issue.deployment \in {"unknown", "deployed", "not_deployed"}
    /\ \A l \in links : l.by \in Scans /\ l.link.pair \in Findings \X Findings
    /\ image \in [stage : {"none", "inventory", "recorded"}, truncated : BOOLEAN]
    /\ \A s \in Scans : /\ job[s].pc \in {"idle", "list", "score", "gate", "done"} \union Correlating
                        /\ job[s].verdict \in Verdicts \union {"none"}
                        /\ job[s].total \in Nat
    /\ policy \in Policies
    /\ humans \in 0..MaxHuman
    /\ exact \in Scans \union {NoScan}

Init ==
    /\ attr \in Catalogues
    /\ status = [f \in Findings |-> "none"]
    /\ issues = {}
    /\ links = {}
    /\ image = [stage |-> "none", truncated |-> FALSE]
    /\ job = [s \in Scans |-> IdleJob]
    /\ policy \in Policies
    /\ humans = 0
    /\ exact = NoScan

\* Something a correlation reads changed: none under way is exact any more.
Stale ==
    /\ exact' = NoScan
    /\ job' = [s \in Scans |-> [job[s] EXCEPT !.alone = FALSE]]

\* RecordScan, as FindingLifecycle shows it from outside.
RecordScan(s, seen) ==
    /\ job[s].pc = "idle"
    /\ status' = [f \in Findings |->
         CASE f \in seen /\ status[f] = "none" -> "open"
           [] f \in seen /\ status[f] = "resolved" -> "reopened"
           [] f \notin seen /\ status[f] \in {"open", "reopened"} -> "resolved"
           [] OTHER -> status[f]]
    /\ exact' = NoScan
    /\ job' = [t \in Scans |-> [job[t] EXCEPT !.alone = FALSE, !.pc = IF t = s THEN "list" ELSE @]]
    /\ UNCHANGED <<attr, issues, links, image, policy, humans>>

\* ListLiveForCorrelation.
ListLive(s) ==
    LET others == {t \in Scans \ {s} : job[t].pc \in Correlating} IN
    /\ job[s].pc = "list"
    /\ job' = [t \in Scans |->
         IF t = s THEN [job[s] EXCEPT !.pc = "artifact", !.alone = (others = {}),
                          !.subjects = {f \in Findings : status[f] \in Live}]
         ELSE [job[t] EXCEPT !.alone = FALSE]]
    /\ UNCHANGED <<attr, status, issues, links, image, policy, humans, exact>>

\* ArtifactFor: the latest image scan with an inventory; complete unless a
\* recorded result of that scan says that the inventory was truncated.
ArtifactFor ==
    [found |-> image.stage # "none",
     purls |-> IF image.stage = "none" THEN {} ELSE IF image.truncated THEN Listed ELSE Image,
     complete |-> image.stage # "none" /\ ~(image.stage = "recorded" /\ image.truncated),
     settled |-> image.stage # "inventory"]

ReadArtifact(s) ==
    /\ job[s].pc = "artifact"
    /\ job' = [job EXCEPT ![s].pc = "clear", ![s].artifact = ArtifactFor]
    /\ UNCHANGED <<attr, status, issues, links, image, policy, humans, exact>>

\* The inventory cannot be read: correlated without deployment evidence.
ArtifactUnread(s) ==
    /\ job[s].pc = "artifact"
    /\ job' = [job EXCEPT ![s].pc = "clear", ![s].artifact = NoArtifact, ![s].alone = FALSE]
    /\ UNCHANGED <<attr, status, issues, links, image, policy, humans, exact>>

\* Mutant: only the issues that are written again are replaced.
ClearOverlap(s) ==
    /\ job[s].pc = "clear"
    /\ job' = [job EXCEPT ![s].pc = "commit", ![s].unlinked = links,
         ![s].cleared = {i \in issues : \E n \in IssuesOf(job[s].subjects, job[s].artifact) : n.key = i.issue.key}]
    /\ UNCHANGED <<attr, status, issues, links, image, policy, humans, exact>>

\* ReplaceCorrelation: its DELETEs see the rows committed when they start.
Clear(s) ==
    /\ job[s].pc = "clear"
    /\ job' = [job EXCEPT ![s].pc = "commit", ![s].cleared = issues, ![s].unlinked = links]
    /\ UNCHANGED <<attr, status, issues, links, image, policy, humans, exact>>

\* insertLink skips a link that is there already, whatever its confidence.
Conflicts(l, linked) ==
    \E o \in linked : o.link.pair = l.pair /\ o.link.relation.kind = l.relation.kind

\* Mutant: the key of an issue is not unique.
CommitTwice(s) ==
    LET kept == issues \ job[s].cleared
        linked == links \ job[s].unlinked
        new == IssuesOf(job[s].subjects, job[s].artifact)
    IN
    /\ job[s].pc = "commit"
    /\ issues' = kept \union {[by |-> s, artifact |-> job[s].artifact, issue |-> n] : n \in new}
    /\ links' = linked \union {[by |-> s, link |-> l] : l \in LinksOf(job[s].subjects)}
    /\ exact' = IF job[s].alone THEN s ELSE NoScan
    /\ job' = [job EXCEPT ![s] = [IdleJob EXCEPT !.pc = "score"]]
    /\ UNCHANGED <<attr, status, image, policy, humans>>

\* Its INSERTs and commit.  An issue key somebody else committed meanwhile is a
\* unique violation that rolls all of it back; such a link is skipped.
Commit(s) ==
    LET kept == issues \ job[s].cleared
        linked == links \ job[s].unlinked
        new == IssuesOf(job[s].subjects, job[s].artifact)
        fresh == {l \in LinksOf(job[s].subjects) : ~Conflicts(l, linked)}
    IN
    /\ job[s].pc = "commit"
    /\ IF \E o \in kept, n \in new : o.issue.key = n.key
       THEN UNCHANGED <<issues, links, exact>>
       ELSE /\ issues' = kept \union {[by |-> s, artifact |-> job[s].artifact, issue |-> n] : n \in new}
            /\ links' = linked \union {[by |-> s, link |-> l] : l \in fresh}
            /\ exact' = IF job[s].alone THEN s ELSE NoScan
    /\ job' = [job EXCEPT ![s] = [IdleJob EXCEPT !.pc = "score"]]
    /\ UNCHANGED <<attr, status, image, policy, humans>>

\* Listing the findings or replacing the correlation fails: logged, and the
\* scan is scored all the same.
CorrelateFails(s) ==
    /\ job[s].pc \in {"list", "clear", "commit"}
    /\ job' = [job EXCEPT ![s] = [IdleJob EXCEPT !.pc = "score"]]
    /\ UNCHANGED <<attr, status, issues, links, image, policy, humans, exact>>

Stored == {i.issue : i \in issues}

\* LoadRiskInputs, Assess and SaveRiskScore.  The gate is given the subjects
\* loaded here, not the findings as they are when it runs.
Score(s) ==
    /\ job[s].pc = "score"
    /\ job' = [job EXCEPT ![s].pc = "gate", ![s].scored = Scored, ![s].counted = Counted,
                          ![s].total = Total(Scored, Stored)]
    /\ UNCHANGED <<attr, status, issues, links, image, policy, humans, exact>>

\* No score, no verdict.
ScoreFails(s) ==
    /\ job[s].pc = "score"
    /\ job' = [job EXCEPT ![s].pc = "done"]
    /\ UNCHANGED <<attr, status, issues, links, image, policy, humans, exact>>

\* Runner.gate: load the policy, evaluate, save the result.
Gate(s, complete) ==
    /\ job[s].pc = "gate"
    /\ job' = [job EXCEPT ![s].pc = "done", ![s].complete = complete,
         ![s].verdict = Evaluate(policy, job[s].counted, job[s].total, complete)]
    /\ UNCHANGED <<attr, status, issues, links, image, policy, humans, exact>>

\* The policy cannot be loaded or the result cannot be saved: no verdict.
GateFails(s) ==
    /\ job[s].pc = "gate"
    /\ job' = [job EXCEPT ![s].pc = "done"]
    /\ UNCHANGED <<attr, status, issues, links, image, policy, humans, exact>>

\* An image scan of the project: recordInventory stores the components, and
\* RecordScannerResult stores the degradation afterwards.
RecordInventory(truncated) ==
    /\ image.stage = "none"
    /\ image' = [stage |-> "inventory", truncated |-> truncated]
    /\ Stale
    /\ UNCHANGED <<attr, status, issues, links, policy, humans>>

RecordScannerResult ==
    /\ image.stage = "inventory"
    /\ image' = [image EXCEPT !.stage = "recorded"]
    /\ Stale
    /\ UNCHANGED <<attr, status, issues, links, policy, humans>>

\* A person judges a finding; nothing is derived again until the next scan.
Transition(f, to) ==
    /\ humans < MaxHuman
    /\ status[f] # "none"
    /\ to \in HumanSettable
    /\ to # status[f]
    /\ status' = [status EXCEPT ![f] = to]
    /\ humans' = humans + 1
    /\ Stale
    /\ UNCHANGED <<attr, issues, links, image, policy>>

Next ==
    \/ \E s \in Scans : \/ \E seen \in Reports : RecordScan(s, seen)
                        \/ ListLive(s) \/ ReadArtifact(s) \/ ArtifactUnread(s) \/ Clear(s) \/ Commit(s)
                        \/ CorrelateFails(s) \/ Score(s) \/ ScoreFails(s)
                        \/ \E complete \in BOOLEAN : Gate(s, complete)
                        \/ GateFails(s)
    \/ (\E truncated \in BOOLEAN : RecordInventory(truncated)) \/ RecordScannerResult
    \/ \E f \in Findings, to \in Live \union Dismissed : Transition(f, to)

Spec == Init /\ [][Next]_vars

-----------------------------------------------------------------------------

\* Replace rather than merge (ReplaceCorrelation): when a correlation ran with
\* no other beside it and nothing it reads has changed since, what is stored is
\* what the engine makes of the live findings, and nothing older lingers.
ExactWhenAlone ==
    exact # NoScan =>
        LET live == {f \in Findings : status[f] \in Live} IN
        /\ Stored = IssuesOf(live, ArtifactFor)
        /\ {l.link : l \in links} = LinksOf(live)

\* However correlations overlap, an issue is stored once per key, and each one
\* is whole: it is what one correlation made of one view of the findings.
IssuesAreWhole ==
    /\ \A i, o \in issues : i.issue.key = o.issue.key => i = o
    /\ \A i \in issues : Cardinality(i.issue.members) >= 2
                         /\ \A f \in i.issue.members : i.issue.key \in KeysOf(f)

\* What ReplaceCorrelation stores makes sense however correlations overlap, and
\* is exactly the engine's result when they do not.
IssuesAreCoherent == TypeOK /\ IssuesAreWhole /\ ExactWhenAlone

\* "Adding any finding never lowers the project score" (risk-engine.md), also
\* through the issues it joins: correlating and scoring without one of the live
\* findings never gives more.  This leaves out two cases in which it does: a
\* bucket over the cap, and a finding of unknown severity, which outranks the
\* low and info members of an issue across categories and is not escalated.
RiskIsMonotone ==
    \A s \in Scans : job[s].pc = "list" =>
        LET live == {f \in Findings : status[f] \in Live}
            risk(subjects) == Total(subjects, IssuesOf(subjects, NoArtifact))
        IN  Truncated(live) \/ \A f \in live :
                attr[f].severity # "unknown" => risk(live \ {f}) <= risk(live)

\* The score, the gate and the plan are about the same findings, although each
\* has its own list of dismissed statuses; and the actions of the plan split
\* them, none leaving more risk than there was.
JudgedTogether ==
    /\ \A s \in Scans : job[s].pc \in {"gate", "done"} => job[s].scored = job[s].counted
    /\ LET plan == Plan(Scored, Stored) IN
       /\ UNION {a.members : a \in plan} = Scored
       /\ \A a, b \in plan : a = b \/ a.members \intersect b.members = {}
       /\ \A a \in plan : a.after <= Total(Scored, Stored)

\* A PASS was given to a complete scan, and no rule of the policy is breached
\* by the findings and the score saved for that scan, however statuses and
\* issues change while it is scored and judged.
PassWasEarned ==
    \A s \in Scans : job[s].verdict = "pass" =>
        job[s].complete /\ Breached(policy, job[s].scored, job[s].total) = {}

\* "Not deployed" is never concluded from an inventory known to be incomplete
\* (deploymentOf); the claim may be wrong only when it was made between the
\* image scan's storing its components and its storing their truncation.
AbsentIsKnown ==
    \A i \in issues : i.issue.deployment = "not_deployed" =>
        /\ i.artifact.found /\ i.artifact.complete
        /\ i.artifact.settled => i.artifact.purls = Image
=============================================================================
