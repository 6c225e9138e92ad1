----------------------------- MODULE MCAnalysis -----------------------------
EXTENDS Analysis, TLC

Finding(cve, purl, files, category, severity, fixed, sources, epss) ==
    [cve |-> cve, purl |-> purl, package |-> IF purl = "none" THEN "none" ELSE "lib",
     files |-> files, category |-> category,
     severity |-> severity, confidence |-> "medium", sources |-> sources,
     fixed |-> fixed, epss |-> epss]

Vulnerable == Finding("CVE-1", "pkg", {}, "dependency", "high", TRUE, {"grype", "trivy"}, 2)
InImage    == Finding("CVE-1", "pkg", {}, "container", "low", FALSE, {"trivy"}, -1)
Outdated   == Finding("none", "pkg", {"app.go"}, "dependency", "unknown", TRUE, {"grype"}, -1)
Pinned     == Finding("none", "pkg", {}, "dependency", "medium", FALSE, {"grype"}, -1)
Injected  == Finding("none", "none", {"app.go"}, "sast", "critical", FALSE, {"semgrep"}, -1)
\* A report that names its package without a package URL.
Bare(finding) == [finding EXCEPT !.purl = "none"]
Leaked     == Finding("none", "none", {"app.go"}, "secrets", "info", FALSE, {"gitleaks"}, -1)

\* The ways the three findings of a project may relate: the same vulnerability,
\* package or file, within and across categories, one bucket over the cap.
MCCatalogues ==
    {<<Vulnerable, InImage, Leaked>>, <<InImage, Pinned, Outdated>>,
     <<Vulnerable, Outdated, Injected>>, <<Bare(Pinned), Bare(InImage), Leaked>>}

MCPolicies ==
    {[rules |-> {[kind |-> "severity_count", selector |-> "critical", max |-> 0, level |-> "fail"],
                 [kind |-> "category_count", selector |-> "secrets", max |-> 0, level |-> "warn"],
                 [kind |-> "risk_score", selector |-> "none", max |-> 200000, level |-> "fail"]},
      incomplete |-> "warn"]}

Symmetry == Permutations(Scans)
=============================================================================
