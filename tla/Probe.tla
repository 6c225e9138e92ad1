-------------------------------- MODULE Probe --------------------------------
(***************************************************************************)
(* The HTTP probe (internal/scanners/httpprobe): an adapter that asks a    *)
(* live site up to eight questions over a network that may fail between    *)
(* any two of them, stores a record of the answers, and later reads the    *)
(* record back into findings.  The site is fixed for one scan and only     *)
(* partly visible: what the properties compare is what the site does with  *)
(* what the scan claims about it.                                          *)
(***************************************************************************)
EXTENDS Naturals, Sequences, FiniteSets

CONSTANTS
    Sites,         \* the sites a scan may meet, records as in SiteType
    MaxRedirects,  \* maxRedirects: the hops findPage follows
    MaxFaults      \* bound: disturbed requests per scan

Schemes == {"http", "https"}
Kinds == {"unknown_origin", "preflight", "lookalike_origin", "null_origin"}

\* Where a redirect points; host "none" is a redirect no browser follows.
Places == [host : {"apex", "www", "elsewhere", "none"}, scheme : Schemes]

\* chain: the redirects in front of the page.  trusts: the origins the page
\* echoes ("any" includes all others).  edge: the redirects echo any origin.
\* page: the page, or an error where it should be.  options: preflights are
\* handled.  plain: what port 80 of an HTTPS site does.
SiteType ==
    [scheme : Schemes, named : BOOLEAN, chain : Seq(Places),
     trusts : SUBSET {"any", "preflight", "lookalike_origin", "null_origin"},
     credentials : BOOLEAN, edge : BOOLEAN, page : {"ok", "not_found"}, options : BOOLEAN,
     permanent : BOOLEAN,
     plain : {"closed", "filtered", "upgrade", "stays_plain", "served", "error", "unfollowable"}]

\* lookalikeOrigin: an address that is no name has no lookalike to trust.
ASSUME ProbeAssumption ==
    /\ MaxRedirects \in Nat /\ MaxFaults \in Nat
    /\ \A s \in Sites : s \in SiteType /\ ("lookalike_origin" \in s.trusts => s.named)

VARIABLES
    site,      \* the site
    pc,        \* the next question
    at,        \* where findPage has got to, and after how many hops
    probes,    \* the CORS answers, by kind of question
    redirect,  \* the answer to the plain-HTTP question
    sent,      \* requests made
    ctx,       \* the scan's context
    faults,    \* disturbed requests so far
    outcome    \* what Scan returned

vars == <<site, pc, at, probes, redirect, sent, ctx, faults, outcome>>

Failures == {"blocked", "refused", "filtered", "connect_timeout", "timeout", "network",
             "invalid_status"}
Statuses == {"none", "ok", "not_found", "not_ready", "not_implemented", "error", "moved",
             "moved_for_now", "unfollowable"}

Unasked == [failure |-> "unasked", status |-> "none", origin |-> "none", credentials |-> FALSE]
Failed(f) == [failure |-> f, status |-> "none", origin |-> "none", credentials |-> FALSE]
NotReady == [failure |-> "", status |-> "not_ready", origin |-> "other", credentials |-> FALSE]

ProbeType ==
    [failure : Failures \union {"", "unasked"}, status : Statuses,
     origin : {"none", "reflected", "other"}, credentials : BOOLEAN]
RedirectType ==
    [failure : Failures \union {"", "unasked"}, status : Statuses,
     location : {"none", "http", "https"}]

TypeOK ==
    /\ site \in Sites
    /\ pc \in Kinds \union {"plain", "judge", "done"}
    /\ at \in [place : Places, hops : 0..MaxRedirects]
    /\ probes \in [Kinds -> ProbeType]
    /\ redirect \in RedirectType
    /\ sent \subseteq [host : {"apex", "www", "elsewhere"}, scheme : Schemes, secret : BOOLEAN]
    /\ ctx \in {"live", "deadline", "canceled"}
    /\ faults \in 0..MaxFaults
    /\ outcome \in [error : {"none", "", "timeout", "cancelled", "blocked", "unreachable"},
                    degraded : BOOLEAN, stored : BOOLEAN]

\* parseEndpoint leaves the target with its path and query.
Init ==
    /\ site \in Sites
    /\ pc = "unknown_origin"
    /\ at = [place |-> [host |-> "apex", scheme |-> site.scheme], hops |-> 0]
    /\ probes = [k \in Kinds |-> Unasked]
    /\ redirect = [failure |-> "unasked", status |-> "none", location |-> "none"]
    /\ sent = {}
    /\ ctx = "live"
    /\ faults = 0
    /\ outcome = [error |-> "none", degraded |-> FALSE, stored |-> FALSE]

-----------------------------------------------------------------------------
(* The site and the network *)

OnPage == at.hops = Len(site.chain)
Ahead == site.chain[at.hops + 1]

\* What a redirect answers: its own headers, not the page's.
MovedStatus(place, permanent) ==
    IF place.host = "none" THEN "unfollowable" ELSE IF permanent THEN "moved" ELSE "moved_for_now"

Echoes(kind) ==
    IF ~OnPage THEN site.edge
    ELSE "any" \in site.trusts \/ (kind \in site.trusts /\ (kind = "preflight" => site.options))

\* The undisturbed answer to a CORS question here.
Reply(kind) ==
    [failure |-> "",
     status |-> IF ~OnPage THEN MovedStatus(Ahead, site.permanent)
                ELSE IF kind = "preflight" /\ ~site.options THEN "not_implemented"
                ELSE site.page,
     origin |-> IF Echoes(kind) THEN "reflected" ELSE "other",
     credentials |-> site.credentials]

\* The undisturbed answer over plain HTTP; a plain target answers for itself.
PlainReply ==
    IF site.scheme = "http"
      THEN IF site.chain = <<>>
             THEN [failure |-> "", location |-> "none",
                   status |-> IF site.page = "ok" THEN "ok" ELSE "error"]
             ELSE [failure |-> "", location |-> site.chain[1].scheme,
                   status |-> MovedStatus(site.chain[1], site.permanent)]
      ELSE CASE site.plain = "closed" -> [failure |-> "refused", location |-> "none", status |-> "none"]
             [] site.plain = "filtered" ->
                  [failure |-> "connect_timeout", location |-> "none", status |-> "none"]
             [] site.plain = "upgrade" ->
                  [failure |-> "", location |-> "https",
                   status |-> IF site.permanent THEN "moved" ELSE "moved_for_now"]
             [] site.plain = "stays_plain" ->
                  [failure |-> "", location |-> "http", status |-> "moved"]
             [] site.plain = "served" -> [failure |-> "", location |-> "none", status |-> "ok"]
             [] site.plain = "error" -> [failure |-> "", location |-> "none", status |-> "error"]
             [] site.plain = "unfollowable" ->
                  [failure |-> "", location |-> "none", status |-> "unfollowable"]

\* send through classifyFailure: what may come back instead.  "blocked" is the
\* address policy refusing what a name resolves to this time, "invalid_status"
\* a status isFinalStatus refuses.
Disturbances == {"blocked", "refused", "connect_timeout", "timeout", "network", "invalid_status"}

\* Once the context has ended every request fails with it.
Lost == IF ctx = "deadline" THEN "timeout" ELSE "network"

\* The answers a request may get, and whether it was disturbed; failed is how
\* the asker notes each failure.
Answers(undisturbed, failed, notReady) ==
    IF ctx # "live" THEN {<<failed[Lost], 0>>}
    ELSE {<<undisturbed, 0>>} \union
         IF faults = MaxFaults THEN {}
         ELSE {<<failed[f], 1>> : f \in Disturbances} \union {<<notReady, 1>>}

\* Mutant: a status nobody can read is kept beside the failure.
AskKeepingStatus(kind) ==
    Answers(Reply(kind),
            [f \in Disturbances |-> [Failed(f) EXCEPT !.status = IF f = "invalid_status" THEN "error" ELSE @]],
            NotReady)

\* ask: a failure carries no answer.
Ask(kind) ==
    Answers(Reply(kind), [f \in Disturbances |-> Failed(f)], NotReady)

\* The scan's deadline passes, or the job is cancelled, between two requests.
ContextEnds ==
    /\ ctx = "live" /\ pc # "done"
    /\ ctx' \in {"deadline", "canceled"}
    /\ UNCHANGED <<site, pc, at, probes, redirect, sent, faults, outcome>>

-----------------------------------------------------------------------------
(* checkCORS *)

IsFollowableRedirect(status) == status \in {"moved", "moved_for_now"}
IsRedirect(status) == IsFollowableRedirect(status) \/ status = "unfollowable"
IsNotReady(status) == status \in {"not_ready", "not_implemented"}

SameSite(host) == host \in {"apex", "www"}

\* Mutant: a redirect is followed wherever it leads.
NextHopAnywhere(next) == next.host # "none"

\* nextHop: on the site, and never from HTTPS down to plain HTTP.
NextHop(next) ==
    /\ SameSite(next.host)
    /\ ~(at.place.scheme = "https" /\ next.scheme = "http")

\* A CORS question carries the target's query, or the Location's own.
Request(secret) == [host |-> at.place.host, scheme |-> at.place.scheme, secret |-> secret]

\* Mutant: the last hop is not counted.
MayFollowOneMore(base) ==
    /\ base.failure = "" /\ base.origin # "reflected"
    /\ IsFollowableRedirect(base.status)
    /\ at.hops <= MaxRedirects /\ NextHop(Ahead)

MayFollow(base) ==
    /\ base.failure = "" /\ base.origin # "reflected"
    /\ IsFollowableRedirect(base.status)
    /\ at.hops < MaxRedirects /\ NextHop(Ahead)

\* findPage: one hop, or the base answer.
FindPage ==
    /\ pc = "unknown_origin"
    /\ sent' = sent \union {Request(TRUE)}
    /\ \E a \in Ask("unknown_origin") :
         /\ faults' = faults + a[2]
         /\ LET base == a[1]
            IN  \/ /\ MayFollow(base)
                   /\ at' = [place |-> Ahead, hops |-> at.hops + 1]
                   /\ UNCHANGED <<pc, probes>>
                \/ /\ ~MayFollow(base)
                   /\ probes' = [probes EXCEPT !["unknown_origin"] = base]
                   /\ pc' = IF base.failure # "" \/ IsRedirect(base.status) THEN "plain" ELSE "preflight"
                   /\ UNCHANGED at
    /\ UNCHANGED <<site, redirect, ctx, outcome>>

\* The question after this one: a page that trusts anyone is asked no more, and
\* an address that is no name has no lookalike.
After(kind) ==
    CASE kind = "preflight" -> IF probes["unknown_origin"].origin = "reflected" THEN "plain"
                               ELSE IF site.named THEN "lookalike_origin" ELSE "null_origin"
      [] kind = "lookalike_origin" -> "null_origin"
      [] kind = "null_origin" -> "plain"

Question(kind) ==
    /\ pc = kind /\ kind # "unknown_origin"
    /\ sent' = sent \union {Request(TRUE)}
    /\ \E a \in Ask(kind) : probes' = [probes EXCEPT ![kind] = a[1]] /\ faults' = faults + a[2]
    /\ pc' = After(kind)
    /\ UNCHANGED <<site, at, redirect, ctx, outcome>>

-----------------------------------------------------------------------------
(* checkRedirect *)

Answered == probes["unknown_origin"].failure = ""

\* Mutant: a silent port is a finding whether or not the host was seen.
PlainFailureUnseen(f) ==
    IF site.scheme = "http" /\ f = "refused" THEN "network"
    ELSE IF f = "connect_timeout" THEN "filtered" ELSE f

\* A refusal says something only of an HTTPS target's plain port, and silence
\* there only once HTTPS has answered.
PlainFailure(f) ==
    IF site.scheme = "http" /\ f = "refused" THEN "network"
    ELSE IF site.scheme = "https" /\ Answered /\ f = "connect_timeout" THEN "filtered"
    ELSE f

PlainFailed(f) == [failure |-> f, status |-> "none", location |-> "none"]
PlainNotReady == [failure |-> "", status |-> "not_ready", location |-> "none"]

\* The answer as checkRedirect notes it.
Noted(r) == [failure |-> PlainFailure(r.failure), status |-> r.status, location |-> r.location]

\* plainURL: without the query, and for an HTTPS target without the path.
CheckRedirect ==
    /\ pc = "plain"
    /\ sent' = sent \union {[host |-> "apex", scheme |-> "http", secret |-> site.scheme = "http"]}
    /\ \E a \in Answers(PlainReply, [f \in Disturbances |-> PlainFailed(f)],
                        PlainNotReady) :
         /\ redirect' = Noted(a[1])
         /\ faults' = faults + a[2]
    /\ pc' = "judge"
    /\ UNCHANGED <<site, at, probes, ctx, outcome>>

-----------------------------------------------------------------------------
(* Scan's verdict *)

Asked == {k \in Kinds : probes[k].failure # "unasked"}

\* corsProbe.incomplete.
ProbeIncomplete(kind, p) ==
    \/ p.failure # ""
    \/ /\ p.origin # "reflected"
       /\ IF kind = "preflight" THEN p.status = "not_ready"
          ELSE IsRedirect(p.status) \/ IsNotReady(p.status) \/ p.status = "not_found"

\* Mutant: a redirect that was not followed counts as an answer.
CORSIncompleteRedirects ==
    \E k \in Asked : ProbeIncomplete(k, probes[k]) /\ ~IsRedirect(probes[k].status)

CORSIncomplete == \E k \in Asked : ProbeIncomplete(k, probes[k])

\* redirectObservation.incomplete: refused and filtered are conclusions.
RedirectIncomplete ==
    \/ redirect.failure \notin {"", "refused", "filtered"}
    \/ /\ redirect.failure = ""
       /\ \/ IsNotReady(redirect.status)
          \/ redirect.status = "unfollowable"
          \/ IsRedirect(redirect.status) /\ redirect.location = "none"

Blocked == redirect.failure = "blocked" \/ \E k \in Asked : probes[k].failure = "blocked"

\* Mutant: only the first question is asked whether it was blocked.
VerdictFirstProbe ==
    IF ctx = "deadline" THEN "timeout"
    ELSE IF ctx = "canceled" THEN "cancelled"
    ELSE IF probes["unknown_origin"].failure = "blocked" THEN "blocked"
    ELSE IF ~Answered /\ redirect.failure # "" THEN "unreachable"
    ELSE ""

Verdict ==
    IF ctx = "deadline" THEN "timeout"
    ELSE IF ctx = "canceled" THEN "cancelled"
    ELSE IF Blocked THEN "blocked"
    ELSE IF ~Answered /\ redirect.failure # "" THEN "unreachable"
    ELSE ""

\* Scan returns an error, or the record with what degrades it.
Judge ==
    /\ pc = "judge"
    /\ outcome' = [error |-> Verdict, stored |-> Verdict = "",
                   degraded |-> Verdict = "" /\ (CORSIncomplete \/ RedirectIncomplete)]
    /\ pc' = "done"
    /\ UNCHANGED <<site, at, probes, redirect, sent, ctx, faults>>

-----------------------------------------------------------------------------
(* Normalize: the stored record, read back *)

\* corsProbe.validate.
ValidProbe(p) ==
    IF p.failure # "" THEN p.status = "none" /\ p.origin = "none" /\ ~p.credentials
                           /\ p.failure \in Failures
    ELSE p.status # "none" /\ p.origin # "none"

\* corsObservation.validate.
ValidCORS ==
    /\ "unknown_origin" \in Asked
    /\ \A k \in Asked : ValidProbe(probes[k])
    /\ at.hops <= MaxRedirects

\* redirectObservation.validate.
ValidRedirect ==
    IF redirect.failure # ""
      THEN redirect.status = "none" /\ redirect.location = "none" /\ redirect.failure \in Failures
      ELSE redirect.status # "none"

Rule(name, credentials) == <<name, credentials>>

\* corsFindings: trust of any origin is one mistake, not three.
CORSFindings ==
    LET Trusts(k) == probes[k].origin = "reflected"
        found == {k \in {"unknown_origin", "preflight"} : Trusts(k)}
    IN  (IF found = {} THEN {} ELSE {Rule("reflected", \E k \in found : probes[k].credentials)})
        \union
        (IF Trusts("unknown_origin") THEN {}
         ELSE {Rule(k, probes[k].credentials) :
                 k \in {q \in {"lookalike_origin", "null_origin"} : Trusts(q)}})

\* redirectFinding.
RedirectFindings ==
    IF redirect.failure # "" THEN IF redirect.failure = "filtered" THEN {"port_unverified"} ELSE {}
    ELSE CASE redirect.status = "error" -> {"error_plain"}
           [] redirect.status = "ok" -> {"served_plain"}
           [] IsFollowableRedirect(redirect.status) /\ redirect.location = "http" -> {"stays_plain"}
           [] redirect.status = "moved_for_now" /\ redirect.location = "https" -> {"temporary"}
           [] OTHER -> {}

\* Normalize: a check whose half of the record is refused reports nothing.
CORSReported == IF ValidCORS THEN CORSFindings ELSE {}
PlainReported == IF ValidRedirect THEN RedirectFindings ELSE {}

-----------------------------------------------------------------------------

Next ==
    \/ FindPage \/ CheckRedirect \/ Judge \/ ContextEnds
    \/ \E kind \in Kinds : Question(kind)

Spec == Init /\ [][Next]_vars

-----------------------------------------------------------------------------
(* Properties *)

\* What is true of the site: the origins its page trusts, and its plain port.
TrueOfPage ==
    IF "any" \in site.trusts THEN {"reflected"}
    ELSE {k \in {"lookalike_origin", "null_origin"} : k \in site.trusts}
         \union (IF "preflight" \in site.trusts /\ site.options THEN {"reflected"} ELSE {})

TrueOfPlain ==
    IF site.scheme = "http"
      THEN IF site.chain = <<>> THEN {IF site.page = "ok" THEN "served_plain" ELSE "error_plain"}
           ELSE IF site.chain[1].host = "none" THEN {}
           ELSE IF site.chain[1].scheme = "http" THEN {"stays_plain"}
           ELSE IF site.permanent THEN {} ELSE {"temporary"}
      ELSE CASE site.plain = "served" -> {"served_plain"}
             [] site.plain = "error" -> {"error_plain"}
             [] site.plain = "stays_plain" -> {"stays_plain"}
             [] site.plain = "upgrade" -> IF site.permanent THEN {} ELSE {"temporary"}
             [] OTHER -> {}

Clean == outcome.stored /\ ~outcome.degraded

\* Silence is a pass only when every question was concluded: a scan that is
\* neither failed nor degraded missed nothing the site does, whatever the
\* network did in between.  A redirect that itself trusts any origin ends the
\* CORS questions, and is reported in the page's place.  A plain port that
\* refused or stayed silent when it was asked is taken at its word, and silence
\* is reported.  ADR 041 names what the probe cannot catch, and the disturbances
\* leave it out: a holding page that answers 200, and a 401 or 403 given before
\* CORS is looked at, are answers like any other.
SilenceIsEarned ==
    Clean =>
        /\ \/ TrueOfPage \subseteq {f[1] : f \in CORSReported}
           \/ /\ site.edge /\ site.chain # <<>>
              /\ "reflected" \in {f[1] : f \in CORSReported}
        /\ \/ TrueOfPlain \subseteq PlainReported
           \/ redirect.failure = "refused"
           \/ redirect.failure = "filtered" /\ PlainReported = {"port_unverified"}

\* What is reported is true: of the page, or of a redirect that itself echoed
\* the origin, and of the plain port; credentials are claimed only if sent, and
\* a port is called silent only on a host that answered over HTTPS.
ReportsAreTrue ==
    outcome.stored =>
        /\ \A f \in CORSReported :
             /\ \/ f[1] \in TrueOfPage
                \/ "any" \in site.trusts
                \/ site.edge /\ site.chain # <<>>
             /\ f[2] => site.credentials
        /\ PlainReported \subseteq
             TrueOfPlain \union (IF site.scheme = "https" /\ Answered THEN {"port_unverified"} ELSE {})

\* No request leaves the site, and none carries an HTTPS target's path and query
\* over plain HTTP, whatever the redirects say.
StaysOnSite ==
    \A r \in sent : SameSite(r.host) /\ (site.scheme = "https" /\ r.scheme = "http" => ~r.secret)

\* Nothing is stored once the address policy refused any request, nor when
\* nothing at all was answered.
StoredWasAnswered ==
    outcome.stored =>
        /\ \A k \in Kinds : probes[k].failure # "blocked"
        /\ redirect.failure # "blocked"
        /\ redirect.failure = "" \/ probes["unknown_origin"].failure = ""

\* What Scan stores, Normalize accepts: the writer never produces a record its
\* reader rejects, which would drop the findings of a whole check.
RecordIsReadable == outcome.stored => ValidCORS /\ ValidRedirect

\* What Scan stores was permitted, was answered and can be read back.
StoredIsSound == TypeOK /\ StoredWasAnswered /\ RecordIsReadable
=============================================================================
