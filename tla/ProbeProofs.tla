----------------------------- MODULE ProbeProofs -----------------------------
(***************************************************************************)
(* Proofs about the HTTP probe, for every set of sites, every number of    *)
(* redirects followed and of disturbed requests.                           *)
(***************************************************************************)
EXTENDS Probe, TLAPS

\* What a CORS question, and the plain-HTTP one, may have been answered.
Concluded(kind) == {Reply(kind), NotReady} \union {Failed(f) : f \in Disturbances}
PlainConcluded ==
    {PlainReply, PlainNotReady} \union {PlainFailed(f) : f \in Disturbances}

\* The hops of findPage stay on the site's chain, on the site, and on HTTPS.
PlaceInv ==
    /\ at.hops <= Len(site.chain)
    /\ SameSite(at.place.host)
    /\ site.scheme = "https" => at.place.scheme = "https"

\* The answers are answers of where findPage stopped.
AnswersInv ==
    \A k \in Kinds : probes[k] = Unasked \/ probes[k] \in Concluded(k)

Base == probes["unknown_origin"]

\* Which questions were asked when the scan is at pc.
OrderInv ==
    /\ pc = "unknown_origin" <=> "unknown_origin" \notin Asked
    /\ pc = "unknown_origin" => Asked = {}
    /\ pc \in Kinds \ {"unknown_origin"} => Base.failure = "" /\ ~IsRedirect(Base.status)
    /\ pc \in {"lookalike_origin", "null_origin"} =>
         Base.origin # "reflected" /\ "preflight" \in Asked
    /\ pc = "null_origin" /\ site.named => "lookalike_origin" \in Asked
    /\ pc \in {"plain", "judge", "done"} /\ Base.failure = "" /\ ~IsRedirect(Base.status) =>
         /\ "preflight" \in Asked
         /\ Base.origin # "reflected" =>
              /\ "null_origin" \in Asked
              /\ site.named => "lookalike_origin" \in Asked

RedirectInv ==
    pc \in {"judge", "done"} =>
        \E r \in PlainConcluded : redirect = Noted(r)

OutcomeInv ==
    /\ outcome.stored => pc = "done"
    /\ outcome.stored =>
         /\ ~Blocked
         /\ Answered \/ redirect.failure = ""
         /\ outcome.degraded <=> CORSIncomplete \/ RedirectIncomplete

ProbeInv ==
    TypeOK /\ PlaceInv /\ StaysOnSite /\ AnswersInv /\ OrderInv /\ RedirectInv /\ OutcomeInv

-----------------------------------------------------------------------------
(* What may be answered *)

LEMMA SiteFacts ==
  ASSUME TypeOK
  PROVE  /\ site \in SiteType
         /\ "lookalike_origin" \in site.trusts => site.named
  BY ProbeAssumption DEF TypeOK

LEMMA MovedStatusType ==
  ASSUME NEW place, NEW permanent
  PROVE  MovedStatus(place, permanent) \in {"unfollowable", "moved", "moved_for_now"}
  BY DEF MovedStatus

LEMMA ReplyType ==
  ASSUME TypeOK, NEW kind \in Kinds
  PROVE  /\ Reply(kind) \in ProbeType
         /\ Reply(kind).failure = ""
         /\ Reply(kind).status # "none"
         /\ Reply(kind).status = "not_ready" => FALSE
         /\ Reply(kind).origin = IF Echoes(kind) THEN "reflected" ELSE "other"
         /\ Reply(kind).credentials = site.credentials
         /\ ~OnPage => IsRedirect(Reply(kind).status)
         /\ OnPage => ~IsRedirect(Reply(kind).status)
         /\ OnPage => Reply(kind).status =
                IF kind = "preflight" /\ ~site.options THEN "not_implemented" ELSE site.page
  <1>1. site.page \in {"ok", "not_found"} /\ site.credentials \in BOOLEAN
    BY SiteFacts DEF SiteType
  <1>2. Reply(kind).failure = ""
    BY DEF Reply
  <1>3. Reply(kind).origin = IF Echoes(kind) THEN "reflected" ELSE "other"
    BY DEF Reply
  <1>4. Reply(kind).credentials = site.credentials
    BY DEF Reply
  <1>5. Reply(kind).status =
          IF ~OnPage THEN MovedStatus(Ahead, site.permanent)
          ELSE IF kind = "preflight" /\ ~site.options THEN "not_implemented" ELSE site.page
    BY DEF Reply
  <1>6. Reply(kind).status \in Statuses \ {"none", "not_ready"}
    BY <1>1, <1>5, MovedStatusType DEF Statuses
  <1>7. ~OnPage => IsRedirect(Reply(kind).status)
    BY <1>5, MovedStatusType DEF IsRedirect, IsFollowableRedirect
  <1>8. OnPage => ~IsRedirect(Reply(kind).status)
    BY <1>1, <1>5 DEF IsRedirect, IsFollowableRedirect
  <1>9. Reply(kind).origin \in {"none", "reflected", "other"} /\ "" \in Failures \union {"", "unasked"}
    BY <1>3
  <1>10. Reply(kind) = [failure |-> Reply(kind).failure, status |-> Reply(kind).status,
                        origin |-> Reply(kind).origin, credentials |-> Reply(kind).credentials]
    BY DEF Reply
  <1>11. Reply(kind) \in ProbeType
    BY <1>1, <1>2, <1>4, <1>6, <1>9, <1>10 DEF ProbeType
  <1>12. QED
    BY <1>2, <1>3, <1>4, <1>5, <1>6, <1>7, <1>8, <1>11

\* Every answer is one that corsProbe.validate accepts.
LEMMA ConcludedValid ==
  ASSUME TypeOK, NEW kind \in Kinds, NEW p \in Concluded(kind)
  PROVE  /\ p \in ProbeType
         /\ p.failure # "unasked"
         /\ ValidProbe(p)
  <1>1. CASE p = Reply(kind)
    BY <1>1, ReplyType DEF ValidProbe
  <1>2. CASE p = NotReady
    BY <1>2 DEF NotReady, ValidProbe, ProbeType, Statuses
  <1>3. CASE p \in {Failed(f) : f \in Disturbances}
    <2>1. PICK f \in Disturbances : p = Failed(f)
      BY <1>3
    <2>2. f \in Failures /\ f # "" /\ f # "unasked"
      BY DEF Disturbances, Failures
    <2>3. QED
      BY <2>1, <2>2 DEF Failed, ValidProbe, ProbeType, Statuses
  <1>4. QED
    BY <1>1, <1>2, <1>3 DEF Concluded

\* The network: an answer, or what stands for it, within the bound on faults.
LEMMA AnswersAre ==
  ASSUME TypeOK, NEW u, NEW failed, NEW n, NEW a \in Answers(u, failed, n)
  PROVE  /\ a[1] \in {u, n} \union {failed[f] : f \in Disturbances}
         /\ faults + a[2] \in 0..MaxFaults
  <1>1. faults \in 0..MaxFaults /\ MaxFaults \in Nat
    BY ProbeAssumption DEF TypeOK
  <1>2. Lost \in Disturbances
    BY DEF Lost, Disturbances
  <1>3. CASE a = <<failed[Lost], 0>>
    BY <1>1, <1>2, <1>3
  <1>4. CASE a = <<u, 0>>
    BY <1>1, <1>4
  <1>5. CASE faults # MaxFaults /\ a \in {<<failed[f], 1>> : f \in Disturbances}
    BY <1>1, <1>5
  <1>6. CASE faults # MaxFaults /\ a = <<n, 1>>
    BY <1>1, <1>6
  <1>7. QED
    BY <1>3, <1>4, <1>5, <1>6 DEF Answers

LEMMA AskConcludes ==
  ASSUME TypeOK, NEW kind \in Kinds, NEW a \in Ask(kind)
  PROVE  a[1] \in Concluded(kind) /\ faults + a[2] \in 0..MaxFaults
  <1> DEFINE failed == [f \in Disturbances |-> Failed(f)]
  <1>1. a \in Answers(Reply(kind), failed, NotReady)
    BY DEF Ask
  <1>2. {failed[f] : f \in Disturbances} = {Failed(f) : f \in Disturbances}
    OBVIOUS
  <1> HIDE DEF failed
  <1>3. a[1] \in {Reply(kind), NotReady} \union {failed[f] : f \in Disturbances}
    BY <1>1, AnswersAre
  <1>4. faults + a[2] \in 0..MaxFaults
    BY <1>1, AnswersAre
  <1>5. QED
    BY <1>2, <1>3, <1>4 DEF Concluded

LEMMA FirstHop ==
  ASSUME TypeOK, site.chain # <<>>
  PROVE  site.chain[1].scheme \in {"http", "https"}
  <1>1. site.chain \in Seq(Places)
    BY SiteFacts DEF SiteType
  <1>2. Len(site.chain) \in Nat /\ Len(site.chain) # 0
    BY <1>1
  <1>3. site.chain[1] \in Places
    BY <1>1, <1>2
  <1>4. QED
    BY <1>3 DEF Places, Schemes

LEMMA PlainReplyType ==
  ASSUME TypeOK
  PROVE  /\ PlainReply \in RedirectType
         /\ PlainReply.failure \in {"", "refused", "connect_timeout"}
         /\ PlainReply.failure = "" <=> PlainReply.status # "none"
         /\ PlainReply.failure # "" => PlainReply.location = "none"
         /\ PlainReply.status # "not_ready"
  <1>1. /\ site.page \in {"ok", "not_found"}
        /\ site.scheme \in Schemes /\ site.chain \in Seq(Places)
        /\ site.plain \in {"closed", "filtered", "upgrade", "stays_plain", "served", "error",
                           "unfollowable"}
    BY SiteFacts DEF SiteType
  <1>2. CASE site.scheme = "http" /\ site.chain = <<>>
    BY <1>1, <1>2 DEF PlainReply, RedirectType, Statuses
  <1>3. CASE site.scheme = "http" /\ site.chain # <<>>
    <2>1. site.chain[1].scheme \in {"http", "https"}
      BY <1>3, FirstHop
    <2>2. PlainReply = [failure |-> "", location |-> site.chain[1].scheme,
                        status |-> MovedStatus(site.chain[1], site.permanent)]
      BY <1>3 DEF PlainReply
    <2>3. QED
      BY <2>1, <2>2, MovedStatusType DEF RedirectType, Statuses
  <1>4. CASE site.scheme # "http"
    BY <1>1, <1>4 DEF PlainReply, RedirectType, Statuses, Failures
  <1>5. QED
    BY <1>2, <1>3, <1>4

LEMMA PlainFailedFails ==
  ASSUME NEW r \in {PlainFailed(f) : f \in Disturbances}
  PROVE  r.failure # ""
  <1>1. PICK f \in Disturbances : r = PlainFailed(f)
    OBVIOUS
  <1>2. r.failure = f
    BY <1>1 DEF PlainFailed
  <1>3. QED
    BY <1>2 DEF Disturbances

LEMMA NotedType ==
  ASSUME TypeOK, NEW r \in PlainConcluded
  PROVE  /\ Noted(r) \in RedirectType
         /\ r.failure \in Failures \union {""}
         /\ r.failure # "" => r.status = "none" /\ r.location = "none"
         /\ r.failure = "" => r.status # "none"
         /\ Noted(r).failure \in Failures \union {""}
         /\ Noted(r).failure = "" <=> r.failure = ""
         /\ Noted(r).status = r.status /\ Noted(r).location = r.location
  <1>1. /\ r \in RedirectType
        /\ r.failure \in Failures \union {""}
        /\ r.failure # "" => r.status = "none" /\ r.location = "none"
        /\ r.failure = "" => r.status # "none"
    <2>1. CASE r = PlainReply
      <3>1. "refused" \in Failures /\ "connect_timeout" \in Failures
        BY DEF Failures
      <3>2. QED
        BY <2>1, <3>1, PlainReplyType
    <2>2. CASE r = PlainNotReady
      BY <2>2 DEF PlainNotReady, RedirectType, Statuses
    <2>3. CASE r \in {PlainFailed(f) : f \in Disturbances}
      <3>1. PICK f \in Disturbances : r = PlainFailed(f)
        BY <2>3
      <3>2. f \in Failures /\ f # ""
        BY DEF Disturbances, Failures
      <3>3. QED
        BY <3>1, <3>2 DEF PlainFailed, RedirectType, Statuses
    <2>4. QED
      BY <2>1, <2>2, <2>3 DEF PlainConcluded
  <1>2. /\ PlainFailure(r.failure) \in Failures \union {""}
        /\ PlainFailure(r.failure) = "" <=> r.failure = ""
    BY <1>1 DEF PlainFailure, Failures
  <1>3. /\ Noted(r).failure = PlainFailure(r.failure)
        /\ Noted(r).status = r.status /\ Noted(r).location = r.location
    BY DEF Noted
  <1>4. r.status \in Statuses /\ r.location \in {"none", "http", "https"}
    BY <1>1 DEF RedirectType
  <1>5. Noted(r) \in RedirectType
    BY <1>2, <1>4 DEF Noted, RedirectType
  <1>6. QED
    BY <1>1, <1>2, <1>3, <1>5

-----------------------------------------------------------------------------
(* The inductive invariant *)

LEMMA AskedAre ==
  ASSUME ProbeInv, NEW k \in Kinds
  PROVE  /\ k \notin Asked <=> probes[k] = Unasked
         /\ k \in Asked => probes[k] \in Concluded(k)
  <1>1. probes[k] \in Concluded(k) => probes[k].failure # "unasked"
    BY ConcludedValid DEF ProbeInv
  <1>2. QED
    BY <1>1 DEF ProbeInv, AnswersInv, Asked, Unasked

LEMMA SameAnswers ==
  ASSUME UNCHANGED <<site, at>>, NEW k
  PROVE  Concluded(k)' = Concluded(k)
  BY DEF Concluded, Reply, OnPage, Ahead, Echoes

LEMMA InvInit == Init => ProbeInv
  <1> SUFFICES ASSUME Init PROVE ProbeInv
    OBVIOUS
  <1>1. site \in SiteType /\ MaxRedirects \in Nat /\ MaxFaults \in Nat
    BY ProbeAssumption DEF Init
  <1>2. site.scheme \in Schemes /\ site.chain \in Seq(Places)
    BY <1>1 DEF SiteType
  <1>3. Unasked \in ProbeType
    BY DEF Unasked, ProbeType, Statuses
  <1>4. TypeOK
    <2>1. at \in [place : Places, hops : 0..MaxRedirects]
      BY <1>1, <1>2 DEF Init, Places
    <2>2. redirect \in RedirectType
      BY DEF Init, RedirectType, Statuses
    <2>3. probes \in [Kinds -> ProbeType]
      BY <1>3 DEF Init
    <2>4. QED
      BY <1>1, <2>1, <2>2, <2>3 DEF Init, TypeOK, Kinds
  <1>5. PlaceInv
    BY <1>2 DEF Init, PlaceInv, SameSite
  <1>6. StaysOnSite
    BY DEF Init, StaysOnSite
  <1>7. AnswersInv
    BY DEF Init, AnswersInv
  <1>8. Asked = {}
    BY DEF Init, Asked, Unasked
  <1>9. OrderInv
    BY <1>8 DEF Init, OrderInv, Kinds
  <1>10. RedirectInv /\ OutcomeInv
    BY DEF Init, RedirectInv, OutcomeInv
  <1>11. QED
    BY <1>4, <1>5, <1>6, <1>7, <1>9, <1>10 DEF ProbeInv

\* A CORS question is put to where findPage has got to.
LEMMA RequestStays ==
  ASSUME ProbeInv, site' = site, sent' = sent \union {Request(TRUE)}
  PROVE  /\ sent' \subseteq [host : {"apex", "www", "elsewhere"}, scheme : Schemes, secret : BOOLEAN]
         /\ StaysOnSite'
  <1>1. at.place.host \in {"apex", "www"} /\ at.place.scheme \in Schemes
    BY DEF ProbeInv, TypeOK, Places, PlaceInv, SameSite
  <1>2. Request(TRUE) \in [host : {"apex", "www", "elsewhere"}, scheme : Schemes, secret : BOOLEAN]
    BY <1>1 DEF Request
  <1>3. /\ SameSite(Request(TRUE).host)
        /\ site.scheme = "https" => Request(TRUE).scheme = "https"
    BY <1>1 DEF Request, SameSite, ProbeInv, PlaceInv
  <1>4. StaysOnSite'
    BY <1>3 DEF StaysOnSite, ProbeInv
  <1>5. QED
    BY <1>2, <1>4 DEF ProbeInv, TypeOK

\* What a followed redirect says of where findPage is: not on the page yet.
LEMMA FollowedIsAhead ==
  ASSUME ProbeInv, NEW base \in Concluded("unknown_origin"), MayFollow(base)
  PROVE  /\ at.hops + 1 \in 0..MaxRedirects
         /\ at.hops + 1 <= Len(site.chain)
         /\ Ahead \in Places
  <1>1. /\ site.chain \in Seq(Places) /\ Len(site.chain) \in Nat
        /\ MaxRedirects \in Nat /\ at.hops \in 0..MaxRedirects
    <2>1. site \in SiteType
      BY SiteFacts DEF ProbeInv
    <2>2. site.chain \in Seq(Places)
      BY <2>1 DEF SiteType
    <2>3. MaxRedirects \in Nat /\ at.hops \in 0..MaxRedirects
      BY ProbeAssumption DEF ProbeInv, TypeOK
    <2>4. QED
      BY <2>2, <2>3
  <1>2. base = Reply("unknown_origin")
    <2>0. base.failure = "" /\ base.status \in {"moved", "moved_for_now"}
      BY DEF MayFollow, IsFollowableRedirect
    <2>1. base # NotReady
      <3>1. NotReady.status = "not_ready"
        BY DEF NotReady
      <3>2. QED
        BY <2>0, <3>1
    <2>2. \A f \in Disturbances : base # Failed(f)
      <3>1. \A f \in Disturbances : Failed(f).failure = f /\ f # ""
        BY DEF Failed, Disturbances
      <3>2. QED
        BY <2>0, <3>1
    <2>3. QED
      BY <2>1, <2>2 DEF Concluded
  <1>3. ~OnPage
    BY <1>2, ReplyType DEF MayFollow, ProbeInv, Kinds, IsRedirect
  <1>4. at.hops < Len(site.chain)
    BY <1>1, <1>3 DEF OnPage, ProbeInv, PlaceInv
  <1>5. at.hops < MaxRedirects
    BY DEF MayFollow
  <1>6. QED
    BY <1>1, <1>4, <1>5 DEF Ahead

LEMMA InvFindPage ==
  ASSUME ProbeInv, FindPage
  PROVE  ProbeInv'
  <1>1. PICK a \in Ask("unknown_origin") :
          /\ faults' = faults + a[2]
          /\ \/ /\ MayFollow(a[1])
                /\ at' = [place |-> Ahead, hops |-> at.hops + 1]
                /\ UNCHANGED <<pc, probes>>
             \/ /\ ~MayFollow(a[1])
                /\ probes' = [probes EXCEPT !["unknown_origin"] = a[1]]
                /\ pc' = IF a[1].failure # "" \/ IsRedirect(a[1].status) THEN "plain" ELSE "preflight"
                /\ UNCHANGED at
    BY DEF FindPage
  <1> DEFINE base == a[1]
  <1>2. base \in Concluded("unknown_origin") /\ faults' \in 0..MaxFaults
    BY <1>1, AskConcludes DEF ProbeInv, Kinds
  <1> HIDE DEF base
  <1>3. /\ pc = "unknown_origin" /\ site' = site /\ redirect' = redirect /\ ctx' = ctx
        /\ outcome' = outcome
        /\ sent' = sent \union {Request(TRUE)}
    BY DEF FindPage
  <1>4. \A k \in Kinds : probes[k] = Unasked
    BY <1>3, AskedAre DEF ProbeInv, OrderInv
  <1>5. ~outcome.stored
    BY <1>3 DEF ProbeInv, OutcomeInv
  <1>6. OutcomeInv'
    BY <1>3, <1>5 DEF OutcomeInv
  <1>7. CASE /\ MayFollow(base)
             /\ at' = [place |-> Ahead, hops |-> at.hops + 1]
             /\ UNCHANGED <<pc, probes>>
    <2>1. /\ at.hops + 1 \in 0..MaxRedirects /\ at.hops + 1 <= Len(site.chain) /\ Ahead \in Places
      BY <1>2, <1>7, FollowedIsAhead
    <2>2. TypeOK'
      BY <1>2, <1>3, <1>7, <2>1, RequestStays DEF ProbeInv, TypeOK
    <2>3. PlaceInv'
      <3>1. at'.hops = at.hops + 1 /\ at'.place = Ahead
        BY <1>7
      <3>2. NextHop(Ahead)
        BY <1>7 DEF MayFollow
      <3>3. Ahead.scheme \in {"http", "https"}
        BY <2>1 DEF Places, Schemes
      <3>4. QED
        BY <1>3, <2>1, <3>1, <3>2, <3>3 DEF NextHop, ProbeInv, PlaceInv
    <2>4. AnswersInv'
      BY <1>4, <1>7 DEF AnswersInv
    <2>5. OrderInv'
      BY <1>3, <1>7 DEF ProbeInv, OrderInv, Asked, Base
    <2>6. RedirectInv'
      BY <1>3, <1>7 DEF RedirectInv
    <2>7. QED
      BY <1>3, <1>6, <2>2, <2>3, <2>4, <2>5, <2>6, RequestStays DEF ProbeInv
  <1>8. CASE /\ probes' = [probes EXCEPT !["unknown_origin"] = base]
             /\ pc' = IF base.failure # "" \/ IsRedirect(base.status) THEN "plain" ELSE "preflight"
             /\ UNCHANGED at
    <2>1. base \in ProbeType /\ base.failure # "unasked"
      BY <1>2, ConcludedValid DEF ProbeInv, Kinds
    <2>2. pc' \in {"plain", "preflight"}
      BY <1>8
    <2>3. TypeOK'
      BY <1>2, <1>3, <1>8, <2>1, <2>2, RequestStays DEF ProbeInv, TypeOK, Kinds
    <2>4. PlaceInv'
      BY <1>3, <1>8 DEF ProbeInv, PlaceInv
    <2>5. /\ probes'["unknown_origin"] = base
          /\ \A k \in Kinds \ {"unknown_origin"} : probes'[k] = Unasked
      BY <1>4, <1>8 DEF ProbeInv, TypeOK, Kinds
    <2>6. AnswersInv'
      BY <1>2, <1>3, <1>8, <2>2, <2>5, SameAnswers DEF AnswersInv
    <2>7. "unknown_origin" \in Asked'
      BY <2>1, <2>5 DEF Asked, Kinds
    <2>8. OrderInv'
      <3>1. Base' = base
        BY <2>5 DEF Base
      <3>2. pc' = "preflight" => base.failure = "" /\ ~IsRedirect(base.status)
        BY <1>8
      <3>3. pc' = "plain" => base.failure # "" \/ IsRedirect(base.status)
        BY <1>8
      <3>4. QED
        BY <2>2, <2>7, <3>1, <3>2, <3>3 DEF OrderInv, IsRedirect, IsFollowableRedirect, Kinds
    <2>9. RedirectInv'
      BY <2>2 DEF RedirectInv
    <2>10. QED
      BY <1>3, <1>6, <2>3, <2>4, <2>6, <2>8, <2>9, RequestStays DEF ProbeInv
  <1>9. QED
    BY <1>1, <1>7, <1>8 DEF base

LEMMA InvQuestion ==
  ASSUME ProbeInv, NEW kind \in Kinds, Question(kind)
  PROVE  ProbeInv'
  <1>1. PICK a \in Ask(kind) :
          probes' = [probes EXCEPT ![kind] = a[1]] /\ faults' = faults + a[2]
    BY DEF Question
  <1> DEFINE answer == a[1]
  <1>2. answer \in Concluded(kind) /\ faults' \in 0..MaxFaults
    BY <1>1, AskConcludes DEF ProbeInv
  <1>3. probes' = [probes EXCEPT ![kind] = answer]
    BY <1>1
  <1> HIDE DEF answer
  <1>4. /\ pc = kind /\ kind # "unknown_origin" /\ pc' = After(kind)
        /\ site' = site /\ at' = at /\ redirect' = redirect /\ ctx' = ctx /\ outcome' = outcome
        /\ sent' = sent \union {Request(TRUE)}
    BY DEF Question
  <1>5. answer \in ProbeType /\ answer.failure # "unasked"
    BY <1>2, ConcludedValid DEF ProbeInv
  <1>6. pc' \in {"lookalike_origin", "null_origin", "plain"} /\ pc' # kind
    BY <1>4 DEF After, Kinds
  <1>7. TypeOK'
    BY <1>2, <1>3, <1>4, <1>5, <1>6, RequestStays DEF ProbeInv, TypeOK, Kinds
  <1>8. PlaceInv'
    BY <1>4 DEF ProbeInv, PlaceInv
  <1>9. /\ probes'[kind] = answer
        /\ \A k \in Kinds \ {kind} : probes'[k] = probes[k]
    BY <1>3 DEF ProbeInv, TypeOK
  <1>10. Asked' = Asked \union {kind}
    BY <1>5, <1>9 DEF Asked
  <1>11. AnswersInv'
    BY <1>2, <1>4, <1>9, SameAnswers DEF AnswersInv, ProbeInv
  <1>12. Base' = Base /\ Base.failure = "" /\ ~IsRedirect(Base.status) /\ "unknown_origin" \in Asked
    BY <1>4, <1>9 DEF Base, ProbeInv, OrderInv, Kinds
  <1>13. OrderInv'
    <2>1. CASE kind = "preflight"
      <3>1. pc' = IF Base.origin = "reflected" THEN "plain"
                  ELSE IF site.named THEN "lookalike_origin" ELSE "null_origin"
        BY <1>4, <2>1 DEF After, Base
      <3>2. QED
        BY <1>4, <1>10, <1>12, <2>1, <3>1 DEF OrderInv
    <2>2. CASE kind = "lookalike_origin"
      <3>1. pc' = "null_origin"
        BY <1>4, <2>2 DEF After
      <3>2. Base.origin # "reflected" /\ "preflight" \in Asked
        BY <1>4, <2>2 DEF ProbeInv, OrderInv
      <3>3. QED
        BY <1>4, <1>10, <1>12, <2>2, <3>1, <3>2 DEF OrderInv
    <2>3. CASE kind = "null_origin"
      <3>1. pc' = "plain"
        BY <1>4, <2>3 DEF After
      <3>2. /\ Base.origin # "reflected" /\ "preflight" \in Asked
            /\ site.named => "lookalike_origin" \in Asked
        BY <1>4, <2>3 DEF ProbeInv, OrderInv
      <3>3. QED
        BY <1>4, <1>10, <1>12, <2>3, <3>1, <3>2 DEF OrderInv, Kinds
    <2>4. QED
      BY <1>4, <2>1, <2>2, <2>3 DEF Kinds
  <1>14. RedirectInv'
    BY <1>6 DEF RedirectInv
  <1>15. OutcomeInv'
    <2>1. ~outcome.stored
      BY <1>4 DEF ProbeInv, OutcomeInv, Kinds
    <2>2. QED
      BY <1>4, <2>1 DEF OutcomeInv
  <1>16. QED
    BY <1>4, <1>7, <1>8, <1>11, <1>13, <1>14, <1>15, RequestStays DEF ProbeInv

LEMMA InvCheckRedirect ==
  ASSUME ProbeInv, CheckRedirect
  PROVE  ProbeInv'
  <1> DEFINE failed == [f \in Disturbances |-> PlainFailed(f)]
             request == [host |-> "apex", scheme |-> "http", secret |-> site.scheme = "http"]
  <1>1. PICK a \in Answers(PlainReply, failed, PlainNotReady) :
          redirect' = Noted(a[1]) /\ faults' = faults + a[2]
    BY DEF CheckRedirect
  <1>2. /\ pc = "plain" /\ pc' = "judge"
        /\ site' = site /\ at' = at /\ probes' = probes /\ ctx' = ctx /\ outcome' = outcome
        /\ sent' = sent \union {request}
    BY DEF CheckRedirect
  <1>3. {failed[f] : f \in Disturbances} = {PlainFailed(f) : f \in Disturbances}
    OBVIOUS
  <1>4. /\ SameSite(request.host)
        /\ site.scheme = "https" => ~request.secret
        /\ request \in [host : {"apex", "www", "elsewhere"}, scheme : Schemes, secret : BOOLEAN]
    BY DEF SameSite, Schemes
  <1> HIDE DEF failed, request
  <1>5. a[1] \in PlainConcluded /\ faults' \in 0..MaxFaults
    <2>1. /\ a[1] \in {PlainReply, PlainNotReady} \union {failed[f] : f \in Disturbances}
          /\ faults + a[2] \in 0..MaxFaults
      BY <1>1, AnswersAre DEF ProbeInv
    <2>2. QED
      BY <1>1, <1>3, <2>1 DEF PlainConcluded
  <1>6. redirect' \in RedirectType
    BY <1>1, <1>5, NotedType DEF ProbeInv
  <1>7. TypeOK'
    BY <1>2, <1>4, <1>5, <1>6 DEF ProbeInv, TypeOK
  <1>8. PlaceInv'
    BY <1>2 DEF ProbeInv, PlaceInv
  <1>9. StaysOnSite'
    BY <1>2, <1>4 DEF ProbeInv, StaysOnSite
  <1>10. AnswersInv'
    BY <1>2, SameAnswers DEF ProbeInv, AnswersInv
  <1>11. OrderInv'
    <2>1. Asked' = Asked /\ Base' = Base
      BY <1>2 DEF Asked, Base
    <2>2. QED
      BY <1>2, <2>1 DEF ProbeInv, OrderInv, Kinds
  <1>12. RedirectInv'
    <2>1. PlainConcluded' = PlainConcluded
      BY <1>2 DEF PlainConcluded, PlainReply
    <2>2. Noted(a[1])' = Noted(a[1])
      BY <1>2 DEF Noted, PlainFailure, Answered
    <2>3. QED
      BY <1>1, <1>5, <2>1, <2>2 DEF RedirectInv
  <1>13. OutcomeInv'
    BY <1>2 DEF ProbeInv, OutcomeInv
  <1>14. QED
    BY <1>7, <1>8, <1>9, <1>10, <1>11, <1>12, <1>13 DEF ProbeInv

LEMMA InvJudge ==
  ASSUME ProbeInv, Judge
  PROVE  ProbeInv'
  <1>1. /\ pc = "judge" /\ pc' = "done"
        /\ UNCHANGED <<site, at, probes, redirect, sent, ctx, faults>>
        /\ outcome' = [error |-> Verdict, stored |-> Verdict = "",
                       degraded |-> Verdict = "" /\ (CORSIncomplete \/ RedirectIncomplete)]
    BY DEF Judge
  <1>2. Verdict \in {"", "timeout", "cancelled", "blocked", "unreachable"}
    BY DEF Verdict
  <1>3. Verdict = "" => ~Blocked /\ (Answered \/ redirect.failure = "")
    BY DEF Verdict
  <1>4. /\ Asked' = Asked /\ Base' = Base /\ Blocked' = Blocked /\ Answered' = Answered
        /\ CORSIncomplete' = CORSIncomplete /\ RedirectIncomplete' = RedirectIncomplete
    BY <1>1 DEF Asked, Base, Blocked, Answered, CORSIncomplete, RedirectIncomplete
  <1>5. TypeOK'
    <2>1. outcome' \in [error : {"none", "", "timeout", "cancelled", "blocked", "unreachable"},
                        degraded : BOOLEAN, stored : BOOLEAN]
      BY <1>1, <1>2
    <2>2. QED
      BY <1>1, <2>1 DEF ProbeInv, TypeOK
  <1>6. OutcomeInv'
    BY <1>1, <1>3, <1>4 DEF OutcomeInv
  <1>7. PlaceInv' /\ StaysOnSite'
    BY <1>1 DEF ProbeInv, PlaceInv, StaysOnSite
  <1>8. AnswersInv'
    BY <1>1, SameAnswers DEF ProbeInv, AnswersInv
  <1>9. OrderInv'
    BY <1>1, <1>4 DEF ProbeInv, OrderInv, Kinds
  <1>10. RedirectInv'
    <2>1. PlainConcluded' = PlainConcluded
      BY <1>1 DEF PlainConcluded, PlainReply
    <2>2. \A r : Noted(r)' = Noted(r)
      BY <1>1 DEF Noted, PlainFailure, Answered
    <2>3. QED
      BY <1>1, <2>1, <2>2 DEF ProbeInv, RedirectInv
  <1>11. QED
    BY <1>5, <1>6, <1>7, <1>8, <1>9, <1>10 DEF ProbeInv

LEMMA InvQuiet ==
  ASSUME ProbeInv, ContextEnds \/ UNCHANGED vars
  PROVE  ProbeInv'
  <1>1. UNCHANGED <<site, pc, at, probes, redirect, sent, faults, outcome>>
    BY DEF ContextEnds, vars
  <1>2. ctx' \in {"live", "deadline", "canceled"}
    BY DEF ContextEnds, vars, ProbeInv, TypeOK
  <1>3. TypeOK'
    BY <1>1, <1>2 DEF ProbeInv, TypeOK
  <1>4. /\ Asked' = Asked /\ Base' = Base /\ Blocked' = Blocked /\ Answered' = Answered
        /\ CORSIncomplete' = CORSIncomplete /\ RedirectIncomplete' = RedirectIncomplete
    BY <1>1 DEF Asked, Base, Blocked, Answered, CORSIncomplete, RedirectIncomplete
  <1>5. PlaceInv' /\ StaysOnSite'
    BY <1>1 DEF ProbeInv, PlaceInv, StaysOnSite
  <1>6. AnswersInv'
    BY <1>1, SameAnswers DEF ProbeInv, AnswersInv
  <1>7. OrderInv'
    BY <1>1, <1>4 DEF ProbeInv, OrderInv
  <1>8. RedirectInv'
    <2>1. PlainConcluded' = PlainConcluded
      BY <1>1 DEF PlainConcluded, PlainReply
    <2>2. \A r : Noted(r)' = Noted(r)
      BY <1>1 DEF Noted, PlainFailure, Answered
    <2>3. QED
      BY <1>1, <2>1, <2>2 DEF ProbeInv, RedirectInv
  <1>9. OutcomeInv'
    BY <1>1, <1>4 DEF ProbeInv, OutcomeInv
  <1>10. QED
    BY <1>3, <1>5, <1>6, <1>7, <1>8, <1>9 DEF ProbeInv

LEMMA ProbeInvariant == Spec => []ProbeInv
  <1>1. ProbeInv /\ [Next]_vars => ProbeInv'
    BY InvFindPage, InvQuestion, InvCheckRedirect, InvJudge, InvQuiet DEF Next
  <1>2. QED
    BY <1>1, InvInit, PTL DEF Spec

-----------------------------------------------------------------------------
(* What is stored *)

\* No request leaves the site, and none carries an HTTPS target's path and query
\* over plain HTTP: nextHop keeps every hop on the site and on HTTPS, whatever
\* redirects the site sends.
THEOREM StaysOnSiteHolds == Spec => []StaysOnSite
  <1>1. ProbeInv => StaysOnSite
    BY DEF ProbeInv
  <1>2. QED
    BY <1>1, ProbeInvariant, PTL

LEMMA StoredFacts ==
  ASSUME ProbeInv, outcome.stored
  PROVE  /\ ValidCORS
         /\ ValidRedirect
         /\ "unknown_origin" \in Asked
         /\ \E r \in PlainConcluded : redirect = Noted(r)
  <1>1. pc = "done"
    BY DEF ProbeInv, OutcomeInv
  <1>2. "unknown_origin" \in Asked
    BY <1>1 DEF ProbeInv, OrderInv
  <1>3. \A k \in Asked : ValidProbe(probes[k])
    <2>1. TAKE k \in Asked
    <2>2. k \in Kinds
      BY DEF Asked
    <2>3. probes[k] \in Concluded(k)
      BY <2>2, AskedAre
    <2>4. QED
      BY <2>2, <2>3, ConcludedValid DEF ProbeInv
  <1>4. at.hops <= MaxRedirects
    <2>1. at.hops \in 0..MaxRedirects /\ MaxRedirects \in Nat
      BY ProbeAssumption DEF ProbeInv, TypeOK
    <2>2. QED
      BY <2>1
  <1>5. \E r \in PlainConcluded : redirect = Noted(r)
    BY <1>1 DEF ProbeInv, RedirectInv
  <1>6. ValidRedirect
    <2>1. PICK r \in PlainConcluded : redirect = Noted(r)
      BY <1>5
    <2>2. QED
      BY <2>1, NotedType DEF ValidRedirect, ProbeInv
  <1>7. QED
    BY <1>2, <1>3, <1>4, <1>5, <1>6 DEF ValidCORS

\* What Scan stores was permitted by the address policy, was answered by
\* somebody, and is a record that Normalize accepts in both halves.
THEOREM StoredIsSoundHolds == Spec => []StoredIsSound
  <1>1. ProbeInv => StoredIsSound
    <2> SUFFICES ASSUME ProbeInv PROVE StoredIsSound
      OBVIOUS
    <2>1. StoredWasAnswered
      <3> SUFFICES ASSUME outcome.stored
                   PROVE  /\ \A k \in Kinds : probes[k].failure # "blocked"
                          /\ redirect.failure # "blocked"
                          /\ redirect.failure = "" \/ probes["unknown_origin"].failure = ""
        BY DEF StoredWasAnswered
      <3>1. ~Blocked /\ (Answered \/ redirect.failure = "")
        BY DEF ProbeInv, OutcomeInv
      <3>2. QED
        BY <3>1 DEF Blocked, Asked, Answered
    <2>2. RecordIsReadable
      BY StoredFacts DEF RecordIsReadable
    <2>3. QED
      BY <2>1, <2>2 DEF StoredIsSound, ProbeInv
  <1>2. QED
    BY <1>1, ProbeInvariant, PTL

-----------------------------------------------------------------------------
(* What is reported *)

\* Trust that a probe saw is trust of the page, or of a redirect before it.
LEMMA ReflectedIsTrue ==
  ASSUME ProbeInv, NEW k \in Kinds, probes[k].origin = "reflected"
  PROVE  /\ probes[k].credentials = site.credentials
         /\ Echoes(k)
         /\ OnPage => \/ "any" \in site.trusts
                      \/ k \in site.trusts /\ (k = "preflight" => site.options)
         /\ ~OnPage => site.edge /\ site.chain # <<>>
  <1>1. probes[k] = Reply(k)
    <2>1. probes[k] # Unasked /\ probes[k] # NotReady
      <3>1. Unasked.origin = "none" /\ NotReady.origin = "other"
        BY DEF Unasked, NotReady
      <3>2. QED
        BY <3>1
    <2>2. \A f \in Disturbances : probes[k] # Failed(f)
      <3>1. \A f \in Disturbances : Failed(f).origin = "none"
        BY DEF Failed
      <3>2. QED
        BY <3>1
    <2>3. QED
      BY <2>1, <2>2 DEF ProbeInv, AnswersInv, Concluded
  <1>2. Echoes(k) /\ probes[k].credentials = site.credentials
    BY <1>1, ReplyType DEF ProbeInv
  <1>3. ~OnPage => site.chain # <<>>
    <2>1. site.chain = <<>> => Len(site.chain) = 0
      OBVIOUS
    <2>2. at.hops \in 0..MaxRedirects /\ MaxRedirects \in Nat
      BY ProbeAssumption DEF ProbeInv, TypeOK
    <2>3. at.hops <= Len(site.chain)
      BY DEF ProbeInv, PlaceInv
    <2>4. QED
      BY <2>1, <2>2, <2>3 DEF OnPage
  <1>4. QED
    BY <1>2, <1>3 DEF Echoes

\* A question that was asked and concluded has the site's own answer.
LEMMA CompleteIsReply ==
  ASSUME ProbeInv, NEW k \in Asked, ~CORSIncomplete
  PROVE  k \in Kinds /\ probes[k] = Reply(k) /\ ~ProbeIncomplete(k, probes[k])
  <1>1. k \in Kinds /\ ~ProbeIncomplete(k, probes[k])
    BY DEF Asked, CORSIncomplete
  <1>2. probes[k] \in Concluded(k)
    BY <1>1, AskedAre
  <1>3. ProbeIncomplete(k, NotReady)
    BY DEF ProbeIncomplete, NotReady, IsNotReady
  <1>4. \A f \in Disturbances : ProbeIncomplete(k, Failed(f))
    BY DEF ProbeIncomplete, Failed, Disturbances
  <1>5. QED
    BY <1>1, <1>2, <1>3, <1>4 DEF Concluded

\* The plain port's own answer is reported for exactly what it is.
LEMMA PlainAgrees ==
  ASSUME ProbeInv, redirect = Noted(PlainReply), redirect.failure = ""
  PROVE  RedirectFindings = TrueOfPlain
  <1>1. /\ redirect.status = PlainReply.status /\ redirect.location = PlainReply.location
        /\ PlainReply.failure = ""
    <2>1. PlainReply \in PlainConcluded
      BY DEF PlainConcluded
    <2>2. QED
      BY <2>1, NotedType DEF ProbeInv
  <1>2. /\ site.page \in {"ok", "not_found"}
        /\ site.scheme \in Schemes /\ site.chain \in Seq(Places)
        /\ site.plain \in {"closed", "filtered", "upgrade", "stays_plain", "served", "error",
                           "unfollowable"}
    BY SiteFacts DEF SiteType, ProbeInv
  <1>3. RedirectFindings =
          IF redirect.status = "error" THEN {"error_plain"}
          ELSE IF redirect.status = "ok" THEN {"served_plain"}
          ELSE IF redirect.status \in {"moved", "moved_for_now"} /\ redirect.location = "http"
            THEN {"stays_plain"}
          ELSE IF redirect.status = "moved_for_now" /\ redirect.location = "https"
            THEN {"temporary"} ELSE {}
    BY DEF RedirectFindings, IsFollowableRedirect
  <1>4. CASE site.scheme = "http" /\ site.chain = <<>>
    BY <1>1, <1>2, <1>3, <1>4 DEF PlainReply, TrueOfPlain
  <1>5. CASE site.scheme = "http" /\ site.chain # <<>>
    <2>1. site.chain[1].scheme \in {"http", "https"}
      BY <1>5, FirstHop DEF ProbeInv
    <2>2. /\ PlainReply.location = site.chain[1].scheme
          /\ PlainReply.status = MovedStatus(site.chain[1], site.permanent)
      BY <1>5 DEF PlainReply
    <2>3. TrueOfPlain =
            IF site.chain[1].host = "none" THEN {}
            ELSE IF site.chain[1].scheme = "http" THEN {"stays_plain"}
            ELSE IF site.permanent THEN {} ELSE {"temporary"}
      BY <1>5 DEF TrueOfPlain
    <2>4. QED
      BY <1>1, <1>3, <2>1, <2>2, <2>3 DEF MovedStatus
  <1>6. CASE site.scheme # "http"
    <2>1. CASE site.plain \in {"closed", "filtered"}
      BY <1>1, <1>6, <2>1 DEF PlainReply
    <2>2. CASE site.plain = "upgrade"
      BY <1>1, <1>3, <1>6, <2>2, ZenonT(60) DEF PlainReply, TrueOfPlain
    <2>3. CASE site.plain = "stays_plain"
      BY <1>1, <1>3, <1>6, <2>3 DEF PlainReply, TrueOfPlain
    <2>4. CASE site.plain = "served"
      BY <1>1, <1>3, <1>6, <2>4 DEF PlainReply, TrueOfPlain
    <2>5. CASE site.plain = "error"
      BY <1>1, <1>3, <1>6, <2>5 DEF PlainReply, TrueOfPlain
    <2>6. CASE site.plain = "unfollowable"
      BY <1>1, <1>3, <1>6, <2>6 DEF PlainReply, TrueOfPlain
    <2>7. QED
      BY <1>2, <2>1, <2>2, <2>3, <2>4, <2>5, <2>6
  <1>7. QED
    BY <1>4, <1>5, <1>6

\* A CORS finding comes from an origin that some probe saw reflected.
LEMMA FindingIsReflected ==
  ASSUME NEW f \in CORSFindings
  PROVE  \/ /\ f[1] = "reflected"
            /\ \E k \in {"unknown_origin", "preflight"} : probes[k].origin = "reflected"
            /\ f[2] => \E k \in {"unknown_origin", "preflight"} :
                         probes[k].origin = "reflected" /\ probes[k].credentials
         \/ \E k \in {"lookalike_origin", "null_origin"} :
              probes[k].origin = "reflected" /\ f = <<k, probes[k].credentials>>
  <1> DEFINE found == {k \in {"unknown_origin", "preflight"} : probes[k].origin = "reflected"}
             others == {q \in {"lookalike_origin", "null_origin"} : probes[q].origin = "reflected"}
  <1>1. CASE found # {} /\ f = <<"reflected", \E k \in found : probes[k].credentials>>
    BY <1>1
  <1>2. CASE f \in {<<k, probes[k].credentials>> : k \in others}
    BY <1>2
  <1>3. QED
    BY <1>1, <1>2 DEF CORSFindings, Rule

\* What Normalize reports is true of the site: of its page, or of a redirect
\* before the page that itself trusts any origin, and of its plain port; a port
\* is called silent only on a host that answered over HTTPS.
THEOREM ReportsAreTrueHolds == Spec => []ReportsAreTrue
  <1>1. ProbeInv => ReportsAreTrue
    <2> SUFFICES ASSUME ProbeInv, outcome.stored
                 PROVE  /\ \A f \in CORSFindings :
                             /\ \/ f[1] \in TrueOfPage
                                \/ "any" \in site.trusts
                                \/ site.edge /\ site.chain # <<>>
                             /\ f[2] => site.credentials
                        /\ RedirectFindings \subseteq TrueOfPlain \union
                             (IF site.scheme = "https" /\ Answered THEN {"port_unverified"} ELSE {})
      BY StoredFacts DEF ReportsAreTrue, CORSReported, PlainReported
    <2>1. ASSUME NEW f \in CORSFindings
          PROVE  /\ \/ f[1] \in TrueOfPage
                    \/ "any" \in site.trusts
                    \/ site.edge /\ site.chain # <<>>
                 /\ f[2] => site.credentials
      <3>1. ASSUME NEW k \in Kinds, probes[k].origin = "reflected"
            PROVE  /\ \/ site.edge /\ site.chain # <<>>
                      \/ "any" \in site.trusts
                      \/ k \in site.trusts /\ (k = "preflight" => site.options)
                   /\ probes[k].credentials = site.credentials
        BY <3>1, ReflectedIsTrue
      <3>2. CASE /\ f[1] = "reflected"
                 /\ \E k \in {"unknown_origin", "preflight"} : probes[k].origin = "reflected"
                 /\ f[2] => \E k \in {"unknown_origin", "preflight"} :
                              probes[k].origin = "reflected" /\ probes[k].credentials
        <4>1. f[2] => site.credentials
          BY <3>1, <3>2 DEF Kinds
        <4>2. "unknown_origin" \notin site.trusts
          <5>1. site \in SiteType
            BY SiteFacts DEF ProbeInv
          <5>2. site.trusts \subseteq {"any", "preflight", "lookalike_origin", "null_origin"}
            BY <5>1 DEF SiteType
          <5>3. QED
            BY <5>2
        <4>3. \/ site.edge /\ site.chain # <<>>
              \/ "any" \in site.trusts
              \/ "preflight" \in site.trusts /\ site.options
          BY <3>1, <3>2, <4>2 DEF Kinds
        <4>4. "preflight" \in site.trusts /\ site.options => "reflected" \in TrueOfPage
          BY DEF TrueOfPage
        <4>5. QED
          BY <3>2, <4>1, <4>3, <4>4
      <3>3. CASE \E k \in {"lookalike_origin", "null_origin"} :
                   probes[k].origin = "reflected" /\ f = <<k, probes[k].credentials>>
        <4>1. PICK k \in {"lookalike_origin", "null_origin"} :
                probes[k].origin = "reflected" /\ f = <<k, probes[k].credentials>>
          BY <3>3
        <4>2. f[1] = k /\ f[2] = probes[k].credentials
          BY <4>1
        <4>3. k \in site.trusts => "any" \in site.trusts \/ k \in TrueOfPage
          BY DEF TrueOfPage
        <4>4. QED
          BY <3>1, <4>1, <4>2, <4>3 DEF Kinds
      <3>4. QED
        BY <3>2, <3>3, FindingIsReflected
    <2>2. RedirectFindings \subseteq TrueOfPlain \union
             (IF site.scheme = "https" /\ Answered THEN {"port_unverified"} ELSE {})
      <3>1. PICK r \in PlainConcluded : redirect = Noted(r)
        BY StoredFacts
      <3>2. CASE redirect.failure # ""
        <4>1. r.failure # "filtered"
          <5>1. PlainReply.failure # "filtered"
            BY PlainReplyType DEF ProbeInv
          <5>2. PlainNotReady.failure # "filtered"
            BY DEF PlainNotReady
          <5>3. \A f \in Disturbances : PlainFailed(f).failure # "filtered"
            BY DEF PlainFailed, Disturbances
          <5>4. QED
            BY <5>1, <5>2, <5>3 DEF PlainConcluded
        <4>2. redirect.failure = "filtered" => site.scheme = "https" /\ Answered
          BY <3>1, <4>1 DEF Noted, PlainFailure
        <4>3. QED
          BY <3>2, <4>2 DEF RedirectFindings
      <3>3. CASE redirect.failure = ""
        <4>1. CASE r = PlainReply
          BY <3>1, <3>3, <4>1, PlainAgrees
        <4>2. CASE r = PlainNotReady
          <5>1. redirect.status = "not_ready"
            BY <3>1, <4>2 DEF Noted, PlainNotReady
          <5>2. RedirectFindings = {}
            BY <3>3, <5>1 DEF RedirectFindings, IsFollowableRedirect
          <5>3. QED
            BY <5>2
        <4>3. CASE r \in {PlainFailed(f) : f \in Disturbances}
          <5>1. r.failure # ""
            BY <4>3, PlainFailedFails
          <5>2. QED
            BY <3>1, <3>3, <5>1, NotedType DEF ProbeInv
        <4>4. QED
          BY <4>1, <4>2, <4>3 DEF PlainConcluded
      <3>4. QED
        BY <3>2, <3>3
    <2>3. QED
      BY <2>1, <2>2
  <1>2. QED
    BY <1>1, ProbeInvariant, PTL

\* Silence is a pass only when every question was concluded: a scan that is
\* neither failed nor degraded reports all the trust the page gives and all that
\* its plain port does, whatever the network did between two questions; a
\* redirect that trusts any origin is reported in the page's place.
THEOREM SilenceIsEarnedHolds == Spec => []SilenceIsEarned
  <1>1. ProbeInv => SilenceIsEarned
    <2> DEFINE named == {f[1] : f \in CORSFindings}
    <2> SUFFICES ASSUME ProbeInv, outcome.stored, ~outcome.degraded
                 PROVE  /\ \/ TrueOfPage \subseteq named
                           \/ site.edge /\ site.chain # <<>> /\ "reflected" \in named
                        /\ \/ TrueOfPlain \subseteq RedirectFindings
                           \/ redirect.failure = "refused"
                           \/ redirect.failure = "filtered" /\ RedirectFindings = {"port_unverified"}
      BY StoredFacts DEF SilenceIsEarned, Clean, CORSReported, PlainReported
    <2>1. ~CORSIncomplete /\ ~RedirectIncomplete /\ pc = "done"
      BY DEF ProbeInv, OutcomeInv
    <2>2. \A k \in Asked : /\ k \in Kinds /\ probes[k] = Reply(k)
                           /\ ~ProbeIncomplete(k, Reply(k))
      BY <2>1, CompleteIsReply
    <2>3. "unknown_origin" \in Asked
      BY StoredFacts
    <2>4. \A k \in Asked : /\ probes[k].failure = ""
                           /\ probes[k].origin = "reflected" <=> Echoes(k)
      BY <2>2, ReplyType DEF ProbeInv
    <2>5. \A k \in {"unknown_origin", "preflight"} : probes[k].origin = "reflected" => "reflected" \in named
      <3>1. TAKE k \in {"unknown_origin", "preflight"}
      <3>2. HAVE probes[k].origin = "reflected"
      <3> DEFINE found == {q \in {"unknown_origin", "preflight"} : probes[q].origin = "reflected"}
                 cred == \E q \in found : probes[q].credentials
      <3>3. found # {}
        BY <3>2
      <3>4. <<"reflected", cred>> \in CORSFindings
        BY <3>3 DEF CORSFindings, Rule
      <3>5. QED
        BY <3>4
    <2>6. /\ \/ TrueOfPage \subseteq named
             \/ site.edge /\ site.chain # <<>> /\ "reflected" \in named
      <3>1. CASE Base.origin = "reflected"
        <4>1. "reflected" \in named
          BY <2>5, <3>1 DEF Base
        <4>2. "any" \in site.trusts \/ (site.edge /\ site.chain # <<>>)
          <5>1. site.trusts \subseteq {"any", "preflight", "lookalike_origin", "null_origin"}
            <6>1. site \in SiteType
              BY SiteFacts DEF ProbeInv
            <6>2. QED
              BY <6>1 DEF SiteType
          <5>2. "unknown_origin" \in Kinds /\ probes["unknown_origin"].origin = "reflected"
            BY <3>1 DEF Base, Kinds
          <5>3. /\ OnPage => "any" \in site.trusts \/ "unknown_origin" \in site.trusts
                /\ ~OnPage => site.edge /\ site.chain # <<>>
            BY <5>2, ReflectedIsTrue
          <5>4. "unknown_origin" \notin site.trusts
            BY <5>1
          <5>5. QED
            BY <5>3, <5>4
        <4>3. "any" \in site.trusts => TrueOfPage = {"reflected"}
          BY DEF TrueOfPage
        <4>4. QED
          BY <4>1, <4>2, <4>3
      <3>2. CASE Base.origin # "reflected"
        <4>1. Base.failure = "" /\ ~IsRedirect(Base.status) /\ ~Echoes("unknown_origin")
          BY <2>2, <2>3, <2>4, <3>2 DEF Base, ProbeIncomplete
        <4>2. OnPage /\ "any" \notin site.trusts
          <5>1. OnPage
            BY <2>2, <2>3, <4>1, ReplyType DEF Base, ProbeInv
          <5>2. QED
            BY <4>1, <5>1 DEF Echoes
        <4>3. /\ "preflight" \in Asked /\ "null_origin" \in Asked
              /\ site.named => "lookalike_origin" \in Asked
          BY <2>1, <3>2, <4>1 DEF ProbeInv, OrderInv
        <4>4. ASSUME NEW k \in {"lookalike_origin", "null_origin"}, k \in site.trusts
              PROVE  k \in named
          <5>1. k \in Asked
            BY <4>3, <4>4, SiteFacts DEF ProbeInv
          <5>2. probes[k].origin = "reflected"
            BY <2>4, <4>2, <4>4, <5>1 DEF Echoes
          <5>3. <<k, probes[k].credentials>> \in CORSFindings
            BY <3>2, <5>2 DEF CORSFindings, Rule, Base
          <5>4. QED
            BY <5>3
        <4>5. "preflight" \in site.trusts /\ site.options => "reflected" \in named
          BY <2>4, <2>5, <4>2, <4>3 DEF Echoes
        <4>6. TrueOfPage \subseteq named
          <5> HIDE DEF named
          <5>1. QED
            BY <4>2, <4>4, <4>5 DEF TrueOfPage
        <4>7. QED
          BY <4>6
      <3>3. QED
        BY <3>1, <3>2
    <2>7. /\ \/ TrueOfPlain \subseteq RedirectFindings
             \/ redirect.failure = "refused"
             \/ redirect.failure = "filtered" /\ RedirectFindings = {"port_unverified"}
      <3>1. PICK r \in PlainConcluded : redirect = Noted(r)
        BY StoredFacts
      <3>2. redirect.failure \in {"", "refused", "filtered"}
        BY <2>1 DEF RedirectIncomplete
      <3>3. redirect.failure = "filtered" => RedirectFindings = {"port_unverified"}
        BY DEF RedirectFindings
      <3>4. ASSUME redirect.failure = "" PROVE r = PlainReply
        <4>1. redirect.status # "not_ready"
          BY <2>1, <3>4 DEF RedirectIncomplete, IsNotReady
        <4>2. r # PlainNotReady
          <5>1. PlainNotReady.status = "not_ready"
            BY DEF PlainNotReady
          <5>2. QED
            BY <3>1, <4>1, <5>1, NotedType DEF ProbeInv
        <4>3. r.failure = ""
          BY <3>1, <3>4, NotedType DEF ProbeInv
        <4>4. r \notin {PlainFailed(f) : f \in Disturbances}
          BY <4>3, PlainFailedFails
        <4>5. QED
          BY <4>2, <4>4 DEF PlainConcluded
      <3>5. QED
        BY <3>1, <3>2, <3>3, <3>4, PlainAgrees
    <2>8. QED
      BY <2>6, <2>7
  <1>2. QED
    BY <1>1, ProbeInvariant, PTL
=============================================================================
