------------------------------- MODULE MCProbe -------------------------------
EXTENDS Probe

To(host, scheme) == [host |-> host, scheme |-> scheme]

Plainest ==
    [scheme |-> "https", named |-> TRUE, chain |-> <<>>, trusts |-> {}, credentials |-> FALSE,
     edge |-> FALSE, page |-> "ok", options |-> TRUE, permanent |-> TRUE, plain |-> "upgrade"]

\* One more redirect than is followed, a way off the site, one down to HTTP.
MCChains ==
    {<<>>, <<To("www", "https")>>, <<To("none", "https")>>, <<To("elsewhere", "https")>>,
     <<To("www", "https"), To("elsewhere", "https")>>,
     <<To("www", "https"), To("apex", "http")>>,
     <<To("apex", "https"), To("apex", "https"), To("apex", "https")>>}

MCTrusts ==
    {{}, {"any"}, {"preflight"}, {"lookalike_origin"}, {"null_origin"},
     {"preflight", "lookalike_origin", "null_origin"}}

\* Ways to the page, what the page trusts, and what the plain port does.
MCSites ==
    {[Plainest EXCEPT !.chain = c, !.scheme = s, !.edge = e, !.trusts = t, !.permanent = FALSE] :
        c \in MCChains, s \in Schemes, e \in BOOLEAN, t \in {{}, {"any"}}}
    \union
    {[Plainest EXCEPT !.chain = c, !.edge = TRUE, !.trusts = {"lookalike_origin"}] :
        c \in {<<>>, <<To("www", "https")>>}}
    \union
    {[Plainest EXCEPT !.trusts = t, !.credentials = c, !.options = o, !.page = g] :
        t \in MCTrusts, c \in BOOLEAN, o \in BOOLEAN, g \in {"ok", "not_found"}}
    \union
    {[Plainest EXCEPT !.plain = w, !.trusts = t] :
        w \in {"closed", "filtered", "upgrade", "stays_plain", "served", "error", "unfollowable"},
        t \in {{}, {"null_origin"}}}
    \union
    {[Plainest EXCEPT !.named = FALSE, !.trusts = t] : t \in {{}, {"null_origin"}}}
=============================================================================
