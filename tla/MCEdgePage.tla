----------------------------- MODULE MCEdgePage ------------------------------
(***************************************************************************)
(* Three configurations of a domain, visitors with and without a login,    *)
(* with GPC and from a skipped country, and pages in which scripts, style  *)
(* sheets, iframes, characters and the needles of the injector meet.       *)
(***************************************************************************)
EXTENDS EdgePage

Made(tag, host, matches) ==
    [tag |-> tag, host |-> host, ours |-> FALSE, sheet |-> tag = "link", closed |-> FALSE,
     matches |-> matches]

MCNames == {"universal", "marketing", "external_media", "discovered", "statistics",
            "uncategorized", "stats", "player", "old", "analytics", "video", "removed",
            "fonts", "everything"}

\* 1 third-party script  2 named by a rule  3 the proxy's own  4 style sheet
\* 5 iframe of a rule    6 unknown iframe   7 iframe of the site
\* 8 named by the rule of a service that was removed, 9 not a style sheet
\* 10 self-closing iframe 11 style sheet named by a rule
MCElements == <<
    Made("script", "third", {}),
    Made("script", "third", {"analytics"}),
    [Made("script", "third", {"analytics"}) EXCEPT !.ours = TRUE],
    Made("link", "third", {}),
    Made("iframe", "third", {"video"}),
    Made("iframe", "third", {}),
    Made("iframe", "own", {}),
    Made("script", "none", {"removed"}),
    [Made("link", "third", {}) EXCEPT !.sheet = FALSE],
    [Made("iframe", "third", {}) EXCEPT !.closed = TRUE],
    Made("link", "own", {"fonts"}) >>

RuleOf(id, service, group) == [id |-> id, service |-> service, group |-> group, any |-> FALSE]
All(on) == [script |-> on, style |-> on, content |-> on]

Strict ==
    [scripts |-> <<RuleOf("removed", "old", None), RuleOf("analytics", "stats", None)>>,
     styles |-> <<RuleOf("fonts", None, None)>>,
     contents |-> <<RuleOf("video", "player", None)>>,
     auto |-> All(TRUE), universalScript |-> None, universalStyle |-> None, fallback |-> None,
     groups |-> {"marketing", "statistics", "external_media"}, required |-> {},
     services |-> [stats |-> "statistics", player |-> "external_media"],
     bootstrapper |-> TRUE, api |-> TRUE,
     cookiePolicy |-> "allowlist", essential |-> {}, cacheDisabled |-> FALSE,
     ignoreCacheControl |-> FALSE]
Lenient ==
    [Strict EXCEPT !.auto = All(FALSE), !.bootstrapper = FALSE, !.api = FALSE,
                   !.cookiePolicy = "passthrough", !.ignoreCacheControl = TRUE]
Universal ==
    [Strict EXCEPT !.universalScript = "uncategorized", !.universalStyle = "uncategorized",
                   !.groups = @ \cup {"uncategorized"},
                   !.contents = @ \o <<[RuleOf("everything", None, None) EXCEPT !.any = TRUE]>>,
                   !.scripts = <<RuleOf("analytics", None, None)>>]
MCConfigs == {Strict, Lenient, Universal}

Visitor ==
    [method |-> "GET", path |-> "page", query |-> FALSE, authorization |-> FALSE, cookies |-> {},
     gpc |-> 0, skips |-> FALSE, revalidates |-> FALSE]
MCRequests ==
    {Visitor,
     [Visitor EXCEPT !.gpc = 1, !.cookies = {"login"}],
     [Visitor EXCEPT !.skips = TRUE],
     [Visitor EXCEPT !.gpc = 1, !.revalidates = TRUE]}

Text == <<<<"text", 0>>>>
Char == <<<<"char", 1>>, <<"char", 2>>>>
Pair == <<<<"pair", 1>>, <<"pair", 2>>>>
Of(e) == <<<<"tag", e>>>>
Frame(e) == Of(e) \o Text \o <<<<"end", 0>>>>
Self == <<"source", 0>>
NoPolicy == [d \in {} |-> {}]

Answer(page, policy) ==
    [status |-> 200, html |-> TRUE, setCookie |-> {}, private |-> FALSE, varyStar |-> FALSE,
     policy |-> policy, reportOnly |-> NoPolicy, encoded |-> FALSE, page |-> page]

MCResponses ==
    {[Answer(Of(1) \o HeadEnd \o Of(2) \o Frame(5) \o Of(4) \o BodyEnd,
             [d \in {"default-src", "connect-src"} |-> {Self}]) EXCEPT !.encoded = TRUE],
     [Answer(Text \o HeadEnd \o Of(9) \o Frame(6) \o Frame(7) \o Of(8),
             [d \in {"script-src", "script-src-elem"} |-> {Self}])
        EXCEPT !.setCookie = {"session", "tracker"}],
     [Answer(Char \o Pair \o Char \o Text \o Char, [d \in {"default-src"} |-> {Self}])
        EXCEPT !.setCookie = {"session"}, !.reportOnly = [d \in {"script-src"} |-> {Self}]],
     Answer(Text \o Mark \o Text \o HeadEnd \o Of(3), NoPolicy),
     [Answer(HeadEnd \o Text \o Mark, NoPolicy) EXCEPT !.private = TRUE],
     Answer(BodyEnd \o Text \o HeadEnd \o Of(10) \o Of(11), NoPolicy),
     Answer(Of(1) \o Of(5) \o Text \o BodyEnd, NoPolicy),
     [Answer(Text, NoPolicy) EXCEPT !.html = FALSE, !.encoded = TRUE],
     [Answer(Text \o Of(1) \o BodyEnd, NoPolicy) EXCEPT !.status = 302, !.varyStar = TRUE]}
=============================================================================
