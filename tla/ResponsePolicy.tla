--------------------------- MODULE ResponsePolicy ---------------------------
(***************************************************************************)
(* What the proxy does to the headers of a response: which responses go    *)
(* into the HTML cache (services/proxy/response-cache.js), which cookies   *)
(* pass (cookie-filter.js), and how the page's Content-Security-Policy is  *)
(* opened for the scripts the proxy injects (csp-nonce.js).                *)
(*                                                                         *)
(* A request has method, path ("page" or one of the prefixes that bypass   *)
(* the cache), query, authorization and the names of its cookies; a        *)
(* response has status, html, setCookie (names), private (a Cache-Control  *)
(* of no-store, private or no-cache), varyStar, and policies. A policy is  *)
(* a function from directives to sets of sources, empty if there is none.  *)
(***************************************************************************)
EXTENDS Naturals

CONSTANTS
    SessionCookies,  \* request cookies that show a login
    HarmlessCookies, \* response cookies that do not keep a page out of the cache
    FrameworkCookies \* response cookies every policy lets pass

RequestEligible(q, config) ==
    /\ ~config.cacheDisabled
    /\ q.method \in {"GET", "HEAD"}
    /\ ~q.query
    /\ q.path = "page"
    /\ ~q.authorization
    /\ q.cookies \cap SessionCookies = {}

\* The cookies that count are those the origin sent, before any are filtered.
ResponseEligible(q, r, config) ==
    /\ RequestEligible(q, config)
    /\ r.status = 200
    /\ r.html
    /\ r.setCookie \subseteq HarmlessCookies
    /\ config.ignoreCacheControl \/ ~r.private
    /\ ~r.varyStar

AllowedCookies(names, config) ==
    IF config.cookiePolicy = "passthrough"
    THEN names
    ELSE names \cap (FrameworkCookies \cup config.essential)

-----------------------------------------------------------------------------
Nonce(n) == <<"nonce", n>>
Api == <<"api", 0>>

\* The policy with more sources in a directive, which is made from default-src
\* if it is missing.
Widened(policy, directive, sources) ==
    LET base == IF directive \in DOMAIN policy THEN directive ELSE "default-src"
    IN  [d \in DOMAIN policy \cup {directive} |->
            IF d = directive THEN policy[base] \cup sources ELSE policy[d]]

\* Mutant: script-src is extended although script-src-elem overrides it.
MergeNonce_ScriptSrc(policy, n) ==
    IF DOMAIN policy \cap {"script-src", "default-src"} # {}
    THEN Widened(policy, "script-src", {Nonce(n)})
    ELSE policy

MergeNonce(policy, n) ==
    CASE "script-src-elem" \in DOMAIN policy -> Widened(policy, "script-src-elem", {Nonce(n)})
      [] /\ "script-src-elem" \notin DOMAIN policy
         /\ DOMAIN policy \cap {"script-src", "default-src"} # {} ->
           Widened(policy, "script-src", {Nonce(n)})
      [] OTHER -> policy

MergeConnectSrc(policy) ==
    IF DOMAIN policy \cap {"connect-src", "default-src"} # {}
    THEN Widened(policy, "connect-src", {Api})
    ELSE policy

\* How a browser reads a policy: the first of the directives it has decides.
Admits(policy, directives, source) ==
    \/ DOMAIN policy \cap {directives[i] : i \in DOMAIN directives} = {}
    \/ \E i \in DOMAIN directives :
          /\ directives[i] \in DOMAIN policy /\ source \in policy[directives[i]]
          /\ \A j \in 1..i - 1 : directives[j] \notin DOMAIN policy
AdmitsScript(policy, n) ==
    Admits(policy, <<"script-src-elem", "script-src", "default-src">>, Nonce(n))
AdmitsApi(policy) == Admits(policy, <<"connect-src", "default-src">>, Api)
=============================================================================
