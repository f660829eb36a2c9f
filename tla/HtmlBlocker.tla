---------------------------- MODULE HtmlBlocker -----------------------------
(***************************************************************************)
(* What the proxy blocks in a page and what the browser gives back.        *)
(* services/proxy/html-blocker.js decides, element by element, from the    *)
(* rules of the domain's configuration; unblockServerBlocked* of           *)
(* resources/js/manager.js reads the attributes it wrote and decides, from *)
(* the visitor's consent, which of them to restore.                        *)
(*                                                                         *)
(* An element is a record                                                  *)
(*   tag     : "script", "link" or "iframe"                                *)
(*   host    : of its src or href: "none" without one, "own" the site or a *)
(*             subdomain of it, "third" another http(s) host, "other" what *)
(*             the URL parser refuses (a path) or has no host (data:)      *)
(*   ours    : its attributes contain "ycookies"                           *)
(*   sheet   : its rel contains "stylesheet"                               *)
(*   closed  : it is written self-closing                                  *)
(*   matches : the rules whose handles, phrases or hosts occur in it       *)
(* and a rule is [id, service, group, any], any for the host "*".          *)
(***************************************************************************)
EXTENDS Naturals, Sequences, SequencesExt

CONSTANTS Names, None

\* A service or a group, or none.
Owner == Names \cup {None}
Rule == [id : Names, service : Owner, group : Owner, any : BOOLEAN]
Marking == [service : Owner, group : Owner, host : BOOLEAN]
Element ==
    [tag : {"script", "link", "iframe"}, host : {"none", "own", "third", "other"},
     ours : BOOLEAN, sheet : BOOLEAN, closed : BOOLEAN, matches : SUBSET Names]

\* The names that the code has, and what a model value or null never is.
ASSUME NameAssumption ==
    /\ {"universal", "marketing", "external_media", "discovered"} \subseteq Names
    /\ None \notin Names \cup Rule \cup Marking

\* What a configuration may be. The two groups that the code names are attached
\* to every domain when it is created; a rule may name groups that are gone.
WellFormed(config) ==
    /\ {config.scripts, config.styles, config.contents} \subseteq Seq(Rule)
    /\ config.auto \in [script : BOOLEAN, style : BOOLEAN, content : BOOLEAN]
    /\ config.fallback \in Rule \cup {None}
    /\ {"marketing", "external_media"} \subseteq config.groups
    /\ {config.universalScript, config.universalStyle} \subseteq Owner
    /\ config.groups \cup DOMAIN config.services \subseteq Names

\* The attributes written on a blocked element: data-ycookies-service,
\* -require-group, and -host where no rule but the element's own host counts.
MarkOf(rule) == [service |-> rule.service, group |-> rule.group, host |-> FALSE]
AutoMark(universal) ==
    [service |-> None, group |-> IF universal = None THEN "marketing" ELSE universal, host |-> TRUE]

\* The first rule of a list that names the element, or None.
FirstRule(rules, e) ==
    LET i == SelectInSeq(rules, LAMBDA r : r.id \in e.matches)
    IN  IF i = 0 THEN None ELSE rules[i]

\* The last rule for every host, or None.
WildcardRule(rules) ==
    LET i == SelectLastInSeq(rules, LAMBDA r : r.any) IN IF i = 0 THEN None ELSE rules[i]

ThirdParty(e) == e.host = "third"

\* A script of the proxy's own is never blocked.
DecideScript(e, config) ==
    LET rule == FirstRule(config.scripts, e)
    IN  CASE e.ours -> None
          [] ~e.ours /\ rule # None -> MarkOf(rule)
          [] ~e.ours /\ rule = None /\ config.auto.script /\ ThirdParty(e) -> AutoMark(config.universalScript)
          [] OTHER -> None

DecideStyle(e, config) ==
    LET rule == FirstRule(config.styles, e)
    IN  CASE ~e.sheet \/ e.host = "none" -> None
          [] e.sheet /\ e.host # "none" /\ rule # None -> MarkOf(rule)
          [] e.sheet /\ rule = None /\ config.auto.style /\ ThirdParty(e) -> AutoMark(config.universalStyle)
          [] OTHER -> None

\* An iframe that no rule names is blocked by the fallback of the domain, else by
\* a wildcard rule, else by a blocker made up on the spot. One of the site itself,
\* and one whose address has no host or cannot be parsed, is let through.
DecideContent(e, config) ==
    LET rule == FirstRule(config.contents, e)
        wildcard == WildcardRule(config.contents)
    IN  CASE e.host = "none" -> None
          [] e.host # "none" /\ rule # None -> MarkOf(rule)
          [] rule = None /\ config.auto.content /\ ThirdParty(e) ->
               CASE config.fallback # None -> MarkOf(config.fallback)
                 [] config.fallback = None /\ wildcard # None -> MarkOf(wildcard)
                 [] OTHER -> [service |-> "universal", group |-> "external_media", host |-> FALSE]
          [] OTHER -> None

Decide(e, config) ==
    CASE e.tag = "script" -> DecideScript(e, config)
      [] e.tag = "link"   -> DecideStyle(e, config)
      [] e.tag = "iframe" -> DecideContent(e, config)

-----------------------------------------------------------------------------
\* The browser's side: granted are the keys (groups, services and discovered
\* hosts) that the visitor's consent holds.
HasGroup(g, granted, config) == g \in granted \/ g \in config.required
HasService(s, granted, config) ==
    \/ s \in granted
    \/ s \in DOMAIN config.services /\ HasGroup(config.services[s], granted, config)

\* Mutant: the default group of elements without metadata is forgotten.
ShouldAllow_NoDefault(mark, default, granted, config) ==
    \/ mark.service # None /\ HasService(mark.service, granted, config)
    \/ mark.group # None /\ HasGroup(mark.group, granted, config)

ShouldAllow(mark, default, granted, config) ==
    \/ mark.service # None /\ HasService(mark.service, granted, config)
    \/ mark.group # None /\ HasGroup(mark.group, granted, config)
    \/ mark.service = None /\ mark.group = None /\ HasGroup(default, granted, config)
    \/ /\ mark.service = "universal"
       /\ HasGroup(default, granted, config) \/ HasGroup("marketing", granted, config)

MayUnblock(e, granted, config) ==
    LET mark == Decide(e, config)
    IN  IF e.tag = "iframe"
        THEN ShouldAllow(mark, "external_media", granted, config)
        ELSE \/ ShouldAllow(mark, "marketing", granted, config)
             \/ mark.host /\ "discovered" \in granted

-----------------------------------------------------------------------------
\* The rules that name an element.
Naming(e, config) ==
    LET rules == CASE e.tag = "script" -> config.scripts
                   [] e.tag = "link"   -> config.styles
                   [] e.tag = "iframe" -> config.contents
    IN  {r \in ToSet(rules) : r.id \in e.matches}

\* What the configuration says must be blocked: the elements that a rule names and,
\* where that is switched on, those of third parties.
Covered(e, config) ==
    CASE e.tag = "script" ->
           ~e.ours /\ (Naming(e, config) # {} \/ (config.auto.script /\ ThirdParty(e)))
      [] e.tag = "link" ->
           /\ e.sheet /\ e.host # "none"
           /\ Naming(e, config) # {} \/ (config.auto.style /\ ThirdParty(e))
      [] e.tag = "iframe" ->
           /\ e.host # "none"
           /\ Naming(e, config) # {} \/ (config.auto.content /\ ThirdParty(e))

\* The consents that can have to do with an element: for the services and groups
\* of the rules that name it or, if it is an iframe, stand in for one that does;
\* and for what is nobody's.
KeysOf(e, config) ==
    LET substitutes == {r \in ToSet(config.contents) : r.any} \cup ({config.fallback} \ {None})
        rules == Naming(e, config) \cup (IF e.tag = "iframe" THEN substitutes ELSE {})
        services == {r.service : r \in rules} \cup (IF e.tag = "iframe" THEN {"universal"} ELSE {})
    IN  services \cup {r.group : r \in rules}
        \cup {config.services[s] : s \in services \cap DOMAIN config.services}
        \cup (IF e.tag = "iframe"
              THEN {"marketing", "external_media"}
              ELSE {"marketing", "discovered", config.universalScript, config.universalStyle})

\* Blocked by a rule whose service and group the configuration does not have.
Orphaned(mark, config) ==
    /\ {mark.service, mark.group} # {None}
    /\ mark.service \notin DOMAIN config.services \cup {"universal"}
    /\ mark.group \notin config.groups

FullConsent(config) == config.groups \cup DOMAIN config.services
=============================================================================
