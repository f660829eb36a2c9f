------------------------------ MODULE EdgePage -------------------------------
(***************************************************************************)
(* A page on its way through the proxy (services/proxy/request-pipeline.js *)
(* 120-508): the headers are settled when the origin's arrive, then the    *)
(* body streams, in whatever chunks the network makes of it, through the   *)
(* injector (html-injector.js), the blocker (html-blocker-stream.js), the  *)
(* tap of the cache and the nonce replacer (csp-replace-stream.js); later  *)
(* requests get the cached headers and body with a nonce of their own. At  *)
(* the end the browser applies the visitor's consent to what it got.       *)
(*                                                                         *)
(* A body is a sequence of atoms, pairs of a kind and a number:            *)
(*   text                 anything of no interest                          *)
(*   mark 1..TailSize + 1 what shows that YCookies is already in the page  *)
(*   head 1..2, body 1..2 the pieces of "</head" and "</body"              *)
(*   char 1..2            the bytes of a character                         *)
(*   pair 1..2            one of two UTF-16 units, also cut by slice()     *)
(*   bad                  the replacement character                        *)
(*   tag e, end           the tag of element e, "</iframe>"                *)
(*   blocked e, frame e   a mutated tag, the placeholder of an iframe      *)
(*   manager g, token 1..3, loaded   the injected scripts, with the GPC    *)
(*                        flag g and the token that stands for the nonce   *)
(*   nonce n              what replaces each third of the token            *)
(***************************************************************************)
EXTENDS HtmlBlocker, ResponsePolicy, FiniteSetsExt

CONSTANTS
    Configs,        \* configurations of the domain
    Requests,       \* requests for the page
    Responses,      \* what the origin may answer
    Elements,       \* the elements of the pages, a sequence
    TailSize,       \* what the injector holds back of a chunk
    MaxCached,      \* longest body that is kept for the cache
    MaxServed       \* bound of the model: responses in a behaviour

ASSUME ConfigAssumption == \A c \in Configs : WellFormed(c) /\ c.bootstrapper \in BOOLEAN
ASSUME ElementAssumption == Elements \in Seq(Element)
ASSUME RequestAssumption == \A q \in Requests : q.gpc \in {0, 1}
ASSUME SizeAssumption == TailSize \in Nat \ {0, 1} /\ MaxCached \in Nat /\ MaxServed \in Nat

\* What a page of the origin is made of. To the parser all is text from the tag of
\* an iframe to its end; and no source of a policy is a nonce of the proxy's.
OriginAtoms ==
    ({"text", "mark", "head", "body", "char", "pair", "bad", "end"} \X Nat)
    \cup ({"tag"} \X DOMAIN Elements)
Opens(atom) ==
    atom[1] = "tag" /\ Elements[atom[2]].tag = "iframe" /\ ~Elements[atom[2]].closed
Nested(page) ==
    \A i, j \in DOMAIN page :
        i < j /\ Opens(page[i]) /\ page[j][1] = "tag" => \E k \in i..j : page[k][1] = "end"

ASSUME ResponseAssumption ==
    \A r \in Responses :
        /\ r.page \in Seq(OriginAtoms) /\ Nested(r.page)
        /\ \A d \in DOMAIN r.policy : \A s \in r.policy[d] : s[1] # "nonce"

VARIABLES
    config,     \* the configuration, fixed while a cache key is valid
    cached,     \* None, or the cached [headers, body, origin, raw]
    stream,     \* None, or the stages of the page that is passing through
    response,   \* the last response, as far as it was sent
    served      \* responses so far; also the nonce of the last one

vars == <<config, cached, stream, response, served>>

-----------------------------------------------------------------------------
\* Where a needle begins in a text.
Places(text, needle) ==
    {i \in 1..Len(text) - Len(needle) + 1 : SubSeq(text, i, i + Len(needle) - 1) = needle}
Has(text, needle) == Places(text, needle) # {}

Mark == [i \in 1..TailSize + 1 |-> <<"mark", i>>]
HeadEnd == <<<<"head", 1>>, <<"head", 2>>>>
BodyEnd == <<<<"body", 1>>, <<"body", 2>>>>
Token == <<<<"token", 1>>, <<"token", 2>>, <<"token", 3>>>>

\* Decoding bytes, or encoding UTF-16, turns every half of a character whose
\* other half is not next to it into the replacement character.
Torn(s, i) ==
    ~ \E other \in {i - 1, i + 1} \cap DOMAIN s :
         s[other][1] = s[i][1] /\ s[other][2] - s[i][2] = other - i
Coded(s, kinds) ==
    [i \in DOMAIN s |-> IF s[i][1] \in kinds /\ Torn(s, i) THEN <<"bad", 0>> ELSE s[i]]
Decoded(chunk) == Coded(chunk, {"char", "pair"})
Encoded(text) == Coded(text, {"pair"})

\* What is injected, with the GPC flag of the request that is being answered.
Tag(q) == <<<<"manager", q.gpc>>>> \o Token \o <<<<"loaded", 0>>>>
Insert(text, place, q) ==
    SubSeq(text, 1, place - 1) \o Tag(q) \o SubSeq(text, place, Len(text))

\* Mutant: the tail is one shorter, just too short for a mark that is cut.
Held_Short(text) ==
    LET cut == IF Len(text) > TailSize - 1 THEN Len(text) - TailSize + 1 ELSE 0
    IN  [out |-> Encoded(SubSeq(text, 1, cut)), tail |-> SubSeq(text, cut + 1, Len(text)), done |-> FALSE]

\* Mutant: the tail is not cut from what is passed on.
Held_Grows(text) ==
    [out |-> <<>>, tail |-> text, done |-> FALSE]

\* Nothing found yet: all but the tail is passed on.
Held(text) ==
    LET cut == IF Len(text) > TailSize THEN Len(text) - TailSize ELSE 0
    IN  [out |-> Encoded(SubSeq(text, 1, cut)), tail |-> SubSeq(text, cut + 1, Len(text)), done |-> FALSE]

\* One chunk through the injector while it has found nothing: a mark in what it
\* can see stops it, else it injects before the end of the head, or of the body.
Inject(tail, chunk, q) ==
    LET text == tail \o Decoded(chunk)
        Through(s) == [out |-> Encoded(s), tail |-> <<>>, done |-> TRUE]
    IN  CASE Has(text, Mark) -> Through(text)
          [] ~Has(text, Mark) /\ Has(text, HeadEnd) ->
               Through(Insert(text, Min(Places(text, HeadEnd)), q))
          [] ~Has(text, Mark) /\ ~Has(text, HeadEnd) /\ Has(text, BodyEnd) ->
               Through(Insert(text, Min(Places(text, BodyEnd)), q))
          [] OTHER -> Held(text)

\* One token of the HTML parser through the blocker, whose open is the blocked
\* iframe it is swallowing, or 0. (Inside an iframe all is text to the parser.)
BlockAtom(b, atom) ==
    LET e == Elements[atom[2]]
    IN  CASE b.open # 0 ->
               IF atom[1] = "end"
               THEN [open |-> 0, out |-> Append(b.out, <<"frame", b.open>>)]
               ELSE b
          [] b.open = 0 /\ atom[1] = "tag" /\ Decide(e, config) # None ->
               CASE e.tag # "iframe" -> [b EXCEPT !.out = Append(@, <<"blocked", atom[2]>>)]
                 [] e.tag = "iframe" /\ e.closed -> [b EXCEPT !.out = Append(@, <<"frame", atom[2]>>)]
                 [] OTHER -> [b EXCEPT !.open = atom[2]]
          [] OTHER -> [b EXCEPT !.out = Append(@, atom)]
Block(open, chunk) ==
    LET after[i \in 0..Len(chunk)] ==
          IF i = 0 THEN [open |-> open, out |-> <<>>] ELSE BlockAtom(after[i - 1], chunk[i])
    IN  after[Len(chunk)]

\* One chunk through the nonce replacer. A token that ends the chunk leaves the
\* old tail in place; here every chunk ends after a tag.
Replace(tail, chunk, n) ==
    LET all == tail \o chunk
        found == UNION {i..i + 2 : i \in Places(all, Token)}
        past == IF found = {} THEN 0 ELSE Max(found)
        keep == IF Len(all) - past > 2 THEN Len(all) - 2 ELSE past
    IN  [out  |-> [i \in 1..keep |-> IF i \in found THEN <<"nonce", n>> ELSE all[i]],
         tail |-> IF past = Len(all) THEN tail ELSE SubSeq(all, keep + 1, Len(all))]

-----------------------------------------------------------------------------
Init ==
    /\ config \in Configs
    /\ cached = None
    /\ stream = None
    /\ response = None
    /\ served = 0

IsHtml(r) == r.html /\ r.status \in 200..399

\* The headers of a response before any nonce is put into them.
Headers(q, r) ==
    [setCookie  |-> AllowedCookies(r.setCookie, config),
     policy     |-> r.policy,
     reportOnly |-> r.reportOnly,
     encoded    |-> r.encoded,
     cache      |-> IF ResponseEligible(q, r, config) THEN "miss" ELSE "bypass"]

\* The headers that are kept for the cache: copied before the nonce is merged,
\* and before the decompressor takes content-encoding from the reply.
CacheCopy(q, r) == [Headers(q, r) EXCEPT !.setCookie = {}]

\* The headers that are sent with a page of HTML.
HtmlHeaders(q, r, n) ==
    LET nonced == MergeNonce(r.policy, n)
    IN  [Headers(q, r) EXCEPT
            !.policy = IF config.api THEN MergeConnectSrc(nonced) ELSE nonced,
            !.reportOnly = MergeNonce(@, n),
            !.encoded = FALSE]

Readable(q) == RequestEligible(q, config) /\ ~q.revalidates /\ cached # None

\* The headers of the origin arrive for a request the cache does not answer. With
\* the circuit open, or for a country that is skipped, the page passes as it is.
Miss(q, r) ==
    /\ stream = None /\ served < MaxServed
    /\ ~Readable(q)
    /\ served' = served + 1
    /\ response' = [how |-> "miss", request |-> q, origin |-> r, raw |-> q.skips \/ ~IsHtml(r),
                    headers |-> IF IsHtml(r) THEN HtmlHeaders(q, r, served') ELSE Headers(q, r),
                    body |-> <<>>, complete |-> FALSE]
    /\ stream' = [rest |-> r.page, tail |-> <<>>, done |-> ~config.bootstrapper, open |-> 0,
                  held |-> <<>>, kept |-> <<>>, fits |-> ResponseEligible(q, r, config)]
    /\ UNCHANGED <<config, cached>>

\* A chunk, or the end of the body, passes the tap of the cache, which gives up
\* for good when the page becomes too long, and the nonce replacer.
Pass(s, chunk, flush) ==
    LET fits == s.fits /\ Len(s.kept) + Len(chunk) <= MaxCached
        replaced == Replace(s.held, chunk, served)
        body == response.body \o replaced.out \o (IF flush THEN replaced.tail ELSE <<>>)
    IN  /\ response' = [response EXCEPT !.body = body, !.complete = flush]
        /\ IF flush
           THEN /\ stream' = None
                /\ cached' = IF fits /\ s.kept \o chunk # <<>>
                             THEN [headers |-> CacheCopy(response.request, response.origin),
                                   body |-> s.kept \o chunk,
                                   origin |-> response.origin, raw |-> response.raw]
                             ELSE cached
           ELSE /\ stream' = [s EXCEPT !.held = replaced.tail, !.fits = fits,
                                       !.kept = IF fits THEN @ \o chunk ELSE <<>>]
                /\ UNCHANGED cached
        /\ UNCHANGED <<config, served>>

\* The next n atoms of the body arrive.
Chunk(n) ==
    /\ stream # None
    /\ n \in 1..Len(stream.rest)
    /\ LET chunk == SubSeq(stream.rest, 1, n)
           step == IF stream.done
                   THEN [out |-> Decoded(chunk), tail |-> <<>>, done |-> TRUE]
                   ELSE Inject(stream.tail, chunk, response.request)
           b == Block(stream.open, step.out)
           left == [stream EXCEPT !.rest = SubSeq(@, n + 1, Len(@))]
       IN  IF response.raw
           THEN Pass(left, chunk, FALSE)
           ELSE Pass([left EXCEPT !.tail = step.tail, !.done = step.done, !.open = b.open], b.out, FALSE)

\* The body ends: the injector appends to what it still holds if it has found no
\* place (its flush cannot find one either: a needle is never longer than one
\* chunk behind the tail), and what the blocker swallowed for an iframe that was
\* not closed is gone.
End ==
    /\ stream # None /\ stream.rest = <<>>
    /\ LET last == IF stream.done THEN <<>> ELSE Encoded(stream.tail) \o Tag(response.request)
       IN  Pass(stream, IF response.raw THEN <<>> ELSE Block(stream.open, last).out, TRUE)

\* The origin or the client gives up in the middle of the body.
BreakOff ==
    /\ stream # None
    /\ stream' = None
    /\ UNCHANGED <<config, cached, response, served>>

\* A page from the cache, whose whole body is one chunk for the nonce replacer.
Hit(q) ==
    /\ stream = None /\ served < MaxServed
    /\ Readable(q)
    /\ served' = served + 1
    /\ LET replaced == Replace(<<>>, cached.body, served')
       IN  response' =
             [how |-> "hit", request |-> q, origin |-> cached.origin, raw |-> cached.raw,
              headers |-> [cached.headers EXCEPT !.policy = MergeNonce(@, served'),
                                                 !.reportOnly = MergeNonce(@, served'),
                                                 !.cache = "hit"],
              body |-> replaced.out \o replaced.tail, complete |-> TRUE]
    /\ UNCHANGED <<config, cached, stream>>

\* The entry expires, or the cache of the host is flushed.
Expire ==
    /\ cached # None
    /\ cached' = None
    /\ UNCHANGED <<config, stream, response, served>>

Next ==
    \/ \E q \in Requests : Hit(q) \/ \E r \in Responses : Miss(q, r)
    \/ \E n \in 1..(IF stream = None THEN 0 ELSE Len(stream.rest)) : Chunk(n)
    \/ End \/ BreakOff \/ Expire

Spec == Init /\ [][Next]_vars

-----------------------------------------------------------------------------
Kinds == {"text", "mark", "head", "body", "char", "pair", "bad", "tag", "end", "blocked",
          "frame", "manager", "token", "loaded", "nonce"}
Atoms == Kinds \X Nat

\* No stage holds back more than its tail, and the cache never more than allowed.
TypeOK ==
    /\ config \in Configs
    /\ served \in 0..MaxServed
    /\ stream # None =>
          /\ stream.done \in BOOLEAN /\ stream.fits \in BOOLEAN
          /\ Len(stream.tail) <= TailSize /\ (stream.done => stream.tail = <<>>)
          /\ Len(stream.held) <= 2 /\ Len(stream.kept) <= MaxCached
          /\ stream.open \in 0..Len(Elements)
    /\ response # None =>
          /\ response.complete \in BOOLEAN /\ response.raw \in BOOLEAN
          /\ \A i \in DOMAIN response.body : response.body[i] \in Atoms
    /\ cached # None => Len(cached.body) \in 1..MaxCached

Done == response # None /\ response.complete
Transformed == Done /\ ~response.raw

\* What the injector may make of a page: the place is chosen in the part that has
\* come with the first needle, whatever that part is, and a mark in it prevails.
Injections(page, q) ==
    LET Decisive(x) == \E needle \in {Mark, HeadEnd, BodyEnd} : Has(SubSeq(page, 1, x), needle)
        Of(x) ==
            LET part == SubSeq(page, 1, x)
            IN  CASE Has(part, Mark) -> page
                  [] ~Has(part, Mark) /\ Has(part, HeadEnd) -> Insert(page, Min(Places(part, HeadEnd)), q)
                  [] OTHER -> Insert(page, Min(Places(part, BodyEnd)), q)
        cuts == {x \in 1..Len(page) : Decisive(x)}
    IN  CASE ~config.bootstrapper -> {page}
          [] config.bootstrapper /\ cuts = {} -> {page \o Tag(q)}
          [] OTHER -> {Of(x) : x \in cuts}

\* A page without what tells damaged characters, requests and responses apart.
BlurredAtom(a) ==
    CASE a[1] \in {"char", "pair", "bad"} -> <<"bad", 0>>
      [] a[1] = "manager" -> <<"manager", 0>>
      [] a[1] \in {"token", "nonce"} -> <<"token", 0>>
      [] OTHER -> a
Blurred(page) == [i \in DOMAIN page |-> BlurredAtom(page[i])]

\* However a body is cut into chunks, what is sent, and what the cache sends later,
\* is the page as a whole with the scripts injected and the elements blocked, but
\* for characters that a cut has damaged. An untransformed page is untouched.
Faithful ==
    Done => IF response.raw
            THEN response.body = response.origin.page
            ELSE Blurred(response.body) \in
                   {Blurred(Block(0, page).out) :
                        page \in Injections(response.origin.page, response.request)}

\* Header and body of a response belong together. The policy admits exactly the
\* nonce of its own scripts and no token is left; the API is admitted, the GPC flag
\* is the visitor's, and the body is encoded as announced. A hit brings nobody
\* else's cookies or nonce, but keeps the rendering visitor's flag, lacks the API
\* and announces an encoding the decompressor has removed.
ResponseFits ==
    Done /\ IsHtml(response.origin) =>
        LET Of(kind) == {response.body[i][2] : i \in {j \in DOMAIN response.body :
                                                         response.body[j][1] = kind}}
            miss == response.how = "miss"
            named == UNION {response.headers.policy[d] : d \in DOMAIN response.headers.policy}
        IN  /\ Of("token") = {} /\ Of("nonce") \subseteq {served}
            /\ \A n \in Of("nonce") : /\ AdmitsScript(response.headers.policy, n)
                                      /\ AdmitsScript(response.headers.reportOnly, n)
            /\ \A s \in named : s[1] = "nonce" => s[2] = served
            /\ ~miss => /\ response.headers.setCookie = {}
                        /\ response.origin.setCookie \subseteq HarmlessCookies
            /\ miss => /\ config.api => AdmitsApi(response.headers.policy)
                       /\ Of("manager") \subseteq {response.request.gpc}
            /\ response.headers.encoded => ~miss /\ response.origin.encoded

\* What the browser runs or shows of a page under the consent granted.
Live(body, granted) ==
    {body[i][2] : i \in {j \in DOMAIN body :
        \/ body[j][1] = "tag"
        \/ body[j][1] \in {"blocked", "frame"} /\ MayUnblock(Elements[body[j][2]], granted, config)}}

\* Elements that a rule names or that come from third parties run only with a
\* consent that concerns them, and with full consent everything runs that the
\* origin sent but an iframe it did not close, unless the rule that blocks it
\* names a service or group the configuration does not have.
ConsentGoverns ==
    Transformed =>
        LET sent == response.origin.page
            Orphan(e) == Decide(e, config) # None /\ Orphaned(Decide(e, config), config)
            full == FullConsent(config)
        IN  /\ \A granted \in SUBSET (full \cup {"discovered"}) :
                  \A x \in Live(response.body, granted) :
                     Covered(Elements[x], config) =>
                        KeysOf(Elements[x], config) \cap (granted \cup config.required) # {}
            /\ \A i \in DOMAIN sent :
                  /\ sent[i][1] = "tag" /\ ~Orphan(Elements[sent[i][2]])
                  /\ Opens(sent[i]) => \E j \in i..Len(sent) : sent[j][1] = "end"
                  => sent[i][2] \in Live(response.body, full)
=============================================================================
