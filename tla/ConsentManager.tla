--------------------------- MODULE ConsentManager ---------------------------
(***************************************************************************)
(* The consent engine of a page (resources/js/manager.js): loading the     *)
(* configuration and the stored consent, asking, saving a choice, and      *)
(* releasing what was blocked; with the storage its pages share, the hub   *)
(* that a tenant's sites share, and the cache the configuration comes from.*)
(*                                                                         *)
(* One page is followed from opening to leaving, again and again.  Other   *)
(* pages, of this site and of the tenant's other sites, write the shared   *)
(* storage at any moment.                                                  *)
(***************************************************************************)
EXTENDS Naturals, FiniteSets

CONSTANTS
    Groups, Services,    \* keys of a consent, required groups left out
    GroupOf,             \* the group that lists a service
    ProviderOf,          \* provider_key of a service
    Providers,
    Marketing, Media,    \* the two groups the code names
    Resources,           \* what the page embeds: see Resource
    CrossDomain,         \* values the domain's setting of that name takes
    MaxVersion,          \* bound: consent versions
    None

Keys == Groups \cup Services

\* kind: "payload" injected for a service; "server" blocked by the proxy;
\* "embed" placeholder of the proxy with buttons; "client" met in the browser.
Resource == [kind : {"payload", "server", "embed", "client"},
             service : Services \cup {None}, group : Groups \cup {None},
             provider : Providers \cup {None}]

ASSUME ConsentAssumption ==
    /\ GroupOf \in [Services -> Groups] /\ ProviderOf \in [Services -> Providers]
    /\ {Marketing, Media} \subseteq Groups
    /\ Resources \subseteq Resource /\ MaxVersion \in Nat \ {0}
    /\ CrossDomain \subseteq BOOLEAN /\ None \notin 0..MaxVersion
    /\ \A r \in Resources : r.kind = "payload" => r.service # None

VARIABLES
    current,    \* domains.consent_version
    cached,     \* its value in Laravel's cached configuration, 0 if none
    cookie,     \* the cookies of the site: consent, and providers allowed
    providers,
    saved,      \* ycookies_consent_version in localStorage, 0 if absent
    hub,        \* the choice stored at the hub, None at first
    phase,      \* of the page
    shown,      \* the consent version of the page's configuration
    state,      \* consentState
    frame,      \* the hub's iframe: "late" once an answer came after its timeout
    answer,     \* what it answers, while the answer is on its way
    asks,       \* the listeners that will show the banner are attached
    dialog,     \* "lost": one reopened was removed by the fading of the one before
    widget,
    loaded,     \* what has been released in this page
    signals     \* the groups whose signals Google was last told are granted

shared == <<cookie, providers, saved, hub>>
page == <<phase, shown, state, frame, answer, asks, dialog, widget, loaded, signals>>
vars == <<current, cached, shared, page>>

-----------------------------------------------------------------------------
\* A consent and the version of the text it was given for; 0 is one that came
\* from the hub, which keeps no version, None the absence of a consent.
Consents == [granted : SUBSET Keys, version : (0..MaxVersion) \cup {None}]
NoConsent == [granted |-> {}, version |-> None]

TypeOK ==
    /\ current \in 1..MaxVersion /\ cached \in 0..MaxVersion
    /\ cookie \in Consents /\ state \in Consents
    /\ providers \subseteq Providers /\ saved \in 0..MaxVersion
    /\ hub \in (SUBSET Keys) \cup {None}
    /\ phase \in {"closed", "loading", "hub", "ready", "off"}
    /\ shown \in 0..MaxVersion
    /\ frame \in {"none", "loading", "answering", "done", "late"}
    /\ answer \in (SUBSET Keys) \cup {None}
    /\ dialog \in {"none", "open", "fading", "reopened", "lost"}
    /\ widget \in {"none", "visible", "hidden"}
    /\ loaded \subseteq Resources /\ signals \subseteq Groups
    /\ asks \in BOOLEAN
-----------------------------------------------------------------------------
Blank ==
    /\ state' = NoConsent /\ frame' = "none" /\ answer' = None /\ asks' = FALSE
    /\ dialog' = "none" /\ widget' = "none" /\ loaded' = {} /\ signals' = {}

Init ==
    /\ current = 1 /\ cached = 0
    /\ cookie = NoConsent /\ providers = {} /\ saved = 0 /\ hub = None
    /\ phase = "closed" /\ shown = 0
    /\ state = NoConsent /\ frame = "none" /\ answer = None /\ asks = FALSE
    /\ dialog = "none" /\ widget = "none" /\ loaded = {} /\ signals = {}

-----------------------------------------------------------------------------
\* What a consent allows.

HasService(s, granted) == s \in granted \/ GroupOf[s] \in granted

\* By the service, or by the group the element requires or its kind falls back to.
Allowed(r, granted) ==
    \/ r.service # None /\ HasService(r.service, granted)
    \/ r.group \in granted

\* Mutant: placeholders with buttons are released like the unmarked old ones.
Injected_Unmarked(granted) ==
    {r \in Resources : \/ r.kind = "payload" /\ GroupOf[r.service] \in granted
                       \/ r.kind = "server" /\ Allowed(r, granted)
                       \/ r.kind = "embed"}

\* What injectConsentedServices injects and unblocks.  A payload follows the
\* group alone, whatever was chosen for the service.
Injected(granted) ==
    {r \in Resources : \/ r.kind = "payload" /\ GroupOf[r.service] \in granted
                       \/ r.kind \in {"server", "embed"} /\ Allowed(r, granted)}

\* The placeholders autoRestoreEmbeds turns back into what they stand for.
Restored(granted, allowed) ==
    {r \in Resources :
        /\ r.kind = "embed"
        /\ \/ r.provider \in allowed
           \/ r.group \in granted
           \/ /\ r.service # None
              /\ \E s \in Services : /\ GroupOf[s] \in granted
                                     /\ s = r.service \/ ProviderOf[s] = r.provider}

\* What the interceptors let pass, in a scan or as it is inserted or requested.
Passed(granted) ==
    {r \in Resources : r.kind = "client" /\ (Allowed(r, granted) \/ Marketing \in granted)}

-----------------------------------------------------------------------------
\* Saving a choice.

\* consentState is merged with the new choice; a choice for every key is given
\* for the version shown, another keeps its doubt about the rest.
Merged(old, keys, granted) ==
    [granted |-> (old.granted \ keys) \cup granted,
     version |-> IF old.version = 0 /\ keys # Keys THEN 0 ELSE shown]

\* Mutant: Google is told before the choice is merged.
SaveConsent_SignalsFirst(new) ==
    /\ state' = new /\ cookie' = new /\ saved' = shown
    /\ hub' = IF frame \in {"answering", "done", "late"} THEN new.granted ELSE hub
    /\ signals' = state.granted \cap Groups

\* The cookie, the version, the hub if its iframe has loaded, Google's signals;
\* what is released and shown is in the actions that save.
SaveConsent(new) ==
    /\ state' = new /\ cookie' = new /\ saved' = shown
    /\ hub' = IF frame \in {"answering", "done", "late"} THEN new.granted ELSE hub
    /\ signals' = new.granted \cap Groups

\* Mutant: what was blocked waits for the next page.
Released_NextPage(granted) == loaded \cup Restored(granted, providers)

\* Released by a save in a page that has finished loading.
Released(granted) == loaded \cup Injected(granted) \cup Restored(granted, providers)

-----------------------------------------------------------------------------
\* The end of init, without a pause: c is the consent that was found.

\* Mutant: only an older version is a mismatch.
Current_Older(c) == IF c.version # None /\ saved # 0 /\ saved < shown THEN NoConsent ELSE c

\* A consent saved for another version than the one shown is cleared.
Current(c) == IF c.version # None /\ saved # 0 /\ saved # shown THEN NoConsent ELSE c

\* ?ycookies_consent= overrides it.
Overridden(c) ==
    {c, NoConsent, [granted |-> Keys, version |-> shown], [granted |-> {}, version |-> shown]}

\* Nothing is known: the signal of Global Privacy Control refuses, a relaxed
\* region accepts, and anyone else is asked, at once or on the first movement.
StartUnanswered(c, version) ==
    \/ /\ \E granted \in {{}, Keys} : SaveConsent(Merged(c, Keys, granted))
       /\ widget' = "visible" /\ UNCHANGED <<asks, dialog>>
    \/ /\ state' = c /\ cookie' = NoConsent /\ saved' = version
       /\ asks' \in BOOLEAN /\ dialog' = IF asks' THEN "none" ELSE "open"
       /\ UNCHANGED <<hub, signals, widget>>

StartAnswered(c) ==
    /\ state' = c /\ cookie' = c /\ saved' = shown
    /\ signals' = c.granted \cap Groups /\ widget' = "visible"
    /\ UNCHANGED <<hub, asks, dialog>>

\* The scan comes before the override, the placeholders come last.
Start(found) ==
    LET kept == Current(found)
        version == IF kept = found THEN saved ELSE 0
    IN  /\ phase' = "ready"
        /\ \E c \in Overridden(kept) :
              IF c.version # None THEN StartAnswered(c)
              ELSE \E v \in {0, IF c = kept THEN version ELSE 0} : StartUnanswered(c, v)
        /\ loaded' = loaded \cup Passed(kept.granted)
                            \cup (IF state'.version = None THEN {} ELSE Injected(state'.granted))
                            \cup Restored(state'.granted, providers)
        /\ UNCHANGED <<current, cached, providers, shown>>

\* loadLocalConsent: without a cookie consentState stays what it is.
Local == IF cookie = NoConsent THEN state ELSE cookie

-----------------------------------------------------------------------------
\* Around the page.

\* A change of groups or services: the version is incremented and the cached
\* configuration forgotten.
IncrementVersion ==
    /\ current < MaxVersion
    /\ current' = current + 1 /\ cached' = 0
    /\ UNCHANGED <<shared, page>>

\* Mutant: the cached configuration never expires.
ExpireCache_Never == FALSE /\ UNCHANGED vars

\* Five minutes are over.
ExpireCache ==
    /\ cached # 0 /\ cached' = 0
    /\ UNCHANGED <<current, shared, page>>

\* Another page of the site, opened under any version, saves a full choice; the
\* page of another site of the tenant does so at the hub.
OtherPage(granted) ==
    /\ \E v \in 1..current : cookie' = [granted |-> granted, version |-> v] /\ saved' = v
    /\ UNCHANGED <<current, cached, providers, hub, page>>
OtherSite(granted) ==
    /\ hub' = granted
    /\ UNCHANGED <<current, cached, cookie, providers, saved, page>>

\* The cookie's year is over.
CookieExpires ==
    /\ cookie # NoConsent /\ cookie' = NoConsent
    /\ UNCHANGED <<current, cached, providers, saved, hub, page>>

-----------------------------------------------------------------------------
\* Loading.

\* The page asks where the visitor is and for its configuration: Laravel reads
\* the domain,
Open ==
    /\ phase = "closed" /\ phase' = "loading"
    /\ shown' = current
    /\ UNCHANGED <<current, cached, shared, state, frame, answer, asks, dialog,
                   widget, loaded, signals>>

\* and then answers from its cache, where it keeps what it has read.  Without
\* the hub, init goes on at once.
ConfigLoads ==
    /\ phase = "loading"
    /\ LET version == IF cached = 0 THEN shown ELSE cached
       IN  shown' = version /\ cached' = version
    /\ phase' = "hub"
    /\ \E cross \in CrossDomain : frame' = IF cross THEN "loading" ELSE "none"
    /\ UNCHANGED <<current, shared, state, answer, asks, dialog, widget, loaded,
                   signals>>

\* init returns: neither interceptors nor a banner.
ConfigFails ==
    /\ phase = "loading" /\ phase' = "off"
    /\ UNCHANGED <<current, cached, shared, shown, state, frame, answer, asks,
                   dialog, widget, loaded, signals>>

\* The hub says it is ready, is asked, and answers with what it holds now.
HubReads ==
    /\ frame = "loading" /\ frame' = "answering" /\ answer' = hub
    /\ UNCHANGED <<current, cached, shared, phase, shown, state, asks, dialog,
                   widget, loaded, signals>>

HubAnswersInTime ==
    /\ frame = "answering" /\ phase = "hub"
    /\ frame' = "done" /\ answer' = None
    /\ Start(IF answer = None THEN Local ELSE [granted |-> answer, version |-> 0])

\* Mutant: without an answer init waits on.
NoHub_Waits ==
    /\ phase = "hub" /\ frame = "none"
    /\ Start(Local)
    /\ UNCHANGED <<frame, answer>>

\* No hub, or none within three seconds.
NoHub ==
    /\ phase = "hub"
    /\ Start(Local)
    /\ UNCHANGED <<frame, answer>>

\* The listener is still there after the timeout: consentState and the cookie
\* are overwritten, and nothing else follows.
HubAnswersLate ==
    /\ frame = "answering" /\ phase = "ready"
    /\ answer' = None
    /\ IF answer = None THEN frame' = "done" /\ UNCHANGED <<state, cookie>>
       ELSE /\ frame' = "late" /\ state' = [granted |-> answer, version |-> 0]
            /\ cookie' = state'
    /\ UNCHANGED <<current, cached, providers, saved, hub, phase, shown, asks,
                   dialog, widget, loaded, signals>>

\* A consent tool outside this code reports a TC string: two groups are granted
\* whatever it says, and nothing is stored.
OutsideTc ==
    /\ phase \in {"hub", "ready"}
    /\ state' = [state EXCEPT !.granted = @ \cup {Marketing}]
    /\ signals' = state'.granted \cap Groups
    /\ loaded' = loaded \cup Injected(state'.granted)
    /\ UNCHANGED <<current, cached, shared, phase, shown, frame, answer, asks,
                   dialog, widget>>

\* Until the interceptors are in place, and wherever they are not, an element
\* that a script inserts is not looked at.
InsertedUnseen(r) ==
    /\ phase \in {"loading", "hub", "off"} /\ r.kind = "client" /\ r \notin loaded
    /\ loaded' = loaded \cup {r}
    /\ UNCHANGED <<current, cached, shared, phase, shown, state, frame, answer,
                   asks, dialog, widget, signals>>
Inserted(r) ==
    /\ phase = "ready" /\ r \in Passed(state.granted) \ loaded
    /\ loaded' = loaded \cup {r}
    /\ UNCHANGED <<current, cached, shared, phase, shown, state, frame, answer,
                   asks, dialog, widget, signals>>

-----------------------------------------------------------------------------
\* The visitor.

\* The first movement shows the banner, even if consent has come another way.
Moves ==
    /\ phase = "ready" /\ asks /\ asks' = FALSE
    /\ dialog' = "open"
    /\ UNCHANGED <<current, cached, shared, phase, shown, state, frame, answer,
                   widget, loaded, signals>>

\* What the banner's checkboxes can say: a group is checked with the first of
\* its services and unchecked with the last.
Choices == {granted \in SUBSET Keys :
              \A g \in Groups : LET own == {s \in Services : GroupOf[s] = g}
                                IN  own # {} => (g \in granted <=> own \cap granted # {})}

\* Mutant: the widget that was hidden stays so.
Choose_KeepsHidden(granted) ==
    /\ phase = "ready" /\ dialog \in {"open", "reopened"} /\ granted \in Choices
    /\ LET new == Merged(state, Keys, granted)
       IN  SaveConsent(new) /\ loaded' = Released(new.granted)
    /\ dialog' = "fading" /\ widget' = IF widget = "none" THEN "visible" ELSE widget
    /\ UNCHANGED <<current, cached, providers, phase, shown, frame, answer, asks>>

\* Accept all, essential only, or what is checked: saved, and the banner fades.
Choose(granted) ==
    /\ phase = "ready" /\ dialog \in {"open", "reopened"} /\ granted \in Choices
    /\ LET new == Merged(state, Keys, granted)
       IN  SaveConsent(new) /\ loaded' = Released(new.granted)
    /\ dialog' = "fading" /\ widget' = "visible"
    /\ UNCHANGED <<current, cached, providers, phase, shown, frame, answer, asks>>

\* 300 ms later the dialog is removed: whichever is there by then.
Fades ==
    /\ dialog \in {"fading", "reopened"}
    /\ dialog' = IF dialog = "fading" THEN "none" ELSE "lost"
    /\ UNCHANGED <<current, cached, shared, phase, shown, state, frame, answer,
                   asks, widget, loaded, signals>>

\* Mutant: the widget's state gets a name nothing else knows.
Reopen_Misspelled ==
    /\ widget = "visible" /\ ~asks
    /\ widget' = "hide"
    /\ dialog' = IF dialog = "fading" THEN "reopened" ELSE "open"
    /\ UNCHANGED <<current, cached, shared, phase, shown, state, frame, answer,
                   asks, loaded, signals>>

\* The widget opens the dialog again and hides.  A pointer that reaches it has
\* moved, so that no listener is waiting to show the banner.
Reopen ==
    /\ widget = "visible" /\ ~asks
    /\ widget' = "hidden"
    /\ dialog' = IF dialog = "fading" THEN "reopened" ELSE "open"
    /\ UNCHANGED <<current, cached, shared, phase, shown, state, frame, answer,
                   asks, loaded, signals>>

\* The button in a frame blocked in the browser: its key and marketing are
\* granted, and the page is scanned again.
AcceptInFrame(r, key) ==
    /\ phase = "ready" /\ r.kind = "client" /\ r \notin loaded
    /\ key \in {r.service, Media} \ {None}
    /\ LET new == Merged(state, {key, Marketing}, {key, Marketing})
       IN  SaveConsent(new) /\ loaded' = Released(new.granted) \cup Passed(new.granted)
    /\ widget' = IF widget = "none" THEN "visible" ELSE widget
    /\ UNCHANGED <<current, cached, providers, phase, shown, frame, answer, asks,
                   dialog>>

\* "Load this content": for this placeholder, in this page.
AcceptOnce(r) ==
    /\ phase = "ready" /\ r.kind = "embed" /\ r \notin loaded
    /\ loaded' = loaded \cup {r}
    /\ UNCHANGED <<current, cached, shared, phase, shown, state, frame, answer,
                   asks, dialog, widget, signals>>

\* "Always allow": kept in a cookie of its own.  On a floating widget it also
\* unblocks the scripts of its service.
AcceptProvider(r, floating) ==
    /\ phase = "ready" /\ r.kind = "embed" /\ r.provider # None
    /\ providers' = providers \cup {r.provider}
    /\ loaded' = loaded \cup {e \in Resources :
                       \/ e.kind = "embed" /\ e.provider = r.provider
                       \/ floating /\ e.kind = "server" /\ e.service # None /\ e.service = r.service}
    /\ signals' = state.granted \cap Groups
    /\ UNCHANGED <<current, cached, cookie, saved, hub, phase, shown, state,
                   frame, answer, asks, dialog, widget>>

Leave ==
    /\ phase # "closed" /\ phase' = "closed" /\ shown' = 0
    /\ Blank
    /\ UNCHANGED <<current, cached, shared>>

Next ==
    \/ IncrementVersion \/ ExpireCache \/ CookieExpires
    \/ \E granted \in {{}, Keys} : OtherPage(granted) \/ OtherSite(granted)
    \/ Open \/ ConfigLoads \/ ConfigFails
    \/ HubReads \/ HubAnswersInTime \/ NoHub \/ HubAnswersLate \/ OutsideTc
    \/ Moves \/ Fades \/ Reopen
    \/ \E granted \in SUBSET Keys : Choose(granted)
    \/ \E r \in Resources : \/ InsertedUnseen(r) \/ Inserted(r) \/ AcceptOnce(r)
                            \/ \E key \in Keys : AcceptInFrame(r, key)
                            \/ \E floating \in BOOLEAN : AcceptProvider(r, floating)
    \/ Leave

\* Requests end, timers fire, visitors move and come again.
Fairness ==
    /\ WF_vars(ExpireCache) /\ WF_vars(Open)
    /\ WF_vars(ConfigLoads \/ ConfigFails) /\ WF_vars(NoHub)
    /\ WF_vars(Moves)

Spec == Init /\ [][Next]_vars
FairSpec == Spec /\ Fairness

-----------------------------------------------------------------------------
\* A consent in force was given for the version the page shows, unless it came
\* from the hub, which does not say.
ConsentIsCurrent ==
    phase = "ready" /\ state.version # None => state.version \in {0, shown}

\* While nothing is granted, a page whose interceptors are in place releases
\* what the visitor presses, or what a provider always allowed brings, only.
\* (The first scan, before ?ycookies_consent=, goes by the stored consent.)
NothingUngranted ==
    [][phase' = "ready" /\ state'.granted = {} =>
          \A r \in loaded' \ loaded :
             \/ r.provider \in providers'
             \/ r.kind = "embed" /\ loaded' = loaded \cup {r}
             \/ r.kind = "server" /\ \E e \in loaded' : e.kind = "embed" /\ e.service = r.service
             \/ r.kind = "client" /\ phase # "ready"]_vars

\* Google has been told the groups of the consent in force, after every sequence
\* of saves, overrides, presses and TC strings, unless a hub answer came late.
SignalsFollow ==
    phase = "ready" /\ state.version # None /\ frame # "late" => signals = state.granted \cap Groups

\* Whoever grants everything, at once or piece by piece, gets everything the
\* proxy blocked and every payload in this very page.
FullConsentLoads ==
    phase = "ready" /\ state.granted = Keys /\ frame # "late" =>
        \A r \in Resources :
           r.kind = "client" \/ {r.service, r.group} = {None} \/ r \in loaded

\* Whoever has answered can change the answer: the dialog is open, the listeners
\* will open it, or the widget is there, unless a dialog reopened within 300 ms
\* was removed by the fading of the one before, which leaves the widget hidden.
CanReconsider ==
    phase = "ready" /\ state.version # None =>
        asks \/ dialog \in {"open", "reopened"} \/ widget = "visible" \/ dialog = "lost"

\* A page that gets its configuration asks or has an answer, whether the hub
\* answers or not.
Asked ==
    phase = "loading" ~> \/ phase \in {"closed", "off"}
                         \/ phase = "ready" /\ (state.version # None \/ dialog = "open")

\* Once the version stays, and if visitors leave their pages one day, pages stop
\* showing an older one, although a request may put a configuration it read before
\* the increment into the cache after it; no consent for an older one stays in force.
EventuallyRenewed ==
    WF_vars(Leave) => <>[](phase = "ready" => shown = current /\ state.version \in {None, 0, current})
=============================================================================
