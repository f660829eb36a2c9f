----------------------- MODULE ConsentManager_proof -------------------------
(***************************************************************************)
(* Proofs about ConsentManager for any groups, services, providers and     *)
(* resources of a page, and any number of versions.                        *)
(***************************************************************************)
EXTENDS ConsentManager, TLAPS

\* The cookie holds a consent or nothing, and the version saved beside it is its
\* own, unless it came from the hub.
CookieSound ==
    /\ cookie.version = None => cookie = NoConsent
    /\ cookie.version \notin {None, 0} => cookie.version = saved

\* Before init has ended there is no answer, and nothing to change one with.
Unanswered ==
    /\ phase \in {"closed", "loading", "off"} => state = NoConsent
    /\ phase # "ready" => state.version = None /\ widget = "none"

\* Whatever the consent in force injects has been injected.
AllInjected ==
    phase \in {"hub", "ready"} /\ frame # "late" => Injected(state.granted) \subseteq loaded

\* A page that has no widget is asking, and a hidden widget has left a dialog.
WidgetReachable ==
    phase = "ready" => /\ widget = "none" => asks \/ dialog = "open"
                       /\ widget = "hidden" => dialog \in {"open", "reopened", "lost"}

IInv ==
    /\ TypeOK /\ CookieSound /\ Unanswered /\ AllInjected /\ WidgetReachable
    /\ ConsentIsCurrent /\ SignalsFollow

USE DEF vars, shared, page

-----------------------------------------------------------------------------
\* Injection.

\* Nothing granted, nothing injected.
LEMMA NothingInjected == Injected({}) = {}
<1>1. GroupOf \in [Services -> Groups] /\ Resources \subseteq Resource
  BY ConsentAssumption
<1> QED
  BY <1>1 DEF Injected, Allowed, HasService

\* Everything granted, everything that the proxy blocked or Laravel sent.
LEMMA EverythingInjected ==
    ASSUME NEW r \in Resources, r.kind # "client", {r.service, r.group} # {None}
    PROVE  r \in Injected(Keys)
<1>1. r \in Resource /\ GroupOf \in [Services -> Groups]
  BY ConsentAssumption
<1>2. r.service # None => GroupOf[r.service] \in Keys
  BY <1>1 DEF Resource, Keys
<1>3. r.group # None => r.group \in Keys
  BY <1>1 DEF Resource, Keys
<1>4. r.service # None \/ r.group # None
  OBVIOUS
<1>5. r.kind \in {"payload", "server", "embed"}
  BY <1>1 DEF Resource
<1>6. CASE r.kind = "payload"
  <2>1. r.service # None
    BY <1>6, ConsentAssumption
  <2> QED
    BY <1>2, <1>6, <2>1 DEF Injected
<1>7. CASE r.kind \in {"server", "embed"}
  BY <1>2, <1>3, <1>4, <1>7 DEF Injected, Allowed, HasService
<1> QED
  BY <1>5, <1>6, <1>7

\* What is released is among the page's resources.
LEMMA ReleasedTyped ==
    ASSUME loaded \subseteq Resources, NEW granted, NEW allowed
    PROVE  /\ Injected(granted) \subseteq Resources
           /\ Restored(granted, allowed) \subseteq Resources
           /\ Passed(granted) \subseteq Resources
           /\ Released(granted) \subseteq Resources
           /\ Injected(granted) \subseteq Released(granted)
BY DEF Injected, Restored, Passed, Released

\* A version is not None.
LEMMA VersionsAre ==
    /\ None \notin 0..MaxVersion /\ MaxVersion \in Nat \ {0}
    /\ Marketing \in Groups /\ Media \in Groups
    /\ CrossDomain \subseteq BOOLEAN
BY ConsentAssumption

LEMMA ConsentsAre ==
    /\ \A c \in Consents : c.granted \in SUBSET Keys /\ c.version \in (0..MaxVersion) \cup {None}
    /\ NoConsent \in Consents
    /\ \A g \in SUBSET Keys, v \in 0..MaxVersion : [granted |-> g, version |-> v] \in Consents
BY DEF Consents, NoConsent

\* A choice merged with what was known is a consent for the version shown, or
\* keeps its doubt.
LEMMA MergedSound ==
    ASSUME TypeOK, NEW old \in Consents, NEW keys \in SUBSET Keys, NEW granted \in SUBSET Keys
    PROVE  /\ Merged(old, keys, granted) \in Consents
           /\ Merged(old, keys, granted).version \in {0, shown}
           /\ Merged(old, keys, granted).version # None
           /\ keys = Keys => Merged(old, keys, granted).version = shown
           /\ granted \subseteq Merged(old, keys, granted).granted
<1>1. shown \in 0..MaxVersion
  BY DEF TypeOK
<1>2. old.granted \in SUBSET Keys
  BY ConsentsAre
<1>3. 0 \in 0..MaxVersion
  BY VersionsAre
<1> QED
  BY <1>1, <1>2, <1>3, VersionsAre DEF Merged, Consents

-----------------------------------------------------------------------------
\* The initial states.
LEMMA InitSound == Init => IInv
<1> SUFFICES ASSUME Init PROVE IInv
  OBVIOUS
<1> USE DEF Init
<1>1. TypeOK
  <2>1. 1 \in 1..MaxVersion /\ 0 \in 0..MaxVersion
    BY VersionsAre
  <2> QED
    BY <2>1, ConsentsAre DEF TypeOK
<1>2. CookieSound /\ Unanswered
  BY DEF CookieSound, Unanswered, NoConsent
<1>3. AllInjected /\ WidgetReachable /\ ConsentIsCurrent /\ SignalsFollow
  BY DEF AllInjected, WidgetReachable, ConsentIsCurrent, SignalsFollow
<1> QED
  BY <1>1, <1>2, <1>3 DEF IInv

-----------------------------------------------------------------------------
\* Around the page, what is in the page stays.
LEMMA PageUnchanged ==
    ASSUME IInv, UNCHANGED page
    PROVE  /\ Unanswered' /\ AllInjected' /\ WidgetReachable'
           /\ ConsentIsCurrent' /\ SignalsFollow'
<1>1. Injected(state.granted)' = Injected(state.granted)
  BY DEF Injected, Allowed, HasService
<1> QED
  BY <1>1 DEF IInv, Unanswered, AllInjected, WidgetReachable, ConsentIsCurrent, SignalsFollow

Around ==
    \/ IncrementVersion \/ ExpireCache \/ CookieExpires
    \/ \E granted \in {{}, Keys} : OtherPage(granted) \/ OtherSite(granted)

LEMMA AroundStep == IInv /\ Around => IInv'
<1> SUFFICES ASSUME IInv, Around PROVE IInv'
  OBVIOUS
<1>1. UNCHANGED page
  BY DEF Around, IncrementVersion, ExpireCache, CookieExpires, OtherPage, OtherSite
<1>2. TypeOK' /\ CookieSound'
  <2> USE DEF IInv, TypeOK, CookieSound
  <2>1. CASE IncrementVersion
    BY <2>1, VersionsAre DEF IncrementVersion
  <2>2. CASE ExpireCache
    BY <2>2, VersionsAre DEF ExpireCache
  <2>3. CASE CookieExpires
    BY <2>3, ConsentsAre DEF CookieExpires, NoConsent
  <2>4. ASSUME NEW granted \in {{}, Keys}, OtherPage(granted)
        PROVE  TypeOK' /\ CookieSound'
    <3>1. PICK v \in 1..current : cookie' = [granted |-> granted, version |-> v] /\ saved' = v
      BY <2>4 DEF OtherPage
    <3>2. v \in 0..MaxVersion /\ v # None /\ granted \in SUBSET Keys
      BY VersionsAre
    <3>3. cookie' \in Consents /\ cookie'.version = v
      BY <3>1, <3>2, ConsentsAre
    <3> QED
      BY <2>4, <3>1, <3>2, <3>3 DEF OtherPage
  <2>5. ASSUME NEW granted \in {{}, Keys}, OtherSite(granted)
        PROVE  TypeOK' /\ CookieSound'
    BY <2>5 DEF OtherSite
  <2> QED
    BY <2>1, <2>2, <2>3, <2>4, <2>5 DEF Around
<1> QED
  BY <1>1, <1>2, PageUnchanged DEF IInv

-----------------------------------------------------------------------------
\* Loading, up to the answer of the hub.
Loading == Open \/ ConfigLoads \/ ConfigFails \/ HubReads

LEMMA LoadingStep == IInv /\ Loading => IInv'
<1> SUFFICES ASSUME IInv, Loading PROVE IInv'
  OBVIOUS
<1> USE DEF IInv
<1>1. UNCHANGED <<shared, current, state, asks, dialog, widget, loaded, signals>>
  BY DEF Loading, Open, ConfigLoads, ConfigFails, HubReads
<1>2. Injected(state.granted)' = Injected(state.granted)
  BY <1>1 DEF Injected, Allowed, HasService
<1>3. CookieSound'
  BY <1>1 DEF CookieSound
<1>4. CASE Open
  <2>1. TypeOK'
    BY <1>1, <1>4, VersionsAre DEF Open, TypeOK
  <2> QED
    BY <1>1, <1>3, <1>4, <2>1
       DEF Open, Unanswered, AllInjected, WidgetReachable, ConsentIsCurrent, SignalsFollow
<1>5. CASE ConfigLoads
  <2>1. PICK cross \in CrossDomain : frame' = IF cross THEN "loading" ELSE "none"
    BY <1>5 DEF ConfigLoads
  <2>2. TypeOK'
    BY <1>1, <1>5, <2>1, VersionsAre DEF ConfigLoads, TypeOK
  <2>3. AllInjected'
    BY <1>1, <1>5, NothingInjected DEF ConfigLoads, AllInjected, Unanswered, NoConsent
  <2> QED
    BY <1>1, <1>3, <1>5, <2>2, <2>3
       DEF ConfigLoads, Unanswered, WidgetReachable, ConsentIsCurrent, SignalsFollow
<1>6. CASE ConfigFails
  <2>1. TypeOK'
    BY <1>1, <1>6 DEF ConfigFails, TypeOK
  <2> QED
    BY <1>1, <1>3, <1>6, <2>1
       DEF ConfigFails, Unanswered, AllInjected, WidgetReachable, ConsentIsCurrent, SignalsFollow
<1>7. CASE HubReads
  <2>1. TypeOK'
    BY <1>1, <1>7 DEF HubReads, TypeOK
  <2> QED
    BY <1>1, <1>2, <1>3, <1>7, <2>1
       DEF HubReads, Unanswered, AllInjected, WidgetReachable, ConsentIsCurrent, SignalsFollow
<1> QED
  BY <1>4, <1>5, <1>6, <1>7 DEF Loading

-----------------------------------------------------------------------------
\* The end of init.

\* What Start is given: a consent whose version, if it has one, is the one saved,
\* or none with nothing left to inject.
Findable(found) ==
    /\ found \in Consents
    /\ found.version \notin {None, 0} => found.version = saved
    /\ found.version = None /\ frame # "late" => Injected(found.granted) \subseteq loaded

\* What Start keeps of it was given for the version shown, if its version is known.
LEMMA KeptSound ==
    ASSUME TypeOK, NEW found, Findable(found)
    PROVE  /\ Current(found) \in Consents
           /\ Current(found).version \in {None, 0, shown}
           /\ Current(found).version = None /\ frame # "late" =>
                 Injected(Current(found).granted) \subseteq loaded
<1>1. NoConsent.version = None /\ NoConsent.granted = {}
  BY DEF NoConsent
<1>2. CASE found.version # None /\ saved # 0 /\ saved # shown
  BY <1>1, <1>2, NothingInjected, ConsentsAre DEF Current
<1>3. CASE ~(found.version # None /\ saved # 0 /\ saved # shown)
  <2>1. Current(found) = found
    BY <1>3 DEF Current
  <2>2. found.version \in {None, 0, shown}
    BY <1>3 DEF Findable
  <2> QED
    BY <2>1, <2>2 DEF Findable
<1> QED
  BY <1>2, <1>3

\* Nor does ?ycookies_consent= bring one for another version.
LEMMA OverriddenSound ==
    ASSUME TypeOK, NEW found, Findable(found), NEW c \in Overridden(Current(found))
    PROVE  /\ c \in Consents /\ c.version \in {None, 0, shown}
           /\ c.version = None /\ frame # "late" => Injected(c.granted) \subseteq loaded
<1>1. shown \in 0..MaxVersion /\ shown # None
  BY VersionsAre DEF TypeOK
<1>2. CASE c = Current(found)
  BY <1>2, KeptSound
<1>3. CASE c = NoConsent
  BY <1>3, ConsentsAre, NothingInjected DEF NoConsent
<1>4. ASSUME NEW g \in {{}, Keys}, c = [granted |-> g, version |-> shown]
      PROVE  c \in Consents /\ c.version = shown
  BY <1>1, <1>4, ConsentsAre
<1> QED
  BY <1>1, <1>2, <1>3, <1>4 DEF Overridden

\* What the four ways to end init make of the consent, the cookie, the signals
\* and what the visitor sees.
Ended ==
    /\ state' \in Consents /\ cookie' \in Consents
    /\ saved' \in 0..MaxVersion /\ hub' \in (SUBSET Keys) \cup {None}
    /\ signals' \subseteq Groups /\ asks' \in BOOLEAN
    /\ dialog' \in {"none", "open", "fading", "reopened", "lost"}
    /\ widget' \in {"none", "visible", "hidden"}
    /\ state'.version \in {None, 0, shown}
    /\ state'.version = None /\ frame # "late" => Injected(state'.granted) \subseteq loaded
    /\ cookie'.version = None => cookie' = NoConsent
    /\ cookie'.version \notin {None, 0} => cookie'.version = saved'
    /\ state'.version # None => signals' = state'.granted \cap Groups
    /\ widget' = "none" => asks' \/ dialog' = "open"
    /\ widget' # "hidden"

LEMMA UnansweredEnds ==
    ASSUME TypeOK, widget = "none", NEW c \in Consents, c.version = None,
           frame # "late" => Injected(c.granted) \subseteq loaded,
           NEW v \in 0..MaxVersion, StartUnanswered(c, v)
    PROVE  Ended
<1>1. shown \in 0..MaxVersion /\ shown # None
  BY VersionsAre DEF TypeOK
<1>2. ASSUME NEW granted \in {{}, Keys}, SaveConsent(Merged(c, Keys, granted)),
             widget' = "visible", UNCHANGED <<asks, dialog>>
      PROVE  Ended
  <2> DEFINE new == Merged(c, Keys, granted)
  <2>1. new \in Consents /\ new.version = shown
    BY MergedSound
  <2>2. new.granted \in SUBSET Keys
    BY <2>1, ConsentsAre
  <2> HIDE DEF new
  <2>3. state' = new /\ cookie' = new /\ saved' = shown /\ signals' = new.granted \cap Groups
    BY <1>2 DEF SaveConsent, new
  <2>4. hub' \in (SUBSET Keys) \cup {None}
    BY <1>2, <2>2 DEF SaveConsent, new, TypeOK
  <2> QED
    BY <1>1, <1>2, <2>1, <2>3, <2>4 DEF Ended, TypeOK
<1>3. ASSUME state' = c, cookie' = NoConsent, saved' = v, asks' \in BOOLEAN,
             dialog' = IF asks' THEN "none" ELSE "open", UNCHANGED <<hub, signals, widget>>
      PROVE  Ended
  <2>1. NoConsent \in Consents /\ NoConsent.version = None
    BY ConsentsAre DEF NoConsent
  <2> QED
    BY <1>3, <2>1 DEF Ended, TypeOK
<1> QED
  BY <1>2, <1>3 DEF StartUnanswered

LEMMA AnsweredEnds ==
    ASSUME TypeOK, widget = "none", NEW c \in Consents, c.version \in {0, shown},
           c.version # None, StartAnswered(c)
    PROVE  Ended
BY DEF StartAnswered, Ended, TypeOK

LEMMA StartEnds ==
    ASSUME TypeOK, widget = "none", NEW found, Findable(found), Start(found)
    PROVE  Ended
<1> DEFINE kept == Current(found)
           version == IF kept = found THEN saved ELSE 0
<1>1. PICK c \in Overridden(kept) :
         IF c.version # None THEN StartAnswered(c)
         ELSE \E v \in {0, IF c = kept THEN version ELSE 0} : StartUnanswered(c, v)
  BY DEF Start
<1>2. /\ c \in Consents /\ c.version \in {None, 0, shown}
      /\ c.version = None /\ frame # "late" => Injected(c.granted) \subseteq loaded
  BY OverriddenSound
<1>3. CASE c.version # None
  <2>1. StartAnswered(c)
    BY <1>1, <1>3
  <2> QED
    BY <1>2, <1>3, <2>1, AnsweredEnds
<1>4. CASE c.version = None
  <2>1. PICK v \in {0, IF c = kept THEN version ELSE 0} : StartUnanswered(c, v)
    BY <1>1, <1>4
  <2>2. v \in 0..MaxVersion
    BY VersionsAre DEF TypeOK
  <2> QED
    BY <1>2, <1>4, <2>1, <2>2, UnansweredEnds
<1> QED
  BY <1>3, <1>4

\* A page that has been started satisfies the invariant.
LEMMA StartSound ==
    ASSUME IInv, widget = "none", NEW found, Findable(found), Start(found),
           frame' \in {"none", "loading", "answering", "done", "late"},
           frame' # "late" => frame # "late",
           answer' \in (SUBSET Keys) \cup {None}
    PROVE  IInv'
<1>1. TypeOK /\ Ended
  BY StartEnds DEF IInv
<1>2. /\ phase' = "ready" /\ UNCHANGED <<current, cached, providers, shown>>
      /\ loaded' = loaded \cup Passed(Current(found).granted)
                          \cup (IF state'.version = None THEN {} ELSE Injected(state'.granted))
                          \cup Restored(state'.granted, providers)
  BY DEF Start
<1>3. loaded' \subseteq Resources
  BY <1>1, <1>2, ReleasedTyped DEF TypeOK
<1>4. TypeOK'
  BY <1>1, <1>2, <1>3 DEF TypeOK, Ended
<1>5. Injected(state.granted)' = Injected(state'.granted)
  BY DEF Injected, Allowed, HasService
<1>6. AllInjected'
  <2>1. CASE state'.version = None
    BY <1>1, <1>2, <1>5, <2>1 DEF AllInjected, Ended
  <2>2. CASE state'.version # None
    BY <1>1, <1>2, <1>5, <2>2 DEF AllInjected
  <2> QED
    BY <2>1, <2>2
<1>7. CookieSound' /\ Unanswered'
  BY <1>1, <1>2 DEF CookieSound, Unanswered, Ended
<1>8. WidgetReachable' /\ ConsentIsCurrent' /\ SignalsFollow'
  BY <1>1, <1>2 DEF WidgetReachable, ConsentIsCurrent, SignalsFollow, Ended
<1> QED
  BY <1>4, <1>6, <1>7, <1>8 DEF IInv

\* Without an answer of the hub init finds what the cookie holds.
LEMMA LocalFindable == IInv /\ phase = "hub" => Findable(Local)
<1> SUFFICES ASSUME IInv, phase = "hub" PROVE Findable(Local)
  OBVIOUS
<1>1. state.version = None
  BY DEF IInv, Unanswered
<1>2. frame # "late" => Injected(state.granted) \subseteq loaded
  BY DEF IInv, AllInjected
<1>3. CASE cookie = NoConsent
  BY <1>1, <1>2, <1>3 DEF Findable, Local, IInv, TypeOK
<1>4. CASE cookie # NoConsent
  BY <1>4 DEF Findable, Local, IInv, TypeOK, CookieSound
<1> QED
  BY <1>3, <1>4

\* What the hub answers is a consent without a version.
LEMMA AnswerFindable ==
    IInv /\ answer # None => Findable([granted |-> answer, version |-> 0])
<1> SUFFICES ASSUME IInv, answer # None
             PROVE  Findable([granted |-> answer, version |-> 0])
  OBVIOUS
<1>1. answer \in SUBSET Keys
  BY DEF IInv, TypeOK
<1>2. 0 \in 0..MaxVersion /\ 0 # None
  BY VersionsAre
<1>3. [granted |-> answer, version |-> 0] \in Consents
  BY <1>1, <1>2, ConsentsAre
<1> QED
  BY <1>2, <1>3 DEF Findable

LEMMA NoHubStep == IInv /\ NoHub => IInv'
<1> SUFFICES ASSUME IInv, NoHub PROVE IInv'
  OBVIOUS
<1>1. widget = "none" /\ Findable(Local) /\ Start(Local)
  BY LocalFindable DEF NoHub, IInv, Unanswered
<1>2. UNCHANGED <<frame, answer>>
  BY DEF NoHub
<1> HIDE DEF Local
<1> QED
  BY <1>1, <1>2, StartSound DEF IInv, TypeOK

LEMMA HubAnswersInTimeStep == IInv /\ HubAnswersInTime => IInv'
<1> SUFFICES ASSUME IInv, HubAnswersInTime PROVE IInv'
  OBVIOUS
<1> DEFINE found == IF answer = None THEN Local ELSE [granted |-> answer, version |-> 0]
<1>1. widget = "none" /\ Findable(found) /\ Start(found)
  BY LocalFindable, AnswerFindable DEF HubAnswersInTime, IInv, Unanswered
<1>2. frame = "answering" /\ frame' = "done" /\ answer' = None
  BY DEF HubAnswersInTime
<1> HIDE DEF found
<1> QED
  BY <1>1, <1>2, StartSound

-----------------------------------------------------------------------------
\* An answer that comes after the timeout.
LEMMA HubAnswersLateStep == IInv /\ HubAnswersLate => IInv'
<1> SUFFICES ASSUME IInv, HubAnswersLate PROVE IInv'
  OBVIOUS
<1> USE DEF IInv
<1>1. /\ frame = "answering" /\ phase = "ready" /\ answer' = None
      /\ UNCHANGED <<current, cached, providers, saved, hub, phase, shown, asks,
                     dialog, widget, loaded, signals>>
  BY DEF HubAnswersLate
<1>2. CASE answer = None
  <2>1. frame' = "done" /\ UNCHANGED <<state, cookie>>
    BY <1>2 DEF HubAnswersLate
  <2>2. Injected(state.granted)' = Injected(state.granted)
    BY <2>1 DEF Injected, Allowed, HasService
  <2>3. TypeOK' /\ CookieSound'
    BY <1>1, <2>1 DEF TypeOK, CookieSound
  <2> QED
    BY <1>1, <2>1, <2>2, <2>3
       DEF Unanswered, AllInjected, WidgetReachable, ConsentIsCurrent, SignalsFollow
<1>3. CASE answer # None
  <2>1. frame' = "late" /\ state' = [granted |-> answer, version |-> 0] /\ cookie' = state'
    BY <1>3 DEF HubAnswersLate
  <2>2. 0 \in 0..MaxVersion /\ 0 # None
    BY VersionsAre
  <2>3. state' \in Consents /\ state'.version = 0
    BY <1>3, <2>1, <2>2, ConsentsAre DEF TypeOK
  <2>4. TypeOK' /\ CookieSound'
    BY <1>1, <2>1, <2>2, <2>3 DEF TypeOK, CookieSound
  <2> QED
    BY <1>1, <2>1, <2>2, <2>3, <2>4
       DEF Unanswered, AllInjected, WidgetReachable, ConsentIsCurrent, SignalsFollow
<1> QED
  BY <1>2, <1>3

-----------------------------------------------------------------------------
\* Saving in a page that has finished loading.

\* Whoever saves what the visitor chose, releases it and leaves a way back
\* preserves the invariant.
LEMMA SaveSound ==
    ASSUME IInv, phase = "ready",
           NEW keys \in SUBSET Keys, NEW granted \in SUBSET Keys, NEW more \in SUBSET Resources,
           SaveConsent(Merged(state, keys, granted)),
           loaded' = Released(Merged(state, keys, granted).granted) \cup more,
           dialog' \in {"none", "open", "fading", "reopened", "lost"},
           widget' \in {"visible", "hidden"}, WidgetReachable',
           UNCHANGED <<current, cached, providers, phase, shown, frame, answer, asks>>
    PROVE  IInv'
<1> DEFINE new == Merged(state, keys, granted)
<1>1. new \in Consents /\ new.version \in {0, shown} /\ new.version # None
  BY MergedSound DEF IInv, TypeOK
<1>2. new.granted \in SUBSET Keys
  BY <1>1, ConsentsAre
<1>3. /\ Injected(new.granted) \subseteq Released(new.granted)
      /\ Released(new.granted) \subseteq Resources
  BY ReleasedTyped DEF IInv, TypeOK
<1>4. state' = new /\ cookie' = new /\ saved' = shown /\ signals' = new.granted \cap Groups
  BY DEF SaveConsent
<1>5. hub' \in (SUBSET Keys) \cup {None}
  BY <1>2 DEF SaveConsent, IInv, TypeOK
<1>6. loaded' = Released(new.granted) \cup more
  OBVIOUS
<1> HIDE DEF new
<1>7. Injected(state.granted)' = Injected(new.granted)
  BY <1>4 DEF Injected, Allowed, HasService
<1>8. TypeOK'
  BY <1>1, <1>3, <1>4, <1>5, <1>6 DEF IInv, TypeOK
<1>9. CookieSound' /\ Unanswered'
  BY <1>1, <1>4 DEF CookieSound, Unanswered
<1>10. AllInjected' /\ ConsentIsCurrent' /\ SignalsFollow'
  BY <1>1, <1>3, <1>4, <1>6, <1>7 DEF AllInjected, ConsentIsCurrent, SignalsFollow
<1> QED
  BY <1>8, <1>9, <1>10 DEF IInv

LEMMA ChooseStep == ASSUME IInv, NEW granted \in SUBSET Keys, Choose(granted) PROVE IInv'
<1>1. /\ phase = "ready"
      /\ SaveConsent(Merged(state, Keys, granted))
      /\ loaded' = Released(Merged(state, Keys, granted).granted) \cup {}
      /\ dialog' = "fading" /\ widget' = "visible"
      /\ UNCHANGED <<current, cached, providers, phase, shown, frame, answer, asks>>
  BY DEF Choose
<1>2. WidgetReachable'
  BY <1>1 DEF WidgetReachable
<1>3. Keys \in SUBSET Keys /\ {} \in SUBSET Resources
  OBVIOUS
<1>4. /\ dialog' \in {"none", "open", "fading", "reopened", "lost"}
      /\ widget' \in {"visible", "hidden"}
  BY <1>1
<1> QED
  BY <1>1, <1>2, <1>3, <1>4, SaveSound

LEMMA AcceptInFrameStep ==
    ASSUME IInv, NEW r \in Resources, NEW key \in Keys, AcceptInFrame(r, key)
    PROVE  IInv'
<1> DEFINE keys == {key, Marketing}
<1>1. /\ phase = "ready"
      /\ SaveConsent(Merged(state, keys, keys))
      /\ loaded' = Released(Merged(state, keys, keys).granted)
                     \cup Passed(Merged(state, keys, keys).granted)
      /\ widget' = IF widget = "none" THEN "visible" ELSE widget
      /\ UNCHANGED <<current, cached, providers, phase, shown, frame, answer, asks, dialog>>
  BY DEF AcceptInFrame
<1>2. keys \in SUBSET Keys
  BY VersionsAre DEF Keys
<1>3. Passed(Merged(state, keys, keys).granted) \in SUBSET Resources
  BY ReleasedTyped DEF IInv, TypeOK
<1> HIDE DEF keys
<1>4. WidgetReachable'
  BY <1>1 DEF WidgetReachable, IInv
<1>5. widget' \in {"visible", "hidden"}
  BY <1>1 DEF IInv, TypeOK
<1>6. dialog' \in {"none", "open", "fading", "reopened", "lost"}
  BY <1>1 DEF IInv, TypeOK
<1> QED
  BY <1>1, <1>2, <1>3, <1>4, <1>5, <1>6, SaveSound

-----------------------------------------------------------------------------
\* What releases without saving.
LEMMA OutsideTcStep == IInv /\ OutsideTc => IInv'
<1> SUFFICES ASSUME IInv, OutsideTc PROVE IInv'
  OBVIOUS
<1> USE DEF IInv
<1>1. /\ phase \in {"hub", "ready"}
      /\ state' = [state EXCEPT !.granted = @ \cup {Marketing}]
      /\ signals' = state'.granted \cap Groups
      /\ loaded' = loaded \cup Injected(state'.granted)
      /\ UNCHANGED <<current, cached, cookie, providers, saved, hub, phase, shown, frame,
                     answer, asks, dialog, widget>>
  BY DEF OutsideTc
<1>2. state' \in Consents /\ state'.version = state.version
  <2>1. Marketing \in Keys
    BY VersionsAre DEF Keys
  <2>2. state \in Consents
    BY DEF TypeOK
  <2> QED
    BY <1>1, <2>1, <2>2 DEF Consents
<1>3. loaded' \subseteq Resources
  BY <1>1, ReleasedTyped DEF TypeOK
<1>4. Injected(state.granted)' = Injected(state'.granted)
  BY DEF Injected, Allowed, HasService
<1>5. TypeOK'
  BY <1>1, <1>2, <1>3 DEF TypeOK
<1>6. CookieSound' /\ Unanswered'
  BY <1>1, <1>2 DEF CookieSound, Unanswered
<1>7. AllInjected' /\ WidgetReachable' /\ ConsentIsCurrent' /\ SignalsFollow'
  BY <1>1, <1>2, <1>4
     DEF AllInjected, WidgetReachable, ConsentIsCurrent, SignalsFollow
<1> QED
  BY <1>5, <1>6, <1>7

\* A release that changes neither the consent nor what the visitor sees, and
\* tells Google nothing or what is in force.
LEMMA ReleaseSound ==
    ASSUME IInv, loaded \subseteq loaded', loaded' \subseteq Resources,
           providers' \subseteq Providers,
           signals' = signals \/ signals' = state.granted \cap Groups,
           UNCHANGED <<current, cached, cookie, saved, hub, phase, shown, state, frame,
                       answer, asks, dialog, widget>>
    PROVE  IInv'
<1> USE DEF IInv
<1>1. Injected(state.granted)' = Injected(state.granted)
  BY DEF Injected, Allowed, HasService
<1>2. TypeOK'
  BY DEF TypeOK
<1>3. CookieSound' /\ Unanswered'
  BY DEF CookieSound, Unanswered
<1>4. AllInjected' /\ WidgetReachable' /\ ConsentIsCurrent' /\ SignalsFollow'
  BY <1>1 DEF AllInjected, WidgetReachable, ConsentIsCurrent, SignalsFollow
<1> QED
  BY <1>2, <1>3, <1>4

LEMMA ReleaseStep ==
    ASSUME IInv, NEW r \in Resources,
           \/ InsertedUnseen(r) \/ Inserted(r) \/ AcceptOnce(r)
           \/ \E floating \in BOOLEAN : AcceptProvider(r, floating)
    PROVE  IInv'
<1>1. loaded \subseteq Resources /\ providers \subseteq Providers
  BY DEF IInv, TypeOK
<1>2. CASE InsertedUnseen(r)
  BY <1>1, <1>2, ReleaseSound DEF InsertedUnseen
<1>3. CASE Inserted(r)
  BY <1>1, <1>3, ReleaseSound DEF Inserted
<1>4. CASE AcceptOnce(r)
  BY <1>1, <1>4, ReleaseSound DEF AcceptOnce
<1>5. ASSUME NEW floating \in BOOLEAN, AcceptProvider(r, floating)
      PROVE  IInv'
  <2>1. r.provider \in Providers
    BY <1>5, ConsentAssumption DEF AcceptProvider, Resource
  <2>2. /\ loaded \subseteq loaded' /\ loaded' \subseteq Resources
        /\ providers' = providers \cup {r.provider} /\ signals' = state.granted \cap Groups
    BY <1>1, <1>5 DEF AcceptProvider
  <2> QED
    BY <1>1, <1>5, <2>1, <2>2, ReleaseSound DEF AcceptProvider
<1> QED
  BY <1>2, <1>3, <1>4, <1>5

-----------------------------------------------------------------------------
\* What the visitor sees.
Showing == Moves \/ Fades \/ Reopen

LEMMA ShowingStep == IInv /\ Showing => IInv'
<1> SUFFICES ASSUME IInv, Showing PROVE IInv'
  OBVIOUS
<1> USE DEF IInv
<1>1. UNCHANGED <<current, cached, cookie, providers, saved, hub, phase, shown, state,
                  frame, answer, loaded, signals>>
  BY DEF Showing, Moves, Fades, Reopen
<1>2. Injected(state.granted)' = Injected(state.granted)
  BY <1>1 DEF Injected, Allowed, HasService
<1>3. CookieSound' /\ AllInjected' /\ ConsentIsCurrent' /\ SignalsFollow'
  BY <1>1, <1>2 DEF CookieSound, AllInjected, ConsentIsCurrent, SignalsFollow
<1>4. TypeOK' /\ Unanswered' /\ WidgetReachable'
  <2>1. CASE Moves
    BY <1>1, <2>1 DEF Moves, TypeOK, Unanswered, WidgetReachable
  <2>2. CASE Fades
    BY <1>1, <2>2 DEF Fades, TypeOK, Unanswered, WidgetReachable
  <2>3. CASE Reopen
    BY <1>1, <2>3 DEF Reopen, TypeOK, Unanswered, WidgetReachable
  <2> QED
    BY <2>1, <2>2, <2>3 DEF Showing
<1> QED
  BY <1>3, <1>4

LEMMA LeaveStep == IInv /\ Leave => IInv'
<1> SUFFICES ASSUME IInv, Leave PROVE IInv'
  OBVIOUS
<1> USE DEF IInv, Leave, Blank
<1>1. TypeOK'
  <2>1. 0 \in 0..MaxVersion
    BY VersionsAre
  <2> QED
    BY <2>1, ConsentsAre DEF TypeOK
<1>2. CookieSound' /\ Unanswered'
  BY DEF CookieSound, Unanswered, NoConsent
<1>3. AllInjected' /\ WidgetReachable' /\ ConsentIsCurrent' /\ SignalsFollow'
  BY DEF AllInjected, WidgetReachable, ConsentIsCurrent, SignalsFollow
<1> QED
  BY <1>1, <1>2, <1>3

-----------------------------------------------------------------------------
LEMMA NextSound == IInv /\ [Next]_vars => IInv'
<1> SUFFICES ASSUME IInv, [Next]_vars PROVE IInv'
  OBVIOUS
<1>1. CASE UNCHANGED vars
  <2>1. TypeOK' /\ CookieSound'
    BY <1>1 DEF IInv, TypeOK, CookieSound
  <2> QED
    BY <1>1, <2>1, PageUnchanged DEF IInv
<1>2. CASE Around
  BY <1>2, AroundStep
<1>3. CASE Loading
  BY <1>3, LoadingStep
<1>4. CASE HubAnswersInTime \/ NoHub \/ HubAnswersLate
  BY <1>4, HubAnswersInTimeStep, NoHubStep, HubAnswersLateStep
<1>5. CASE OutsideTc
  BY <1>5, OutsideTcStep
<1>6. CASE Showing
  BY <1>6, ShowingStep
<1>7. ASSUME NEW granted \in SUBSET Keys, Choose(granted)
      PROVE  IInv'
  BY <1>7, ChooseStep
<1>8. ASSUME NEW r \in Resources,
             \/ InsertedUnseen(r) \/ Inserted(r) \/ AcceptOnce(r)
             \/ \E floating \in BOOLEAN : AcceptProvider(r, floating)
      PROVE  IInv'
  BY <1>8, ReleaseStep
<1>9. ASSUME NEW r \in Resources, NEW key \in Keys, AcceptInFrame(r, key)
      PROVE  IInv'
  BY <1>9, AcceptInFrameStep
<1>10. CASE Leave
  BY <1>10, LeaveStep
<1> HIDE DEF vars
<1> QED
  BY <1>1, <1>2, <1>3, <1>4, <1>5, <1>6, <1>7, <1>8, <1>9, <1>10 DEF Next, Around, Loading, Showing

\* The invariant holds throughout.
LEMMA Inductive == Spec => []IInv
<1> QED
  BY InitSound, NextSound, PTL DEF Spec

-----------------------------------------------------------------------------
\* Type correctness, for any groups, services and resources of a page.
THEOREM TypeCorrect == Spec => []TypeOK
<1>1. IInv => TypeOK
  BY DEF IInv
<1> QED
  BY <1>1, Inductive, PTL

\* No consent for another version than the one the page shows is in force, in any
\* order of increments, other pages, hub answers, overrides and choices.
THEOREM ConsentAlwaysCurrent == Spec => []ConsentIsCurrent
<1>1. IInv => ConsentIsCurrent
  BY DEF IInv
<1> QED
  BY <1>1, Inductive, PTL

\* Google is told the groups of the consent in force, whoever changed it last.
THEOREM SignalsAlwaysFollow == Spec => []SignalsFollow
<1>1. IInv => SignalsFollow
  BY DEF IInv
<1> QED
  BY <1>1, Inductive, PTL

\* A full consent, reached at once or piece by piece, has loaded everything that
\* was blocked outside the browser.
THEOREM FullConsentAlwaysLoads == Spec => []FullConsentLoads
<1>1. IInv => FullConsentLoads
  BY EverythingInjected DEF IInv, AllInjected, FullConsentLoads
<1> QED
  BY <1>1, Inductive, PTL

\* Whoever has answered finds a way to change the answer.
THEOREM AlwaysReconsiderable == Spec => []CanReconsider
<1>1. IInv => CanReconsider
  BY DEF IInv, TypeOK, WidgetReachable, CanReconsider
<1> QED
  BY <1>1, Inductive, PTL

-----------------------------------------------------------------------------
\* Without a grant, only the placeholders of allowed providers are restored.
LEMMA NothingReleased ==
    ASSUME NEW allowed
    PROVE  /\ Injected({}) = {} /\ Passed({}) = {}
           /\ \A r \in Restored({}, allowed) : r.provider \in allowed
BY NothingInjected DEF Passed, Restored, Allowed, HasService

LEMMA StartReleases ==
    ASSUME NEW found, Start(found), phase = "hub", state'.granted = {},
           NEW r \in loaded' \ loaded
    PROVE  r.provider \in providers' \/ r.kind = "client"
<1>1. providers' = providers
  BY DEF Start
<1>2. \/ r \in Passed(Current(found).granted)
      \/ r \in (IF state'.version = None THEN {} ELSE Injected({}))
      \/ r \in Restored({}, providers)
  BY DEF Start
<1>3. CASE r \in Passed(Current(found).granted)
  BY <1>3 DEF Passed
<1>4. CASE r \in Restored({}, providers)
  BY <1>1, <1>4, NothingReleased
<1> QED
  BY <1>2, <1>3, <1>4, NothingReleased

\* While nothing is granted, no step of a started page releases anything but what
\* the visitor presses and what a provider always allowed brings.
THEOREM NothingUngrantedReleased == Spec => NothingUngranted
<1> DEFINE Excused(r) ==
             \/ r.provider \in providers'
             \/ r.kind = "embed" /\ loaded' = loaded \cup {r}
             \/ r.kind = "server" /\ \E e \in loaded' : e.kind = "embed" /\ e.service = r.service
             \/ r.kind = "client" /\ phase # "ready"
           Withheld == phase' = "ready" /\ state'.granted = {} =>
                          \A r \in loaded' \ loaded : Excused(r)
<1>1. IInv /\ [Next]_vars => [Withheld]_vars
  <2> SUFFICES ASSUME IInv, Next, phase' = "ready", state'.granted = {},
                      NEW r \in loaded' \ loaded
               PROVE  Excused(r)
    OBVIOUS
  <2>1. CASE Around \/ Loading \/ Showing \/ HubAnswersLate \/ Leave
    <3>1. r \in loaded' /\ r \notin loaded
      OBVIOUS
    <3>2. ~Leave
      BY <3>1 DEF Leave, Blank
    <3>3. loaded' = loaded
      BY <2>1, <3>2
         DEF Around, IncrementVersion, ExpireCache, CookieExpires, OtherPage, OtherSite,
             Loading, Open, ConfigLoads, ConfigFails, HubReads,
             Showing, Moves, Fades, Reopen, HubAnswersLate
    <3> QED
      BY <3>1, <3>3
  <2>2. CASE HubAnswersInTime
    BY <2>2, StartReleases DEF HubAnswersInTime
  <2>3. CASE NoHub
    BY <2>3, StartReleases DEF NoHub
  <2>4. CASE OutsideTc
    <3>1. Marketing \in state'.granted
      <4>1. state \in Consents
        BY DEF IInv, TypeOK
      <4> QED
        BY <2>4, <4>1 DEF OutsideTc, Consents
    <3> QED
      BY <3>1
  <2>5. ASSUME NEW granted \in SUBSET Keys, Choose(granted)
        PROVE  Excused(r)
    <3>1. state'.granted = Merged(state, Keys, granted).granted /\ providers' = providers
      BY <2>5 DEF Choose, SaveConsent
    <3>2. loaded' = loaded \cup Injected({}) \cup Restored({}, providers)
      BY <2>5, <3>1 DEF Choose, Released
    <3> QED
      BY <3>1, <3>2, NothingReleased
  <2>6. ASSUME NEW e \in Resources, NEW key \in Keys, AcceptInFrame(e, key)
        PROVE  Excused(r)
    <3>1. state' = Merged(state, {key, Marketing}, {key, Marketing})
      BY <2>6 DEF AcceptInFrame, SaveConsent
    <3>2. key \in state'.granted
      BY <3>1 DEF Merged
    <3> QED
      BY <3>2
  <2>7. ASSUME NEW e \in Resources, InsertedUnseen(e) \/ Inserted(e) \/ AcceptOnce(e)
        PROVE  Excused(r)
    <3>1. loaded' = loaded \cup {r} /\ r = e /\ phase = "ready" /\ state.granted = {}
      BY <2>7 DEF InsertedUnseen, Inserted, AcceptOnce
    <3>2. r.kind = "embed"
      BY <2>7, <3>1, NothingReleased DEF InsertedUnseen, Inserted, AcceptOnce
    <3> QED
      BY <3>1, <3>2
  <2>8. ASSUME NEW e \in Resources, NEW floating \in BOOLEAN, AcceptProvider(e, floating)
        PROVE  Excused(r)
    <3>1. /\ e.kind = "embed" /\ e \in Resources /\ e.provider \in providers'
          /\ e \in loaded'
      BY <2>8 DEF AcceptProvider
    <3>2. \/ r.provider = e.provider
          \/ r.kind = "server" /\ r.service = e.service
      BY <2>8 DEF AcceptProvider
    <3> QED
      BY <3>1, <3>2
  <2> HIDE DEF Excused
  <2> QED
    BY <2>1, <2>2, <2>3, <2>4, <2>5, <2>6, <2>7, <2>8 DEF Next, Around, Loading, Showing
<1> QED
  BY <1>1, Inductive, PTL DEF Spec, NothingUngranted
=============================================================================
