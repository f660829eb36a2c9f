------------------------ MODULE HtmlTransform_proof -------------------------
(***************************************************************************)
(* Proofs about the transformation of HTML: the CircuitBreaker around it,  *)
(* for any number of requests and any threshold; what the HtmlBlocker      *)
(* blocks and the browser gives back, for any element, rules and consent;  *)
(* what ResponsePolicy makes of a Content-Security-Policy; and, from these *)
(* and for any pages cut in any way, the EdgePage that composes them.      *)
(***************************************************************************)
EXTENDS CircuitBreaker, EdgePage, WellFoundedInduction, FiniteSetTheorems, SequenceTheorems, TLAPS

\* A probe is streaming and reports how it ended.
ProbesStream ==
    \A r \in Slots : request[r].probe => request[r].streaming /\ request[r].allow

\* The inductive invariant.
CircuitIInv == CircuitTypeOK /\ ErrorsBelowThreshold /\ ProbesStream /\ HalfOpenHasProbe

LEMMA CircuitInit == InitCircuit => CircuitIInv
<1> SUFFICES ASSUME InitCircuit PROVE CircuitIInv
  OBVIOUS
<1>1. vanished \in BOOLEAN
  BY DEF InitCircuit
<1>2. CircuitTypeOK
  BY <1>1, ParameterAssumption DEF InitCircuit, Idle, CircuitTypeOK
<1>3. ErrorsBelowThreshold /\ ProbesStream /\ HalfOpenHasProbe
  BY ParameterAssumption
  DEF InitCircuit, Idle, ErrorsBelowThreshold, ProbesStream, HalfOpenHasProbe
<1> QED
  BY <1>2, <1>3 DEF CircuitIInv

LEMMA CircuitTypeStep == CircuitTypeOK /\ [NextCircuit]_circuit => CircuitTypeOK'
<1> SUFFICES ASSUME CircuitTypeOK, [NextCircuit]_circuit PROVE CircuitTypeOK'
  OBVIOUS
<1> USE ParameterAssumption DEF CircuitTypeOK, Idle
<1>1. ASSUME NEW r \in Slots, Begin(r) PROVE CircuitTypeOK'
  <2>1. PICK skip \in {FALSE, GeoSkip} : request' = [request EXCEPT ![r] =
            [streaming |-> TRUE, probe |-> state = "open" /\ age # "hot", skip |-> skip,
             allow |-> (state = "open" /\ age # "hot") \/ state = "closed"]]
    BY <1>1 DEF Begin
  <2>2. skip \in BOOLEAN
    OBVIOUS
  <2>3. \A b, c \in BOOLEAN : [streaming |-> TRUE, probe |-> b, skip |-> skip, allow |-> c]
            \in [streaming : BOOLEAN, allow : BOOLEAN, probe : BOOLEAN, skip : BOOLEAN]
    BY <2>2
  <2>4. request' \in [Slots -> [streaming : BOOLEAN, allow : BOOLEAN,
                                   probe : BOOLEAN, skip : BOOLEAN]]
    BY <2>1, <2>3
  <2> QED
    BY <1>1, <2>4 DEF Begin
<1>2. ASSUME NEW r \in Slots, EndOk(r) PROVE CircuitTypeOK'
  BY <1>2 DEF EndOk, Finish, RecordSuccess
<1>3. ASSUME NEW r \in Slots, EndFailed(r) PROVE CircuitTypeOK'
  <2>1. /\ request' \in [Slots -> [streaming : BOOLEAN, allow : BOOLEAN,
                                      probe : BOOLEAN, skip : BOOLEAN]]
        /\ failures' \in Nat /\ vanished' \in BOOLEAN
    BY <1>3 DEF EndFailed, Finish
  <2>2. CASE state = "half_open"
    BY <1>3, <2>1, <2>2 DEF EndFailed, RecordFailure
  <2>3. CASE state # "half_open"
    <3>1. PICK kept \in 0..errors :
             IF kept + 1 >= Threshold
             THEN state' = "open" /\ age' = "hot" /\ errors' = 0 /\ since' = 0
             ELSE errors' = kept + 1 /\ since' = since + 1 /\ UNCHANGED <<state, age>>
      BY <1>3, <2>3 DEF EndFailed, RecordFailure
    <3> QED
      BY <2>1, <3>1
  <2> QED
    BY <2>2, <2>3
<1>4. ASSUME NEW r \in Slots, Abort(r) PROVE CircuitTypeOK'
  BY <1>4 DEF Abort, Finish
<1>5. CASE Tick \/ Cleanup
  BY <1>5 DEF Tick, Cleanup
<1>6. CASE UNCHANGED circuit
  BY <1>6 DEF circuit
<1> QED
  BY <1>1, <1>2, <1>3, <1>4, <1>5, <1>6 DEF NextCircuit

LEMMA ErrorsStep == CircuitTypeOK /\ ErrorsBelowThreshold /\ [NextCircuit]_circuit => ErrorsBelowThreshold'
<1> SUFFICES ASSUME CircuitTypeOK, ErrorsBelowThreshold, [NextCircuit]_circuit PROVE ErrorsBelowThreshold'
  OBVIOUS
<1> USE ParameterAssumption DEF CircuitTypeOK, ErrorsBelowThreshold
<1>1. ASSUME NEW r \in Slots, Begin(r) \/ Abort(r) PROVE ErrorsBelowThreshold'
  BY <1>1 DEF Begin, Abort
<1>2. ASSUME NEW r \in Slots, EndOk(r) PROVE ErrorsBelowThreshold'
  BY <1>2 DEF EndOk, RecordSuccess
<1>3. ASSUME NEW r \in Slots, EndFailed(r) PROVE ErrorsBelowThreshold'
  BY <1>3 DEF EndFailed, RecordFailure
<1>4. CASE Tick \/ Cleanup
  BY <1>4 DEF Tick, Cleanup
<1>5. CASE UNCHANGED circuit
  BY <1>5 DEF circuit
<1> QED
  BY <1>1, <1>2, <1>3, <1>4, <1>5 DEF NextCircuit

\* The probe that leaves takes the circuit out of half-open; any other step
\* out of or into half-open leaves a probe streaming.
LEMMA ProbeStep == CircuitIInv /\ [NextCircuit]_circuit => (ProbesStream /\ HalfOpenHasProbe)'
<1> SUFFICES ASSUME CircuitIInv, [NextCircuit]_circuit PROVE (ProbesStream /\ HalfOpenHasProbe)'
  OBVIOUS
<1> USE DEF CircuitIInv, CircuitTypeOK, ProbesStream, HalfOpenHasProbe, Idle
<1>1. ASSUME NEW r \in Slots, Begin(r) PROVE (ProbesStream /\ HalfOpenHasProbe)'
  <2>1. PICK skip : request' = [request EXCEPT ![r] =
            [streaming |-> TRUE, probe |-> state = "open" /\ age # "hot", skip |-> skip,
             allow |-> (state = "open" /\ age # "hot") \/ state = "closed"]]
    BY <1>1 DEF Begin
  <2>2. \A q \in Slots : q # r => request'[q] = request[q]
    BY <2>1
  <2>3. ~request[r].probe /\ (state = "open" /\ age # "hot" => request'[r].probe)
    BY <1>1, <2>1 DEF Begin
  <2>4. state' = "half_open" => state = "half_open" \/ request'[r].probe
    BY <1>1, <2>3 DEF Begin
  <2>5. ProbesStream'
    <3>1. request'[r].probe => request'[r].streaming /\ request'[r].allow
      BY <2>1
    <3> QED
      BY <2>1, <2>2, <3>1
  <2>6. ASSUME state' = "half_open", ~request'[r].probe PROVE vanished' = vanished
    BY <1>1, <2>4, <2>6 DEF Begin
  <2>7. HalfOpenHasProbe'
    <3> SUFFICES ASSUME state' = "half_open", ~vanished', ~request'[r].probe
                 PROVE  \E q \in Slots : request'[q].probe
      OBVIOUS
    <3>1. \E q \in Slots : request[q].probe
      BY <2>4, <2>6
    <3> QED
      BY <2>2, <2>3, <3>1
  <2> QED
    BY <2>5, <2>7
<1>2. ASSUME NEW r \in Slots, EndOk(r) \/ EndFailed(r)
      PROVE  (ProbesStream /\ HalfOpenHasProbe)'
  <2>1. request' = [request EXCEPT ![r] = Idle]
    BY <1>2 DEF EndOk, EndFailed, Finish
  <2>2. ProbesStream'
    BY <2>1
  <2>3. state' = "half_open" => state = "half_open" /\ ~request[r].allow
    BY <1>2 DEF EndOk, EndFailed, RecordSuccess, RecordFailure
  <2>4. vanished' = vanished
    BY <1>2 DEF EndOk, EndFailed
  <2>5. HalfOpenHasProbe'
    <3> SUFFICES ASSUME state' = "half_open", ~vanished
                 PROVE  \E q \in Slots : request'[q].probe
      BY <2>4
    <3>1. PICK q \in Slots : request[q].probe
      BY <2>3
    <3>2. request[q].allow
      BY <3>1
    <3>3. q # r
      BY <2>3, <3>2
    <3> QED
      BY <2>1, <3>1, <3>3
  <2> QED
    BY <2>2, <2>5
<1>3. ASSUME NEW r \in Slots, Abort(r) PROVE (ProbesStream /\ HalfOpenHasProbe)'
  BY <1>3 DEF Abort, Finish
<1>4. CASE Tick \/ Cleanup
  BY <1>4 DEF Tick, Cleanup
<1>5. CASE UNCHANGED circuit
  BY <1>5 DEF circuit
<1> QED
  BY <1>1, <1>2, <1>3, <1>4, <1>5 DEF NextCircuit

LEMMA CircuitInductive == CircuitSpec => []CircuitIInv
<1>1. CircuitIInv /\ [NextCircuit]_circuit => CircuitIInv'
  BY CircuitTypeStep, ErrorsStep, ProbeStep DEF CircuitIInv
<1> QED
  BY CircuitInit, <1>1, PTL DEF CircuitSpec

-----------------------------------------------------------------------------
\* Type correctness, for any requests and any threshold.
THEOREM CircuitTypeCorrect == CircuitSpec => []CircuitTypeOK
<1>1. CircuitIInv => CircuitTypeOK
  BY DEF CircuitIInv
<1> QED
  BY <1>1, CircuitInductive, PTL

\* The error list stays below the threshold, whatever the threshold.
THEOREM ErrorsBounded == CircuitSpec => []ErrorsBelowThreshold
<1>1. CircuitIInv => ErrorsBelowThreshold
  BY DEF CircuitIInv
<1> QED
  BY <1>1, CircuitInductive, PTL

\* Unless its stream vanishes, a half-open circuit never loses the probe that
\* will decide it.
THEOREM ProbeNeverLost == CircuitSpec => []HalfOpenHasProbe
<1>1. CircuitIInv => HalfOpenHasProbe
  BY DEF CircuitIInv
<1> QED
  BY <1>1, CircuitInductive, PTL

\* The cooldown is never entered for fewer than Threshold unanswered failures.
THEOREM NoEarlyOpening == CircuitSpec => OpensAfterThreshold
<1>1. CircuitIInv /\ [NextCircuit]_circuit =>
        [state # "half_open" /\ errors' = 0 /\ state' = "open" /\ failures' # failures
           => since + 1 >= Threshold]_circuit
  <2> SUFFICES ASSUME CircuitIInv, NextCircuit, state # "half_open", errors' = 0, failures' # failures
               PROVE  since + 1 >= Threshold
    OBVIOUS
  <2>1. PICK r \in Slots : EndFailed(r)
    BY DEF NextCircuit, Begin, EndOk, Abort, Tick, Cleanup
  <2> QED
    BY <2>1, ParameterAssumption
    DEF EndFailed, RecordFailure, CircuitIInv, CircuitTypeOK, ErrorsBelowThreshold
<1> QED
  BY <1>1, CircuitInductive, PTL DEF CircuitSpec, OpensAfterThreshold

-----------------------------------------------------------------------------
\* The rules of a configuration.

Less == {pair \in Nat \X Nat : pair[1] < pair[2]}

LEMMA LessWellFounded == IsWellFoundedOn(Less, Nat)
BY NatLessThanWellFounded DEF OpToRel, Less

\* Some places in a sequence have a first and a last.
LEMMA LeastNatural ==
    ASSUME NEW I \in SUBSET Nat, I # {}
    PROVE  \E x \in I : \A y \in I : x =< y
<1>1. PICK x \in I : \A y \in I : ~ (<<y, x>> \in Less)
  BY WFMin, LessWellFounded
<1>2. ASSUME NEW y \in I PROVE x =< y
  <2>1. <<y, x>> \in Nat \X Nat /\ ~ (<<y, x>> \in Less)
    BY <1>1
  <2>2. ~ (y < x)
    BY <2>1 DEF Less
  <2> QED
    BY <2>2
<1> QED
  BY <1>2

LEMMA FirstPlace ==
    ASSUME NEW I \in SUBSET Nat, I # {}
    PROVE  Min(I) \in I /\ \A i \in I : Min(I) =< i
BY LeastNatural DEF Min

LEMMA LastPlace ==
    ASSUME NEW n \in Nat, NEW I \in SUBSET (1..n), I # {}
    PROVE  Max(I) \in I /\ \A i \in I : i =< Max(I)
<1> DEFINE T == {m \in Nat : \A i \in I : i =< m}
<1>1. n \in T
  OBVIOUS
<1>2. T \in SUBSET Nat
  OBVIOUS
<1> HIDE DEF T
<1>4. PICK x \in T : \A y \in T : x =< y
  BY <1>1, <1>2, LeastNatural
<1> USE DEF T
<1>5. x \in I
  <2> SUFFICES ASSUME x \notin I PROVE FALSE
    OBVIOUS
  <2>1. \A i \in I : i =< x - 1
    OBVIOUS
  <2>2. x - 1 \in Nat
    <3>1. PICK i \in I : TRUE
      OBVIOUS
    <3>2. 1 =< i /\ i =< x
      BY <3>1
    <3> QED
      BY <3>2
  <2> QED
    BY <1>4, <2>1, <2>2
<1>6. \A i \in I : x >= i
  OBVIOUS
<1> QED
  BY <1>5, <1>6 DEF Max

\* The first rule that names an element is there if any is.
LEMMA FirstRuleSound ==
    ASSUME NEW rules \in Seq(Rule), NEW e
    PROVE  LET named == {r \in ToSet(rules) : r.id \in e.matches}
           IN  IF named = {} THEN FirstRule(rules, e) = None ELSE FirstRule(rules, e) \in named
<1> DEFINE named == {r \in ToSet(rules) : r.id \in e.matches}
           I == {i \in 1..Len(rules) : rules[i].id \in e.matches}
           first == SelectInSeq(rules, LAMBDA r : r.id \in e.matches)
<1>1. first = IF I # {} THEN Min(I) ELSE 0
  BY DEF SelectInSeq
<1>2. ToSet(rules) = {rules[i] : i \in 1..Len(rules)}
  BY DEF ToSet
<1>3. FirstRule(rules, e) = IF first = 0 THEN None ELSE rules[first]
  BY DEF FirstRule
<1>4. I \in SUBSET Nat
  OBVIOUS
<1> HIDE DEF first
<1>5. CASE I = {}
  BY <1>1, <1>2, <1>3, <1>5
<1>6. CASE I # {}
  <2>1. Min(I) \in I
    BY <1>4, <1>6, FirstPlace
  <2>2. first \in I /\ first # 0
    BY <1>1, <1>6, <2>1
  <2> QED
    BY <1>2, <1>3, <2>2
<1> QED
  BY <1>5, <1>6

\* So is the last for every host.
LEMMA WildcardRuleSound ==
    ASSUME NEW rules \in Seq(Rule)
    PROVE  WildcardRule(rules) \in {r \in ToSet(rules) : r.any} \cup {None}
<1> DEFINE I == {i \in 1..Len(rules) : rules[i].any}
           last == SelectLastInSeq(rules, LAMBDA r : r.any)
<1>1. last = IF I # {} THEN Max(I) ELSE 0
  BY DEF SelectLastInSeq
<1>2. ToSet(rules) = {rules[i] : i \in 1..Len(rules)}
  BY DEF ToSet
<1>3. WildcardRule(rules) = IF last = 0 THEN None ELSE rules[last]
  BY DEF WildcardRule
<1>4. I # {} => Max(I) \in I
  <2>1. Len(rules) \in Nat
    OBVIOUS
  <2> QED
    BY <2>1, LastPlace
<1> HIDE DEF last
<1> QED
  BY <1>1, <1>2, <1>3, <1>4

-----------------------------------------------------------------------------
\* The rules whose consents concern an element.
Concerned(e, c) ==
    Naming(e, c)
    \cup (IF e.tag = "iframe"
         THEN {r \in ToSet(c.contents) : r.any} \cup ({c.fallback} \ {None})
         ELSE {})

Synthetic == [service |-> "universal", group |-> "external_media", host |-> FALSE]

\* Where the attributes of a blocked element come from.
Origin(e, c, mark) ==
    \/ \E r \in Concerned(e, c) : mark = MarkOf(r)
    \/ /\ e.tag # "iframe"
       /\ \E u \in {c.universalScript, c.universalStyle} : mark = AutoMark(u)
    \/ e.tag = "iframe" /\ mark = Synthetic

LEMMA ConfigIs ==
    ASSUME NEW c, WellFormed(c)
    PROVE  /\ c.scripts \in Seq(Rule) /\ c.styles \in Seq(Rule)
           /\ c.contents \in Seq(Rule)
           /\ c.universalScript \in Owner /\ c.universalStyle \in Owner
BY DEF WellFormed, Owner

LEMMA RulesAre ==
    ASSUME NEW rules \in Seq(Rule)
    PROVE  ToSet(rules) \subseteq Rule
BY DEF ToSet

LEMMA ConcernedRules ==
    ASSUME NEW c, WellFormed(c), NEW e \in Element
    PROVE  Concerned(e, c) \subseteq Rule
<1>1. /\ ToSet(c.scripts) \subseteq Rule /\ ToSet(c.styles) \subseteq Rule
      /\ ToSet(c.contents) \subseteq Rule
  BY ConfigIs, RulesAre
<1>2. {c.fallback} \ {None} \subseteq Rule
  BY DEF WellFormed
<1>3. e.tag \in {"script", "link", "iframe"}
  BY DEF Element
<1> QED
  BY <1>1, <1>2, <1>3 DEF Concerned, Naming

\* What is written on an element differs from nothing.
LEMMA MarksAre ==
    /\ \A r \in Rule : MarkOf(r) \in Marking /\ r # None
    /\ \A u \in Owner : AutoMark(u) \in Marking
    /\ Synthetic \in Marking
    /\ None \notin Marking
<1>1. /\ "universal" \in Owner /\ "marketing" \in Owner /\ "external_media" \in Owner
      /\ None \in Owner
  BY NameAssumption DEF Owner
<1>2. ASSUME NEW r \in Rule PROVE MarkOf(r) \in Marking
  BY DEF MarkOf, Marking, Rule
<1>3. ASSUME NEW u \in Owner PROVE AutoMark(u) \in Marking
  BY <1>1 DEF AutoMark, Marking
<1>4. Synthetic \in Marking
  BY <1>1 DEF Synthetic, Marking
<1>5. None \notin Rule /\ None \notin Marking
  BY NameAssumption
<1> QED
  BY <1>2, <1>3, <1>4, <1>5

LEMMA ScriptDecided ==
    ASSUME NEW c, WellFormed(c), NEW e \in Element, e.tag = "script"
    PROVE  /\ Decide(e, c) = None <=> ~Covered(e, c)
           /\ Decide(e, c) # None => Origin(e, c, Decide(e, c))
<1> DEFINE rule == FirstRule(c.scripts, e)
           auto == AutoMark(c.universalScript)
<1>1. Naming(e, c) = {r \in ToSet(c.scripts) : r.id \in e.matches}
  BY DEF Naming
<1>2. IF Naming(e, c) = {} THEN rule = None ELSE rule \in Naming(e, c)
  BY <1>1, ConfigIs, FirstRuleSound
<1>3. Naming(e, c) \subseteq Concerned(e, c) /\ Concerned(e, c) \subseteq Rule
  BY ConcernedRules DEF Concerned
<1>4. auto # None
  BY ConfigIs, MarksAre
<1>5. rule # None => rule \in Concerned(e, c) /\ MarkOf(rule) # None
  BY <1>2, <1>3, MarksAre
<1>6. rule # None <=> Naming(e, c) # {}
  BY <1>2, <1>3, MarksAre
<1>7. Decide(e, c) = DecideScript(e, c)
  BY DEF Decide
<1>8. e.ours \in BOOLEAN /\ c.auto.script \in BOOLEAN
  BY DEF Element, WellFormed
<1>9. Covered(e, c) <=>
         ~e.ours /\ (Naming(e, c) # {} \/ (c.auto.script /\ ThirdParty(e)))
  BY DEF Covered
<1>10. DecideScript(e, c) =
          IF ~e.ours /\ rule # None THEN MarkOf(rule)
          ELSE IF ~e.ours /\ c.auto.script /\ ThirdParty(e) THEN auto
          ELSE None
  BY <1>8 DEF DecideScript
<1> HIDE DEF rule, auto
<1>11. CASE ~e.ours /\ rule # None
  BY <1>5, <1>6, <1>7, <1>9, <1>10, <1>11 DEF Origin
<1>12. CASE ~(~e.ours /\ rule # None)
  BY <1>4, <1>6, <1>7, <1>9, <1>10, <1>12 DEF Origin, auto
<1> QED
  BY <1>11, <1>12

LEMMA StyleDecided ==
    ASSUME NEW c, WellFormed(c), NEW e \in Element, e.tag = "link"
    PROVE  /\ Decide(e, c) = None <=> ~Covered(e, c)
           /\ Decide(e, c) # None => Origin(e, c, Decide(e, c))
<1> DEFINE rule == FirstRule(c.styles, e)
           auto == AutoMark(c.universalStyle)
           sheet == e.sheet /\ e.host # "none"
<1>1. Naming(e, c) = {r \in ToSet(c.styles) : r.id \in e.matches}
  BY DEF Naming
<1>2. IF Naming(e, c) = {} THEN rule = None ELSE rule \in Naming(e, c)
  BY <1>1, ConfigIs, FirstRuleSound
<1>3. Naming(e, c) \subseteq Concerned(e, c) /\ Concerned(e, c) \subseteq Rule
  BY ConcernedRules DEF Concerned
<1>4. auto # None
  BY ConfigIs, MarksAre
<1>5. rule # None => rule \in Concerned(e, c) /\ MarkOf(rule) # None
  BY <1>2, <1>3, MarksAre
<1>6. rule # None <=> Naming(e, c) # {}
  BY <1>2, <1>3, MarksAre
<1>7. Decide(e, c) = DecideStyle(e, c)
  BY DEF Decide
<1>8. e.sheet \in BOOLEAN /\ c.auto.style \in BOOLEAN
  BY DEF Element, WellFormed
<1>9. Covered(e, c) <=>
         sheet /\ (Naming(e, c) # {} \/ (c.auto.style /\ ThirdParty(e)))
  BY DEF Covered
<1>10. DecideStyle(e, c) =
          IF sheet /\ rule # None THEN MarkOf(rule)
          ELSE IF sheet /\ c.auto.style /\ ThirdParty(e) THEN auto
          ELSE None
  BY <1>8 DEF DecideStyle, ThirdParty
<1> HIDE DEF rule, auto, sheet
<1>11. CASE sheet /\ rule # None
  BY <1>5, <1>6, <1>7, <1>9, <1>10, <1>11 DEF Origin
<1>12. CASE ~(sheet /\ rule # None)
  BY <1>4, <1>6, <1>7, <1>9, <1>10, <1>12 DEF Origin, auto
<1> QED
  BY <1>11, <1>12

LEMMA ContentDecided ==
    ASSUME NEW c, WellFormed(c), NEW e \in Element, e.tag = "iframe"
    PROVE  /\ Decide(e, c) = None <=> ~Covered(e, c)
           /\ Decide(e, c) # None => Origin(e, c, Decide(e, c))
<1> DEFINE rule == FirstRule(c.contents, e)
           wildcard == WildcardRule(c.contents)
           sourced == e.host # "none"
<1>1. Naming(e, c) = {r \in ToSet(c.contents) : r.id \in e.matches}
  BY DEF Naming
<1>2. IF Naming(e, c) = {} THEN rule = None ELSE rule \in Naming(e, c)
  BY <1>1, ConfigIs, FirstRuleSound
<1>3. Naming(e, c) \subseteq Concerned(e, c) /\ Concerned(e, c) \subseteq Rule
  BY ConcernedRules DEF Concerned
<1>4. wildcard # None => wildcard \in Concerned(e, c)
  BY ConfigIs, WildcardRuleSound DEF Concerned
<1>5. c.fallback # None => c.fallback \in Concerned(e, c)
  BY DEF Concerned
<1>6. \A r \in Concerned(e, c) : MarkOf(r) # None
  BY <1>3, MarksAre
<1>7. rule # None => rule \in Concerned(e, c)
  BY <1>2, <1>3
<1>8. rule # None <=> Naming(e, c) # {}
  BY <1>2, <1>3, MarksAre
<1>9. Decide(e, c) = DecideContent(e, c)
  BY DEF Decide
<1>10. c.auto.content \in BOOLEAN
  BY DEF WellFormed
<1>11. Covered(e, c) <=>
          sourced /\ (Naming(e, c) # {} \/ (c.auto.content /\ ThirdParty(e)))
  BY DEF Covered
<1>12. DecideContent(e, c) =
          IF sourced /\ rule # None THEN MarkOf(rule)
          ELSE IF sourced /\ c.auto.content /\ ThirdParty(e)
               THEN IF c.fallback # None THEN MarkOf(c.fallback)
                    ELSE IF wildcard # None THEN MarkOf(wildcard) ELSE Synthetic
               ELSE None
  BY <1>10 DEF DecideContent, ThirdParty, Synthetic
<1> HIDE DEF rule, wildcard, sourced
<1>13. CASE sourced /\ rule # None
  BY <1>6, <1>7, <1>8, <1>9, <1>11, <1>12, <1>13 DEF Origin
<1>14. CASE ~(sourced /\ rule # None) /\ sourced /\ c.auto.content /\ ThirdParty(e)
  BY <1>4, <1>5, <1>6, <1>8, <1>9, <1>11, <1>12, <1>14, MarksAre DEF Origin
<1>15. CASE ~(sourced /\ rule # None) /\ ~(sourced /\ c.auto.content /\ ThirdParty(e))
  BY <1>8, <1>9, <1>11, <1>12, <1>15
<1> QED
  BY <1>13, <1>14, <1>15

LEMMA Decided ==
    ASSUME NEW c, WellFormed(c), NEW e \in Element
    PROVE  /\ Decide(e, c) = None <=> ~Covered(e, c)
           /\ Decide(e, c) # None => Origin(e, c, Decide(e, c))
<1>1. e.tag \in {"script", "link", "iframe"}
  BY DEF Element
<1> QED
  BY <1>1, ScriptDecided, StyleDecided, ContentDecided

\* The proxy blocks exactly what the configuration covers: an element of a third
\* party and one that a rule names never passes, and nothing else is touched.
THEOREM BlockedIffCovered ==
    ASSUME NEW c, WellFormed(c), NEW e \in Element
    PROVE  Decide(e, c) # None <=> Covered(e, c)
BY Decided

-----------------------------------------------------------------------------
\* The consents that concern an element, by the rules that do.
LEMMA KeysAre ==
    ASSUME NEW c, NEW e, NEW r \in Concerned(e, c)
    PROVE  /\ r.service \in KeysOf(e, c) /\ r.group \in KeysOf(e, c)
           /\ r.service \in DOMAIN c.services =>
                 c.services[r.service] \in KeysOf(e, c)
BY DEF KeysOf, Concerned

LEMMA UniversalKeysAre ==
    ASSUME NEW c, NEW e
    PROVE  /\ "marketing" \in KeysOf(e, c)
           /\ e.tag = "iframe" =>
                 /\ {"external_media", "universal"} \subseteq KeysOf(e, c)
                 /\ "universal" \in DOMAIN c.services =>
                       c.services["universal"] \in KeysOf(e, c)
           /\ e.tag # "iframe" =>
                 {"discovered", c.universalScript, c.universalStyle} \subseteq KeysOf(e, c)
BY DEF KeysOf

\* A blocked element runs only under a consent that concerns it: for the service or
\* the group of a rule that names it or stands in for one, or for what is nobody's.
THEOREM ConsentConcerns ==
    ASSUME NEW c, WellFormed(c), NEW e \in Element, NEW granted \in SUBSET Names,
           Covered(e, c), MayUnblock(e, granted, c)
    PROVE  KeysOf(e, c) \cap (granted \cup c.required) # {}
<1> DEFINE mark == Decide(e, c)
           default == IF e.tag = "iframe" THEN "external_media" ELSE "marketing"
           given == granted \cup c.required
<1>1. Origin(e, c, mark)
  BY Decided
<1>2. ShouldAllow(mark, default, granted, c) \/ (e.tag # "iframe" /\ "discovered" \in granted)
  BY DEF MayUnblock
<1>3. default \in KeysOf(e, c) /\ "marketing" \in KeysOf(e, c)
  BY UniversalKeysAre
<1>4. \A g : HasGroup(g, granted, c) => g \in given
  BY DEF HasGroup
<1>5. \A s : HasService(s, granted, c) =>
              s \in given \/ (s \in DOMAIN c.services /\ c.services[s] \in given)
  BY DEF HasService, HasGroup
<1> HIDE DEF mark, default, given
<1>6. CASE e.tag # "iframe" /\ "discovered" \in granted
  BY <1>6, UniversalKeysAre DEF given
<1>7. CASE ShouldAllow(mark, default, granted, c)
  <2>1. ASSUME mark.service # None => /\ mark.service \in KeysOf(e, c)
                                      /\ mark.service \in DOMAIN c.services =>
                                            c.services[mark.service] \in KeysOf(e, c),
               mark.group # None => mark.group \in KeysOf(e, c)
        PROVE  \E k \in KeysOf(e, c) : k \in given
    BY <1>3, <1>4, <1>5, <1>7, <2>1 DEF ShouldAllow
  <2>2. CASE \E r \in Concerned(e, c) : mark = MarkOf(r)
    <3>1. PICK r \in Concerned(e, c) : mark = MarkOf(r)
      BY <2>2
    <3>2. mark.service = r.service /\ mark.group = r.group
      BY <3>1 DEF MarkOf
    <3> QED
      BY <2>1, <3>1, <3>2, KeysAre DEF given
  <2>3. ASSUME e.tag # "iframe", NEW u \in {c.universalScript, c.universalStyle},
               mark = AutoMark(u)
        PROVE  KeysOf(e, c) \cap given # {}
    <3>1. mark.service = None /\ mark.group = IF u = None THEN "marketing" ELSE u
      BY <2>3 DEF AutoMark
    <3> QED
      BY <1>3, <2>1, <2>3, <3>1, UniversalKeysAre
  <2>4. CASE e.tag = "iframe" /\ mark = Synthetic
    <3>1. mark.service = "universal" /\ mark.group = "external_media"
      BY <2>4 DEF Synthetic
    <3>2. /\ mark.service \in KeysOf(e, c) /\ mark.group \in KeysOf(e, c)
          /\ mark.service \in DOMAIN c.services =>
                c.services[mark.service] \in KeysOf(e, c)
      BY <2>4, <3>1, UniversalKeysAre
    <3>3. \E k \in KeysOf(e, c) : k \in given
      BY <2>1, <3>2
    <3> QED
      BY <3>3 DEF given
  <2>5. KeysOf(e, c) \cap given # {}
    BY <1>1, <2>2, <2>3, <2>4 DEF Origin, given
  <2> QED
    BY <2>5 DEF given
<1> QED
  BY <1>2, <1>6, <1>7

\* With full consent every element runs again that was not blocked for a service
\* or a group the configuration does not have.
THEOREM FullConsentGives ==
    ASSUME NEW c, WellFormed(c), NEW e \in Element,
           Covered(e, c), ~Orphaned(Decide(e, c), c)
    PROVE  MayUnblock(e, FullConsent(c), c)
<1> DEFINE mark == Decide(e, c)
           default == IF e.tag = "iframe" THEN "external_media" ELSE "marketing"
           full == FullConsent(c)
<1>1. \A g \in c.groups : HasGroup(g, full, c)
  BY DEF HasGroup, FullConsent
<1>2. \A s \in DOMAIN c.services : HasService(s, full, c)
  BY DEF HasService, FullConsent
<1>3. default \in c.groups
  BY DEF WellFormed
<1>4. None \notin c.groups /\ None \notin DOMAIN c.services
  BY NameAssumption DEF WellFormed
<1>5. \/ mark.service = None /\ mark.group = None
      \/ mark.service \in DOMAIN c.services
      \/ mark.service = "universal"
      \/ mark.group \in c.groups
  BY DEF Orphaned
<1> HIDE DEF mark, default, full
<1>6. "universal" # None
  BY NameAssumption
<1>7. ShouldAllow(mark, default, full, c)
  BY <1>1, <1>2, <1>3, <1>4, <1>5, <1>6 DEF ShouldAllow
<1> QED
  BY <1>7 DEF MayUnblock, mark, default, full

-----------------------------------------------------------------------------
\* Content-Security-Policies, functions from some directives to sets of sources.

\* What a browser admits by three directives, or by two.
LEMMA AdmitsByThree ==
    ASSUME NEW policy, NEW a, NEW b, NEW c, NEW s
    PROVE  Admits(policy, <<a, b, c>>, s) <=>
             IF a \in DOMAIN policy THEN s \in policy[a]
             ELSE IF b \in DOMAIN policy THEN s \in policy[b]
             ELSE IF c \in DOMAIN policy THEN s \in policy[c]
             ELSE TRUE
<1> DEFINE names == <<a, b, c>>
<1>1. DOMAIN names = 1..3 /\ names[1] = a /\ names[2] = b /\ names[3] = c
  OBVIOUS
<1>2. {names[i] : i \in DOMAIN names} = {a, b, c}
  <2>1. 1..3 = {1, 2, 3}
    OBVIOUS
  <2> QED
    BY <1>1, <2>1
<1>3. 1..(1 - 1) = {} /\ 1..(2 - 1) = {1} /\ 1..(3 - 1) = {1, 2} /\ 1..3 = {1, 2, 3}
  OBVIOUS
<1> HIDE DEF names
<1>4. Admits(policy, names, s) <=>
        \/ DOMAIN policy \cap {a, b, c} = {}
        \/ a \in DOMAIN policy /\ s \in policy[a]
        \/ b \in DOMAIN policy /\ s \in policy[b] /\ a \notin DOMAIN policy
        \/ c \in DOMAIN policy /\ s \in policy[c] /\ a \notin DOMAIN policy /\ b \notin DOMAIN policy
  BY <1>1, <1>2, <1>3 DEF Admits
<1> QED
  BY <1>4 DEF names

LEMMA AdmitsByTwo ==
    ASSUME NEW policy, NEW a, NEW b, NEW s
    PROVE  Admits(policy, <<a, b>>, s) <=>
             IF a \in DOMAIN policy THEN s \in policy[a]
             ELSE IF b \in DOMAIN policy THEN s \in policy[b]
             ELSE TRUE
<1> DEFINE names == <<a, b>>
<1>1. DOMAIN names = 1..2 /\ names[1] = a /\ names[2] = b
  OBVIOUS
<1>2. {names[i] : i \in DOMAIN names} = {a, b}
  <2>1. 1..2 = {1, 2}
    OBVIOUS
  <2> QED
    BY <1>1, <2>1
<1>3. 1..(1 - 1) = {} /\ 1..(2 - 1) = {1} /\ 1..2 = {1, 2}
  OBVIOUS
<1> HIDE DEF names
<1>4. Admits(policy, names, s) <=>
        \/ DOMAIN policy \cap {a, b} = {}
        \/ a \in DOMAIN policy /\ s \in policy[a]
        \/ b \in DOMAIN policy /\ s \in policy[b] /\ a \notin DOMAIN policy
  BY <1>1, <1>2, <1>3 DEF Admits
<1> QED
  BY <1>4 DEF names

ScriptDirectives == <<"script-src-elem", "script-src", "default-src">>
ConnectDirectives == <<"connect-src", "default-src">>

\* Whatever the policy of a page, with the nonce merged it admits the scripts that
\* the proxy injects, and every other script exactly if it did before.
THEOREM NonceMerged ==
    ASSUME NEW policy, NEW n
    PROVE  LET merged == MergeNonce(policy, n)
           IN  /\ AdmitsScript(merged, n)
               /\ \A s : s # Nonce(n) => (Admits(merged, ScriptDirectives, s)
                                           <=> Admits(policy, ScriptDirectives, s))
<1> DEFINE merged == MergeNonce(policy, n)
           elem == "script-src-elem" \in DOMAIN policy
           src == DOMAIN policy \cap {"script-src", "default-src"} # {}
<1>1. CASE elem
  <2>1. merged = Widened(policy, "script-src-elem", {Nonce(n)})
    BY <1>1 DEF MergeNonce
  <2> HIDE DEF merged
  <2>2. /\ "script-src-elem" \in DOMAIN merged
        /\ merged["script-src-elem"] = policy["script-src-elem"] \cup {Nonce(n)}
    BY <1>1, <2>1 DEF Widened
  <2>3. AdmitsScript(merged, n)
    BY <2>2, AdmitsByThree DEF AdmitsScript
  <2>4. ASSUME NEW s, s # Nonce(n)
        PROVE  Admits(merged, ScriptDirectives, s) <=> Admits(policy, ScriptDirectives, s)
    BY <1>1, <2>2, <2>4, AdmitsByThree DEF ScriptDirectives
  <2> QED
    BY <2>3, <2>4 DEF merged
<1>2. CASE ~elem /\ src
  <2>1. merged = Widened(policy, "script-src", {Nonce(n)})
    BY <1>2 DEF MergeNonce
  <2> HIDE DEF merged
  <2>2. /\ DOMAIN merged = DOMAIN policy \cup {"script-src"}
        /\ merged["script-src"] = (IF "script-src" \in DOMAIN policy
                                   THEN policy["script-src"] ELSE policy["default-src"])
                                  \cup {Nonce(n)}
    BY <1>2, <2>1 DEF Widened
  <2>3. "script-src-elem" \notin DOMAIN merged /\ "script-src" \in DOMAIN merged
    BY <1>2, <2>2
  <2>4. AdmitsScript(merged, n)
    BY <2>2, <2>3, AdmitsByThree DEF AdmitsScript
  <2>5. ASSUME NEW s, s # Nonce(n)
        PROVE  Admits(merged, ScriptDirectives, s) <=> Admits(policy, ScriptDirectives, s)
    BY <1>2, <2>2, <2>3, <2>5, AdmitsByThree DEF ScriptDirectives
  <2> QED
    BY <2>4, <2>5 DEF merged
<1>3. CASE ~elem /\ ~src
  <2>1. merged = policy
    BY <1>3 DEF MergeNonce
  <2>2. /\ "script-src-elem" \notin DOMAIN policy /\ "script-src" \notin DOMAIN policy
        /\ "default-src" \notin DOMAIN policy
    BY <1>3
  <2> QED
    BY <2>1, <2>2, AdmitsByThree DEF AdmitsScript
<1> QED
  BY <1>1, <1>2, <1>3

\* The same of the API that the injected scripts connect to.
THEOREM ApiMerged ==
    ASSUME NEW policy
    PROVE  LET merged == MergeConnectSrc(policy)
           IN  /\ AdmitsApi(merged)
               /\ \A s : s # Api => (Admits(merged, ConnectDirectives, s)
                                      <=> Admits(policy, ConnectDirectives, s))
<1> DEFINE merged == MergeConnectSrc(policy)
           open == DOMAIN policy \cap {"connect-src", "default-src"} = {}
<1>1. CASE ~open
  <2>1. merged = Widened(policy, "connect-src", {Api})
    BY <1>1 DEF MergeConnectSrc
  <2> HIDE DEF merged
  <2>2. /\ "connect-src" \in DOMAIN merged
        /\ merged["connect-src"] = (IF "connect-src" \in DOMAIN policy
                                    THEN policy["connect-src"] ELSE policy["default-src"])
                                   \cup {Api}
    BY <1>1, <2>1 DEF Widened
  <2>3. AdmitsApi(merged)
    BY <2>2, AdmitsByTwo DEF AdmitsApi
  <2>4. ASSUME NEW s, s # Api
        PROVE  Admits(merged, ConnectDirectives, s) <=> Admits(policy, ConnectDirectives, s)
    BY <1>1, <2>2, <2>4, AdmitsByTwo DEF ConnectDirectives
  <2> QED
    BY <2>3, <2>4 DEF merged
<1>2. CASE open
  <2>1. merged = policy
    BY <1>2 DEF MergeConnectSrc
  <2>2. "connect-src" \notin DOMAIN policy /\ "default-src" \notin DOMAIN policy
    BY <1>2
  <2> QED
    BY <2>1, <2>2, AdmitsByTwo DEF AdmitsApi
<1> QED
  BY <1>1, <1>2

\* A page that gets both, in the order of the pipeline, gets both.
THEOREM BothMerged ==
    ASSUME NEW policy, NEW n
    PROVE  LET merged == MergeConnectSrc(MergeNonce(policy, n))
           IN  AdmitsScript(merged, n) /\ AdmitsApi(merged)
<1> DEFINE nonced == MergeNonce(policy, n)
           merged == MergeConnectSrc(nonced)
<1>1. AdmitsScript(nonced, n)
  BY NonceMerged
<1>2. AdmitsApi(merged)
  BY ApiMerged
<1> HIDE DEF nonced
<1>3. \A d \in {"script-src-elem", "script-src", "default-src"} :
         /\ d \in DOMAIN merged <=> d \in DOMAIN nonced
         /\ d \in DOMAIN nonced => merged[d] = nonced[d]
  <2>1. CASE DOMAIN nonced \cap {"connect-src", "default-src"} = {}
    BY <2>1 DEF MergeConnectSrc
  <2>2. CASE DOMAIN nonced \cap {"connect-src", "default-src"} # {}
    <3>1. merged = Widened(nonced, "connect-src", {Api})
      BY <2>2 DEF MergeConnectSrc
    <3> HIDE DEF merged
    <3>2. /\ DOMAIN merged = DOMAIN nonced \cup {"connect-src"}
          /\ \A d \in DOMAIN nonced \ {"connect-src"} : merged[d] = nonced[d]
      BY <2>2, <3>1 DEF Widened
    <3> QED
      BY <3>2
  <2> QED
    BY <2>1, <2>2
<1> HIDE DEF merged
<1>4. AdmitsScript(merged, n)
  BY <1>1, <1>3, AdmitsByThree DEF AdmitsScript
<1> QED
  BY <1>2, <1>4 DEF merged, nonced

-----------------------------------------------------------------------------
\* Induction, over the naturals and over sequences, for sets.

LEMMA NatSetInduction ==
    ASSUME NEW S, 0 \in S, \A n \in Nat : n \in S => n + 1 \in S
    PROVE  \A n \in Nat : n \in S
<1> DEFINE I == {n \in Nat : n \notin S}
<1>1. ASSUME I # {} PROVE FALSE
  <2>1. I \in SUBSET Nat
    OBVIOUS
  <2> HIDE DEF I
  <2>2. PICK x \in I : \A y \in I : x =< y
    BY <1>1, <2>1, LeastNatural
  <2> USE DEF I
  <2>3. x \in Nat /\ x \notin S /\ x # 0
    OBVIOUS
  <2>4. x - 1 \in Nat /\ ~(x =< x - 1)
    BY <2>3
  <2>5. x - 1 \in S
    BY <2>2, <2>4
  <2>6. (x - 1) + 1 = x
    BY <2>3
  <2> QED
    BY <2>3, <2>4, <2>5, <2>6
<1> QED
  BY <1>1

LEMMA SeqSetInduction ==
    ASSUME NEW A, NEW T, <<>> \in T, \A s \in Seq(A), a \in A : s \in T => Append(s, a) \in T
    PROVE  \A s \in Seq(A) : s \in T
<1> DEFINE N == {n \in Nat : \A s \in Seq(A) : Len(s) = n => s \in T}
<1>1. 0 \in N
  <2>1. \A s \in Seq(A) : Len(s) = 0 => s = <<>>
    BY EmptySeq
  <2> QED
    BY <2>1
<1>2. ASSUME NEW n \in Nat, n \in N PROVE n + 1 \in N
  <2> SUFFICES ASSUME NEW s \in Seq(A), Len(s) = n + 1 PROVE s \in T
    OBVIOUS
  <2>1. s # <<>>
    BY EmptySeq
  <2>2. PICK t \in Seq(A), a \in A : s = Append(t, a)
    BY <2>1, SequenceEmptyOrAppend
  <2>3. Len(t) = n
    <3>1. Len(s) = Len(t) + 1 /\ Len(t) \in Nat
      BY <2>2, AppendProperties, LenProperties
    <3> QED
      BY <3>1
  <2>4. t \in T
    BY <1>2, <2>3
  <2> QED
    BY <2>2, <2>4
<1> HIDE DEF N
<1>3. \A n \in Nat : n \in N
  BY <1>1, <1>2, NatSetInduction
<1> USE DEF N
<1>4. \A s \in Seq(A) : Len(s) \in Nat
  BY LenProperties
<1> QED
  BY <1>3, <1>4

-----------------------------------------------------------------------------
\* The blocker, atom by atom.

LEMMA BlockUnrolled ==
    ASSUME NEW open, NEW chunk, Len(chunk) \in Nat
    PROVE  \E f : /\ f[0] = [open |-> open, out |-> <<>>]
                  /\ \A i \in 1..Len(chunk) : f[i] = BlockAtom(f[i - 1], chunk[i])
                  /\ Block(open, chunk) = f[Len(chunk)]
<1> DEFINE base == [open |-> open, out |-> <<>>]
           Good(n, f) == f = [i \in 0..n |-> IF i = 0 THEN base ELSE BlockAtom(f[i - 1], chunk[i])]
           N == {n \in Nat : \E f : Good(n, f)}
<1>1. 0 \in N
  <2> DEFINE f == [i \in 0..0 |-> base]
  <2>1. Good(0, f)
    OBVIOUS
  <2> QED
    BY <2>1
<1>2. ASSUME NEW n \in Nat, n \in N PROVE n + 1 \in N
  <2>1. PICK f : Good(n, f)
    BY <1>2
  <2> DEFINE g == [i \in 0..n + 1 |-> IF i = n + 1 THEN BlockAtom(f[n], chunk[n + 1]) ELSE f[i]]
             h == [i \in 0..n + 1 |-> IF i = 0 THEN base ELSE BlockAtom(g[i - 1], chunk[i])]
  <2>2. ASSUME NEW i \in 0..n + 1 PROVE g[i] = h[i]
    <3>1. CASE i = n + 1
      <4>1. n + 1 # 0 /\ (n + 1) - 1 = n /\ n \in 0..n + 1 /\ n # n + 1
        OBVIOUS
      <4>2. g[n] = f[n]
        BY <4>1
      <4>3. h[n + 1] = BlockAtom(g[n], chunk[n + 1])
        BY <4>1
      <4> HIDE DEF h
      <4>4. g[n + 1] = BlockAtom(f[n], chunk[n + 1])
        OBVIOUS
      <4> QED
        BY <3>1, <4>2, <4>3, <4>4
    <3>2. CASE i = 0
      <4>1. g[0] = f[0] /\ f[0] = base /\ h[0] = base
        BY <2>1
      <4> QED
        BY <3>2, <4>1
    <3>3. CASE i # 0 /\ i # n + 1
      <4>1. i \in 0..n /\ i - 1 \in 0..n + 1 /\ i - 1 # n + 1
        BY <3>3
      <4>2. g[i] = f[i] /\ g[i - 1] = f[i - 1]
        BY <3>3, <4>1
      <4>3. f[i] = BlockAtom(f[i - 1], chunk[i])
        BY <2>1, <3>3, <4>1
      <4>4. h[i] = BlockAtom(g[i - 1], chunk[i])
        BY <3>3
      <4> QED
        BY <4>2, <4>3, <4>4
    <3> QED
      BY <3>1, <3>2, <3>3
  <2>3. g = h
    BY <2>2
  <2>4. Good(n + 1, g)
    BY <2>3
  <2> HIDE DEF g, Good
  <2> QED
    BY <2>4
<1> HIDE DEF N
<1>3. Len(chunk) \in N
  BY <1>1, <1>2, NatSetInduction
<1> USE DEF N
<1> DEFINE after == CHOOSE f : Good(Len(chunk), f)
<1>4. Good(Len(chunk), after)
  BY <1>3
<1>5. Block(open, chunk) = after[Len(chunk)]
  BY DEF Block
<1> HIDE DEF after
<1>6. /\ after[0] = base
      /\ \A i \in 1..Len(chunk) : after[i] = BlockAtom(after[i - 1], chunk[i])
  <2>1. 0 \in 0..Len(chunk) /\ \A i \in 1..Len(chunk) : i \in 0..Len(chunk) /\ i # 0
    OBVIOUS
  <2> QED
    BY <1>4, <2>1
<1> QED
  BY <1>5, <1>6

BlockState == [open : Nat, out : Seq(Atoms)]

\* What a token does to the iframe that is open, and what is passed on for it.
Blocked(a) == a[1] = "tag" /\ Decide(Elements[a[2]], config) # None
NextOpen(o, a) ==
    IF o # 0 THEN (IF a[1] = "end" THEN 0 ELSE o)
    ELSE (IF Blocked(a) /\ Opens(a) THEN a[2] ELSE 0)
Emitted(o, a) ==
    IF o # 0 THEN (IF a[1] = "end" THEN <<<<"frame", o>>>> ELSE <<>>)
    ELSE IF ~Blocked(a) THEN <<a>>
    ELSE IF Elements[a[2]].tag # "iframe" THEN <<<<"blocked", a[2]>>>>
    ELSE IF Elements[a[2]].closed THEN <<<<"frame", a[2]>>>>
    ELSE <<>>

LEMMA AtomIs ==
    ASSUME NEW k, NEW n
    PROVE  <<k, n>> \in Atoms <=> k \in Kinds /\ n \in Nat
BY DEF Atoms

LEMMA AtomsAre ==
    ASSUME NEW a \in Atoms
    PROVE  a[1] \in Kinds /\ a[2] \in Nat /\ a = <<a[1], a[2]>>
BY DEF Atoms

LEMMA EmittedType ==
    ASSUME NEW o \in Nat, NEW a \in Atoms
    PROVE  NextOpen(o, a) \in Nat /\ Emitted(o, a) \in Seq(Atoms)
<1>1. a[2] \in Nat
  BY AtomsAre
<1>2. <<"frame", o>> \in Atoms /\ <<"frame", a[2]>> \in Atoms /\ <<"blocked", a[2]>> \in Atoms
  BY <1>1, AtomIs DEF Kinds
<1>3. \A x \in Atoms : <<x>> \in Seq(Atoms)
  OBVIOUS
<1>4. <<>> \in Seq(Atoms)
  OBVIOUS
<1> HIDE DEF Atoms
<1>5. NextOpen(o, a) \in Nat
  BY <1>1 DEF NextOpen
<1>6. Emitted(o, a) \in Seq(Atoms)
  BY <1>2, <1>3, <1>4 DEF Emitted
<1> QED
  BY <1>5, <1>6

LEMMA BlockAtomIs ==
    ASSUME NEW b \in BlockState, NEW a \in Atoms
    PROVE  /\ BlockAtom(b, a) = [open |-> NextOpen(b.open, a), out |-> b.out \o Emitted(b.open, a)]
           /\ BlockAtom(b, a) \in BlockState
<1> DEFINE e == Elements[a[2]]
           Split == BlockAtom(b, a) = [open |-> NextOpen(b.open, a), out |-> b.out \o Emitted(b.open, a)]
<1>1. b.open \in Nat /\ b.out \in Seq(Atoms) /\ b = [open |-> b.open, out |-> b.out]
  BY DEF BlockState
<1>2. <<"frame", b.open>> \in Atoms /\ <<"frame", a[2]>> \in Atoms /\ <<"blocked", a[2]>> \in Atoms
  BY <1>1, AtomsAre, AtomIs DEF Kinds
<1>3. \A x \in Atoms : Append(b.out, x) = b.out \o <<x>>
  BY <1>1, AppendIsConcat
<1>4. b.out \o <<>> = b.out
  BY <1>1, ConcatEmptySeq
<1>5. \A x, y : /\ [b EXCEPT !.out = y] = [open |-> b.open, out |-> y]
                /\ [b EXCEPT !.open = x] = [open |-> x, out |-> b.out]
  BY <1>1
<1>6. ASSUME b.open # 0 /\ a[1] = "end" PROVE Split
  <2>1. BlockAtom(b, a) = [open |-> 0, out |-> Append(b.out, <<"frame", b.open>>)]
    BY <1>6 DEF BlockAtom
  <2>2. NextOpen(b.open, a) = 0 /\ Emitted(b.open, a) = <<<<"frame", b.open>>>>
    BY <1>6 DEF NextOpen, Emitted
  <2> QED
    BY <1>2, <1>3, <2>1, <2>2
<1>7. ASSUME b.open # 0 /\ a[1] # "end" PROVE Split
  <2>1. BlockAtom(b, a) = b
    BY <1>7 DEF BlockAtom
  <2>2. NextOpen(b.open, a) = b.open /\ Emitted(b.open, a) = <<>>
    BY <1>7 DEF NextOpen, Emitted
  <2> QED
    BY <1>1, <1>4, <2>1, <2>2
<1>8. ASSUME b.open = 0 /\ ~Blocked(a) PROVE Split
  <2>1. BlockAtom(b, a) = [b EXCEPT !.out = Append(b.out, a)]
    BY <1>8 DEF BlockAtom, Blocked
  <2>2. NextOpen(b.open, a) = 0 /\ Emitted(b.open, a) = <<a>>
    BY <1>8 DEF NextOpen, Emitted
  <2> QED
    BY <1>3, <1>5, <1>8, <2>1, <2>2
<1>9. ASSUME b.open = 0 /\ Blocked(a) /\ e.tag # "iframe" PROVE Split
  <2>1. BlockAtom(b, a) = [b EXCEPT !.out = Append(b.out, <<"blocked", a[2]>>)]
    BY <1>9 DEF BlockAtom, Blocked
  <2>2. NextOpen(b.open, a) = 0 /\ Emitted(b.open, a) = <<<<"blocked", a[2]>>>>
    BY <1>9 DEF NextOpen, Emitted, Opens
  <2> QED
    BY <1>2, <1>3, <1>5, <1>9, <2>1, <2>2
<1>10. ASSUME b.open = 0 /\ Blocked(a) /\ e.tag = "iframe" /\ e.closed PROVE Split
  <2>1. BlockAtom(b, a) = [b EXCEPT !.out = Append(b.out, <<"frame", a[2]>>)]
    BY <1>10 DEF BlockAtom, Blocked
  <2>2. NextOpen(b.open, a) = 0 /\ Emitted(b.open, a) = <<<<"frame", a[2]>>>>
    BY <1>10 DEF NextOpen, Emitted, Opens
  <2> QED
    BY <1>2, <1>3, <1>5, <1>10, <2>1, <2>2
<1>11. ASSUME b.open = 0 /\ Blocked(a) /\ e.tag = "iframe" /\ ~e.closed PROVE Split
  <2>1. BlockAtom(b, a) = [b EXCEPT !.open = a[2]]
    BY <1>11 DEF BlockAtom, Blocked
  <2>2. NextOpen(b.open, a) = a[2] /\ Emitted(b.open, a) = <<>>
    BY <1>11 DEF NextOpen, Emitted, Opens, Blocked
  <2> QED
    BY <1>4, <1>5, <1>11, <2>1, <2>2
<1>12. Split
  BY <1>6, <1>7, <1>8, <1>9, <1>10, <1>11
<1>13. NextOpen(b.open, a) \in Nat /\ b.out \o Emitted(b.open, a) \in Seq(Atoms)
  BY <1>1, EmittedType, ConcatProperties
<1> QED
  BY <1>12, <1>13 DEF BlockState

LEMMA BlockEmpty ==
    ASSUME NEW open
    PROVE  Block(open, <<>>) = [open |-> open, out |-> <<>>]
<1>1. Len(<<>>) = 0
  OBVIOUS
<1>2. PICK f : f[0] = [open |-> open, out |-> <<>>] /\ Block(open, <<>>) = f[Len(<<>>)]
  BY <1>1, BlockUnrolled
<1> QED
  BY <1>1, <1>2

LEMMA BlockAppend ==
    ASSUME NEW open, NEW s \in Seq(Atoms), NEW a \in Atoms
    PROVE  Block(open, Append(s, a)) = BlockAtom(Block(open, s), a)
<1> DEFINE t == Append(s, a)
<1>1. /\ Len(s) \in Nat /\ Len(t) = Len(s) + 1 /\ t[Len(s) + 1] = a
      /\ \A i \in 1..Len(s) : t[i] = s[i]
  BY AppendProperties, LenProperties
<1> HIDE DEF t
<1>2. PICK f : /\ f[0] = [open |-> open, out |-> <<>>]
               /\ \A i \in 1..Len(t) : f[i] = BlockAtom(f[i - 1], t[i])
               /\ Block(open, t) = f[Len(t)]
  BY <1>1, BlockUnrolled
<1>3. PICK g : /\ g[0] = [open |-> open, out |-> <<>>]
               /\ \A i \in 1..Len(s) : g[i] = BlockAtom(g[i - 1], s[i])
               /\ Block(open, s) = g[Len(s)]
  BY <1>1, BlockUnrolled
<1> DEFINE N == {n \in Nat : n <= Len(s) => f[n] = g[n]}
<1>4. 0 \in N
  BY <1>2, <1>3
<1>5. ASSUME NEW n \in Nat, n \in N PROVE n + 1 \in N
  <2> SUFFICES ASSUME n + 1 <= Len(s) PROVE f[n + 1] = g[n + 1]
    OBVIOUS
  <2>1. n + 1 \in 1..Len(s) /\ n + 1 \in 1..Len(t) /\ (n + 1) - 1 = n /\ n <= Len(s)
    BY <1>1
  <2>2. f[n + 1] = BlockAtom(f[n], t[n + 1]) /\ g[n + 1] = BlockAtom(g[n], s[n + 1])
    BY <1>2, <1>3, <2>1
  <2>3. f[n] = g[n] /\ t[n + 1] = s[n + 1]
    BY <1>1, <1>5, <2>1
  <2> QED
    BY <2>2, <2>3
<1> HIDE DEF N
<1>6. \A n \in Nat : n \in N
  BY <1>4, <1>5, NatSetInduction
<1> USE DEF N
<1>7. f[Len(s)] = g[Len(s)]
  BY <1>1, <1>6
<1>8. f[Len(t)] = BlockAtom(f[Len(s)], a)
  <2>1. Len(t) \in 1..Len(t) /\ Len(t) - 1 = Len(s)
    BY <1>1
  <2>2. f[Len(t)] = BlockAtom(f[Len(t) - 1], t[Len(t)])
    BY <1>2, <2>1
  <2> QED
    BY <1>1, <2>1, <2>2
<1> QED
  BY <1>2, <1>3, <1>7, <1>8 DEF t

LEMMA BlockType ==
    ASSUME NEW open \in Nat
    PROVE  \A s \in Seq(Atoms) : Block(open, s) \in BlockState
<1> DEFINE T == {s \in Seq(Atoms) : Block(open, s) \in BlockState}
<1>1. <<>> \in T
  <2>1. <<>> \in Seq(Atoms)
    OBVIOUS
  <2>2. Block(open, <<>>) = [open |-> open, out |-> <<>>]
    BY BlockEmpty
  <2>3. [open |-> open, out |-> <<>>] \in BlockState
    BY <2>1 DEF BlockState
  <2> QED
    BY <2>1, <2>2, <2>3
<1>2. ASSUME NEW s \in Seq(Atoms), NEW a \in Atoms, s \in T PROVE Append(s, a) \in T
  <2>1. Append(s, a) \in Seq(Atoms)
    BY AppendProperties
  <2> QED
    BY <1>2, <2>1, BlockAppend, BlockAtomIs
<1> HIDE DEF T
<1>3. \A s \in Seq(Atoms) : s \in T
  BY <1>1, <1>2, SeqSetInduction
<1> QED
  BY <1>3 DEF T

\* The blocker works through two pieces of a page as through the whole.
LEMMA BlockConcat ==
    ASSUME NEW open \in Nat, NEW s \in Seq(Atoms)
    PROVE  \A t \in Seq(Atoms) :
              Block(open, s \o t) = [open |-> Block(Block(open, s).open, t).open,
                                     out  |-> Block(open, s).out \o Block(Block(open, s).open, t).out]
<1> DEFINE b == Block(open, s)
           Joint(c) == [open |-> c.open, out |-> b.out \o c.out]
           T == {t \in Seq(Atoms) : Block(open, s \o t) = Joint(Block(b.open, t))}
<1>1. b \in BlockState
  BY BlockType
<1> HIDE DEF b
<1>2. b.open \in Nat /\ b.out \in Seq(Atoms) /\ b = [open |-> b.open, out |-> b.out]
  BY <1>1 DEF BlockState
<1>3. <<>> \in T
  <2>1. s \o <<>> = s /\ b.out \o <<>> = b.out
    BY <1>2, ConcatEmptySeq
  <2>2. Joint(Block(b.open, <<>>)) = b
    BY <1>2, <2>1, BlockEmpty
  <2> QED
    BY <2>1, <2>2, EmptySeq DEF b
<1>4. ASSUME NEW t \in Seq(Atoms), NEW a \in Atoms, t \in T PROVE Append(t, a) \in T
  <2> DEFINE c == Block(b.open, t)
  <2>1. c \in BlockState
    BY <1>2, BlockType
  <2>2. s \o Append(t, a) = Append(s \o t, a) /\ s \o t \in Seq(Atoms) /\ Append(t, a) \in Seq(Atoms)
    OBVIOUS
  <2>3. Block(open, s \o Append(t, a)) = BlockAtom(Joint(c), a)
    BY <1>4, <2>2, BlockAppend
  <2>4. Block(b.open, Append(t, a)) = BlockAtom(c, a)
    BY BlockAppend
  <2> HIDE DEF c
  <2>5. c.open \in Nat /\ c.out \in Seq(Atoms) /\ Joint(c) \in BlockState
    BY <1>2, <2>1, ConcatProperties DEF BlockState
  <2>6. /\ BlockAtom(Joint(c), a) = [open |-> NextOpen(c.open, a), out |-> (b.out \o c.out) \o Emitted(c.open, a)]
        /\ BlockAtom(c, a) = [open |-> NextOpen(c.open, a), out |-> c.out \o Emitted(c.open, a)]
    BY <2>1, <2>5, BlockAtomIs
  <2>7. (b.out \o c.out) \o Emitted(c.open, a) = b.out \o (c.out \o Emitted(c.open, a))
    <3>1. Emitted(c.open, a) \in Seq(Atoms)
      BY <2>5, EmittedType
    <3>2. \A x, y, z \in Seq(Atoms) : (x \o y) \o z = x \o (y \o z)
      BY ConcatAssociative
    <3> QED
      BY <1>2, <2>5, <3>1, <3>2
  <2>8. BlockAtom(Joint(c), a) = Joint(BlockAtom(c, a))
    BY <2>6, <2>7
  <2> QED
    BY <2>2, <2>3, <2>4, <2>8
<1> HIDE DEF T
<1>5. \A t \in Seq(Atoms) : t \in T
  BY <1>3, <1>4, SeqSetInduction
<1> QED
  BY <1>5 DEF T, b

-----------------------------------------------------------------------------
\* What the blocker passes on.

Stopped == {e \in DOMAIN Elements : Decide(Elements[e], config) # None}
Openable == {0} \cup Stopped
Sendable == {a \in Atoms : a[1] \notin {"blocked", "frame"} /\ (a[1] = "tag" => a[2] \in DOMAIN Elements)}
Passed(K) == {a \in K : ~Blocked(a)} \cup ({"blocked", "frame"} \X Stopped)

LEMMA ElementsAre ==
    /\ DOMAIN Elements \subseteq Nat \ {0} /\ DOMAIN Elements = 1..Len(Elements)
    /\ \A e \in DOMAIN Elements : Elements[e] \in Element
BY ElementAssumption

\* Of an iframe that is open only its number is known, and that it is blocked.
LEMMA BlockPasses ==
    ASSUME NEW K, K \subseteq Sendable, NEW open \in Openable
    PROVE  \A s \in Seq(K) : /\ s \in Seq(Atoms)
                             /\ Block(open, s).open \in Openable
                             /\ Block(open, s).out \in Seq(Passed(K))
<1> DEFINE T == {s \in Seq(K) : /\ s \in Seq(Atoms)
                                /\ Block(open, s).open \in Openable
                                /\ Block(open, s).out \in Seq(Passed(K))}
<1>1. <<>> \in T
  <2>1. <<>> \in Seq(K) /\ <<>> \in Seq(Atoms) /\ <<>> \in Seq(Passed(K))
    OBVIOUS
  <2>2. Block(open, <<>>).open = open /\ Block(open, <<>>).out = <<>>
    BY BlockEmpty
  <2> QED
    BY <2>1, <2>2
<1>2. ASSUME NEW s \in Seq(K), NEW a \in K, s \in T PROVE Append(s, a) \in T
  <2> DEFINE b == Block(open, s)
             c == Block(open, Append(s, a))
  <2>1. /\ b.open \in Openable /\ b.out \in Seq(Passed(K)) /\ s \in Seq(Atoms)
        /\ a \in Atoms /\ open \in Nat
    BY <1>2, ElementsAre DEF Sendable, Openable, Stopped
  <2>2. b \in BlockState
    BY <2>1, BlockType
  <2>3. c.open = NextOpen(b.open, a) /\ c.out = b.out \o Emitted(b.open, a)
    <3>1. c = BlockAtom(b, a)
      BY <2>1, BlockAppend
    <3> HIDE DEF b, c
    <3>2. BlockAtom(b, a) = [open |-> NextOpen(b.open, a), out |-> b.out \o Emitted(b.open, a)]
      BY <2>1, <2>2, BlockAtomIs
    <3>3. c = [open |-> NextOpen(b.open, a), out |-> b.out \o Emitted(b.open, a)]
      BY <3>1, <3>2
    <3> QED
      BY <3>3
  <2> HIDE DEF b, c
  <2>4. a[1] = "tag" => a[2] \in DOMAIN Elements
    BY DEF Sendable
  <2>5. Blocked(a) => a[2] \in Stopped
    BY <2>4 DEF Blocked, Stopped
  <2>6. NextOpen(b.open, a) \in Openable
    BY <2>1, <2>5 DEF NextOpen, Openable
  <2>7. b.open # 0 => b.open \in Stopped
    BY <2>1 DEF Openable
  <2>8. /\ ~Blocked(a) => a \in Passed(K)
        /\ Blocked(a) => <<"blocked", a[2]>> \in Passed(K) /\ <<"frame", a[2]>> \in Passed(K)
        /\ b.open # 0 => <<"frame", b.open>> \in Passed(K)
    BY <2>5, <2>7 DEF Passed
  <2>9. \A x \in Passed(K) : <<x>> \in Seq(Passed(K))
    OBVIOUS
  <2>10. <<>> \in Seq(Passed(K))
    OBVIOUS
  <2>11. Emitted(b.open, a) \in Seq(Passed(K))
    BY <2>8, <2>9, <2>10 DEF Emitted
  <2>12. b.out \o Emitted(b.open, a) \in Seq(Passed(K))
    BY <2>1, <2>11, ConcatProperties
  <2>13. Append(s, a) \in Seq(K) /\ Append(s, a) \in Seq(Atoms)
    BY <2>1, AppendProperties
  <2>14. c.open \in Openable /\ c.out \in Seq(Passed(K))
    BY <2>3, <2>6, <2>12
  <2> QED
    BY <2>13, <2>14 DEF c
<1> HIDE DEF T
<1>3. \A s \in Seq(K) : s \in T
  BY <1>1, <1>2, SeqSetInduction
<1> QED
  BY <1>3 DEF T

\* What is neither the tag nor the end of an element passes as a whole, or not at all.
LEMMA BlockPlain ==
    ASSUME NEW open \in Nat
    PROVE  \A s \in Seq({a \in Atoms : a[1] \notin {"tag", "end"}}) :
              Block(open, s) = [open |-> open, out |-> IF open = 0 THEN s ELSE <<>>]
<1> DEFINE K == {a \in Atoms : a[1] \notin {"tag", "end"}}
           T == {s \in Seq(K) : Block(open, s) = [open |-> open, out |-> IF open = 0 THEN s ELSE <<>>]}
<1>1. <<>> \in T
  <2>1. <<>> \in Seq(K)
    OBVIOUS
  <2>2. Block(open, <<>>) = [open |-> open, out |-> <<>>]
    BY BlockEmpty
  <2> QED
    BY <2>1, <2>2
<1>2. ASSUME NEW s \in Seq(K), NEW a \in K, s \in T PROVE Append(s, a) \in T
  <2> DEFINE b == Block(open, s)
  <2>1. s \in Seq(Atoms) /\ a \in Atoms /\ a[1] # "tag" /\ a[1] # "end"
    <3>1. K \subseteq Atoms
      OBVIOUS
    <3> QED
      BY <3>1, SeqMonotonic
  <2>2. b \in BlockState
    BY <2>1, BlockType
  <2>3. Block(open, Append(s, a)) = [open |-> NextOpen(b.open, a), out |-> b.out \o Emitted(b.open, a)]
    <3>1. Block(open, Append(s, a)) = BlockAtom(b, a)
      BY <2>1, BlockAppend
    <3> HIDE DEF b
    <3>2. BlockAtom(b, a) = [open |-> NextOpen(b.open, a), out |-> b.out \o Emitted(b.open, a)]
      BY <2>1, <2>2, BlockAtomIs
    <3> QED
      BY <3>1, <3>2
  <2>4. b = [open |-> open, out |-> IF open = 0 THEN s ELSE <<>>]
    BY <1>2
  <2> HIDE DEF b
  <2>5. b.open = open /\ b.out = IF open = 0 THEN s ELSE <<>>
    BY <2>4
  <2>6. NextOpen(open, a) = open /\ Emitted(open, a) = IF open = 0 THEN <<a>> ELSE <<>>
    BY <2>1 DEF NextOpen, Emitted, Blocked
  <2>7. s \o <<a>> = Append(s, a) /\ <<>> \o <<>> = <<>>
    <3>1. s \o <<a>> = Append(s, a)
      BY <2>1, AppendIsConcat
    <3>2. <<>> \o <<>> = <<>>
      <4>1. <<>> \in Seq(Atoms)
        OBVIOUS
      <4> QED
        BY <4>1, ConcatEmptySeq
    <3> QED
      BY <3>1, <3>2
  <2>8. Append(s, a) \in Seq(K)
    BY AppendProperties
  <2> HIDE DEF K
  <2>9. b.out \o Emitted(b.open, a) = IF open = 0 THEN Append(s, a) ELSE <<>>
    BY <2>5, <2>6, <2>7
  <2> QED
    BY <2>3, <2>5, <2>6, <2>8, <2>9
<1> HIDE DEF T
<1>3. \A s \in Seq(K) : s \in T
  BY <1>1, <1>2, SeqSetInduction
<1> QED
  BY <1>3 DEF T

-----------------------------------------------------------------------------
\* Pages that are blurred.

Vague == {"char", "pair", "bad", "manager", "token", "nonce"}

LEMMA BlurredAtomIs ==
    ASSUME NEW a \in Atoms
    PROVE  /\ BlurredAtom(a) \in Atoms
           /\ a[1] \notin Vague => BlurredAtom(a) = a
           /\ a[1] \in Vague => BlurredAtom(a)[1] \in {"bad", "manager", "token"}
<1>1. <<"bad", 0>> \in Atoms /\ <<"manager", 0>> \in Atoms /\ <<"token", 0>> \in Atoms
  BY AtomIs DEF Kinds
<1> HIDE DEF Atoms
<1>2. CASE a[1] \in {"char", "pair", "bad"}
  <2>1. BlurredAtom(a) = <<"bad", 0>>
    BY <1>2 DEF BlurredAtom
  <2> QED
    BY <1>1, <1>2, <2>1 DEF Vague
<1>3. CASE a[1] = "manager"
  <2>1. BlurredAtom(a) = <<"manager", 0>>
    BY <1>3 DEF BlurredAtom
  <2> QED
    BY <1>1, <1>3, <2>1 DEF Vague
<1>4. CASE a[1] \in {"token", "nonce"}
  <2>1. BlurredAtom(a) = <<"token", 0>>
    BY <1>4 DEF BlurredAtom
  <2> QED
    BY <1>1, <1>4, <2>1 DEF Vague
<1>5. CASE a[1] \notin Vague
  <2>1. BlurredAtom(a) = a
    BY <1>5 DEF BlurredAtom, Vague
  <2> QED
    BY <1>5, <2>1
<1> QED
  BY <1>2, <1>3, <1>4, <1>5 DEF Vague

LEMMA BlurredIs ==
    ASSUME NEW s \in Seq(Atoms)
    PROVE  /\ Blurred(s) \in Seq(Atoms) /\ Len(Blurred(s)) = Len(s)
           /\ \A i \in 1..Len(s) : Blurred(s)[i] = BlurredAtom(s[i])
<1>1. Len(s) \in Nat /\ DOMAIN s = 1..Len(s) /\ \A i \in 1..Len(s) : s[i] \in Atoms
  BY LenProperties, ElementOfSeq
<1>2. Blurred(s) = [i \in 1..Len(s) |-> BlurredAtom(s[i])]
  BY <1>1 DEF Blurred
<1>3. \A i \in 1..Len(s) : BlurredAtom(s[i]) \in Atoms
  BY <1>1, BlurredAtomIs
<1> QED
  BY <1>1, <1>2, <1>3

LEMMA AtomsEqual ==
    ASSUME NEW s \in Seq(Atoms), NEW t \in Seq(Atoms), Len(s) = Len(t),
           \A i \in 1..Len(s) : s[i] = t[i]
    PROVE  s = t
BY SeqEqual

LEMMA AtomsJoined ==
    ASSUME NEW s \in Seq(Atoms), NEW t \in Seq(Atoms)
    PROVE  /\ s \o t \in Seq(Atoms) /\ Len(s \o t) = Len(s) + Len(t)
           /\ Len(s) \in Nat /\ Len(t) \in Nat
           /\ \A i \in 1..Len(s) + Len(t) : (s \o t)[i] = IF i <= Len(s) THEN s[i] ELSE t[i - Len(s)]
BY ConcatProperties, LenProperties

LEMMA BlurredConcat ==
    ASSUME NEW s \in Seq(Atoms), NEW t \in Seq(Atoms)
    PROVE  Blurred(s \o t) = Blurred(s) \o Blurred(t)
<1> DEFINE l == Blurred(s \o t)
           r == Blurred(s) \o Blurred(t)
<1>1. /\ s \o t \in Seq(Atoms) /\ Len(s \o t) = Len(s) + Len(t)
      /\ Len(s) \in Nat /\ Len(t) \in Nat
      /\ \A i \in 1..Len(s) + Len(t) : (s \o t)[i] = IF i <= Len(s) THEN s[i] ELSE t[i - Len(s)]
  BY AtomsJoined
<1>2. /\ l \in Seq(Atoms) /\ Len(l) = Len(s) + Len(t)
      /\ \A i \in 1..Len(s) + Len(t) : l[i] = BlurredAtom((s \o t)[i])
  BY <1>1, BlurredIs
<1>3. /\ Blurred(s) \in Seq(Atoms) /\ Len(Blurred(s)) = Len(s)
      /\ Blurred(t) \in Seq(Atoms) /\ Len(Blurred(t)) = Len(t)
      /\ \A i \in 1..Len(s) : Blurred(s)[i] = BlurredAtom(s[i])
      /\ \A i \in 1..Len(t) : Blurred(t)[i] = BlurredAtom(t[i])
  BY BlurredIs
<1>4. /\ r \in Seq(Atoms) /\ Len(r) = Len(s) + Len(t)
      /\ \A i \in 1..Len(s) + Len(t) :
            r[i] = IF i <= Len(s) THEN Blurred(s)[i] ELSE Blurred(t)[i - Len(s)]
  <2> DEFINE x == Blurred(s)
             y == Blurred(t)
  <2>1. x \in Seq(Atoms) /\ y \in Seq(Atoms) /\ Len(x) = Len(s) /\ Len(y) = Len(t)
    BY <1>3
  <2> HIDE DEF x, y
  <2>2. /\ x \o y \in Seq(Atoms) /\ Len(x \o y) = Len(x) + Len(y)
        /\ \A i \in 1..Len(x) + Len(y) : (x \o y)[i] = IF i <= Len(x) THEN x[i] ELSE y[i - Len(x)]
    BY <2>1, AtomsJoined
  <2> QED
    BY <2>1, <2>2 DEF x, y
<1> HIDE DEF l, r
<1>5. ASSUME NEW i \in 1..Len(l) PROVE l[i] = r[i]
  <2>1. CASE i <= Len(s)
    <3>1. i \in 1..Len(s) /\ i \in 1..Len(s) + Len(t)
      BY <1>1, <1>2, <2>1
    <3>2. l[i] = BlurredAtom(s[i]) /\ r[i] = Blurred(s)[i]
      BY <1>1, <1>2, <1>4, <2>1, <3>1
    <3> QED
      BY <1>3, <3>1, <3>2
  <2>2. CASE ~(i <= Len(s))
    <3>1. i - Len(s) \in 1..Len(t)
      BY <1>1, <1>2, <2>2
    <3> QED
      BY <1>1, <1>2, <1>3, <1>4, <2>2, <3>1
  <2> QED
    BY <2>1, <2>2
<1>6. l = r
  BY <1>2, <1>4, <1>5, AtomsEqual
<1> QED
  BY <1>6 DEF l, r

LEMMA BlurredAppend ==
    ASSUME NEW s \in Seq(Atoms), NEW a \in Atoms
    PROVE  /\ BlurredAtom(a) \in Atoms
           /\ Blurred(Append(s, a)) = Append(Blurred(s), BlurredAtom(a))
<1>1. BlurredAtom(a) \in Atoms
  BY BlurredAtomIs
<1>2. Append(s, a) = s \o <<a>> /\ <<a>> \in Seq(Atoms)
  BY AppendIsConcat
<1>3. Append(Blurred(s), BlurredAtom(a)) = Blurred(s) \o <<BlurredAtom(a)>>
  BY <1>1, BlurredIs, AppendIsConcat
<1>4. Blurred(<<a>>) = <<BlurredAtom(a)>>
  BY DEF Blurred
<1> QED
  BY <1>1, <1>2, <1>3, <1>4, BlurredConcat

LEMMA BlurredPart ==
    ASSUME NEW s \in Seq(Atoms), NEW m \in 1..Len(s) + 1, NEW n \in 0..Len(s)
    PROVE  /\ SubSeq(s, m, n) \in Seq(Atoms)
           /\ Len(SubSeq(s, m, n)) = IF m <= n THEN n - m + 1 ELSE 0
           /\ \A i \in 1..n - m + 1 : SubSeq(s, m, n)[i] = s[m + i - 1]
           /\ Blurred(SubSeq(s, m, n)) = SubSeq(Blurred(s), m, n)
<1> DEFINE p == SubSeq(s, m, n)
           q == SubSeq(Blurred(s), m, n)
<1>1. Len(s) \in Nat /\ m \in Int /\ n \in Int /\ \A i \in m..n : s[i] \in Atoms /\ i \in 1..Len(s)
  <2>1. Len(s) \in Nat
    BY LenProperties
  <2>2. \A i \in 1..Len(s) : s[i] \in Atoms
    BY ElementOfSeq
  <2> QED
    BY <2>1, <2>2
<1>2. /\ p \in Seq(Atoms) /\ Len(p) = IF m <= n THEN n - m + 1 ELSE 0
      /\ \A i \in 1..n - m + 1 : p[i] = s[m + i - 1]
  BY <1>1, SubSeqProperties
<1>3. /\ Blurred(s) \in Seq(Atoms) /\ Len(Blurred(s)) = Len(s)
      /\ \A i \in 1..Len(s) : Blurred(s)[i] = BlurredAtom(s[i])
  BY BlurredIs
<1>4. \A i \in m..n : Blurred(s)[i] \in Atoms
  BY <1>1, <1>3, ElementOfSeq
<1>5. /\ q \in Seq(Atoms) /\ Len(q) = IF m <= n THEN n - m + 1 ELSE 0
      /\ \A i \in 1..n - m + 1 : q[i] = Blurred(s)[m + i - 1]
  BY <1>1, <1>4, SubSeqProperties
<1>6. /\ Blurred(p) \in Seq(Atoms) /\ Len(Blurred(p)) = Len(p)
      /\ \A i \in 1..Len(p) : Blurred(p)[i] = BlurredAtom(p[i])
  BY <1>2, BlurredIs
<1> HIDE DEF p, q
<1>7. ASSUME NEW i \in 1..Len(q) PROVE Blurred(p)[i] = q[i]
  <2>1. i \in 1..n - m + 1 /\ m + i - 1 \in 1..Len(s) /\ i \in 1..Len(p)
    BY <1>1, <1>2, <1>5
  <2> QED
    BY <1>2, <1>3, <1>5, <1>6, <2>1
<1>8. Blurred(p) = q
  BY <1>2, <1>5, <1>6, <1>7, AtomsEqual
<1> QED
  BY <1>2, <1>8 DEF p, q

\* The blocker does the same to a page and to the blurred page.
LEMMA EmittedBlurred ==
    ASSUME NEW o \in Nat, NEW a \in Atoms
    PROVE  /\ NextOpen(o, BlurredAtom(a)) = NextOpen(o, a)
           /\ Emitted(o, BlurredAtom(a)) = Blurred(Emitted(o, a))
<1>1. \A x \in Atoms : Blurred(<<x>>) = <<BlurredAtom(x)>>
  BY DEF Blurred
<1>2. Blurred(<<>>) = <<>>
  BY DEF Blurred
<1>3. CASE a[1] \in Vague
  <2> DEFINE x == BlurredAtom(a)
  <2>1. x \in Atoms /\ x[1] \in {"bad", "manager", "token"}
    BY <1>3, BlurredAtomIs
  <2>2. a[1] # "tag" /\ a[1] # "end" /\ x[1] # "tag" /\ x[1] # "end"
    BY <1>3, <2>1 DEF Vague
  <2> HIDE DEF x
  <2>3. /\ NextOpen(o, x) = o /\ NextOpen(o, a) = o
        /\ Emitted(o, x) = (IF o # 0 THEN <<>> ELSE <<x>>)
        /\ Emitted(o, a) = (IF o # 0 THEN <<>> ELSE <<a>>)
    BY <2>2 DEF NextOpen, Emitted, Blocked
  <2> QED
    BY <1>1, <1>2, <2>3 DEF x
<1>4. CASE a[1] \notin Vague
  <2>1. BlurredAtom(a) = a
    BY <1>4, BlurredAtomIs
  <2>2. \A k \in {"frame", "blocked"}, n \in Nat : <<k, n>> \in Atoms /\ BlurredAtom(<<k, n>>) = <<k, n>>
    <3>1. ASSUME NEW k \in {"frame", "blocked"}, NEW n \in Nat
          PROVE <<k, n>> \in Atoms /\ BlurredAtom(<<k, n>>) = <<k, n>>
      <4>1. <<k, n>> \in Atoms
        BY AtomIs DEF Kinds
      <4>2. <<k, n>>[1] \notin Vague
        BY DEF Vague
      <4> QED
        BY <4>1, <4>2, BlurredAtomIs
    <3> QED
      BY <3>1
  <2>3. a[2] \in Nat
    BY AtomsAre
  <2>4. /\ Blurred(<<<<"frame", o>>>>) = <<<<"frame", o>>>>
        /\ Blurred(<<<<"frame", a[2]>>>>) = <<<<"frame", a[2]>>>>
        /\ Blurred(<<<<"blocked", a[2]>>>>) = <<<<"blocked", a[2]>>>>
        /\ Blurred(<<a>>) = <<a>>
    BY <1>1, <2>1, <2>2, <2>3
  <2>5. Blurred(Emitted(o, a)) = Emitted(o, a)
    BY <1>2, <2>4 DEF Emitted
  <2> QED
    BY <2>1, <2>5
<1> QED
  BY <1>3, <1>4

LEMMA BlockBlurred ==
    ASSUME NEW open \in Nat
    PROVE  \A s \in Seq(Atoms) : /\ Block(open, Blurred(s)).open = Block(open, s).open
                                 /\ Block(open, Blurred(s)).out = Blurred(Block(open, s).out)
<1> DEFINE T == {s \in Seq(Atoms) : /\ Block(open, Blurred(s)).open = Block(open, s).open
                                    /\ Block(open, Blurred(s)).out = Blurred(Block(open, s).out)}
<1>1. <<>> \in T
  <2>1. <<>> \in Seq(Atoms) /\ Blurred(<<>>) = <<>>
    BY DEF Blurred
  <2>2. Block(open, <<>>).out = <<>>
    BY BlockEmpty
  <2> QED
    BY <2>1, <2>2
<1>2. ASSUME NEW s \in Seq(Atoms), NEW a \in Atoms, s \in T PROVE Append(s, a) \in T
  <2> DEFINE b == Block(open, s)
             c == Block(open, Append(s, a))
             bb == Block(open, Blurred(s))
             cc == Block(open, Blurred(Append(s, a)))
             aa == BlurredAtom(a)
  <2>1. b \in BlockState /\ bb \in BlockState /\ aa \in Atoms /\ Blurred(s) \in Seq(Atoms)
    BY BlockType, BlurredIs, BlurredAtomIs
  <2>2. bb.open = b.open /\ bb.out = Blurred(b.out)
    BY <1>2
  <2>3. c = BlockAtom(b, a) /\ cc = BlockAtom(bb, aa)
    <3>1. c = BlockAtom(b, a)
      BY BlockAppend
    <3>2. Blurred(Append(s, a)) = Append(Blurred(s), aa)
      BY BlurredAppend
    <3>3. Block(open, Append(Blurred(s), aa)) = BlockAtom(bb, aa)
      BY <2>1, BlockAppend
    <3> QED
      BY <3>1, <3>2, <3>3
  <2> HIDE DEF b, c, bb, cc, aa
  <2>4. c = [open |-> NextOpen(b.open, a), out |-> b.out \o Emitted(b.open, a)]
    BY <2>1, <2>3, BlockAtomIs
  <2>5. cc = [open |-> NextOpen(bb.open, aa), out |-> bb.out \o Emitted(bb.open, aa)]
    BY <2>1, <2>3, BlockAtomIs
  <2>6. b.open \in Nat /\ b.out \in Seq(Atoms)
    BY <2>1 DEF BlockState
  <2>7. NextOpen(b.open, aa) = NextOpen(b.open, a) /\ Emitted(b.open, aa) = Blurred(Emitted(b.open, a))
    BY <2>6, EmittedBlurred DEF aa
  <2>8. Blurred(b.out \o Emitted(b.open, a)) = Blurred(b.out) \o Blurred(Emitted(b.open, a))
    BY <2>6, EmittedType, BlurredConcat
  <2>9. cc.open = c.open /\ cc.out = Blurred(c.out)
    BY <2>2, <2>4, <2>5, <2>7, <2>8
  <2>10. Append(s, a) \in Seq(Atoms)
    BY AppendProperties
  <2> QED
    BY <2>9, <2>10 DEF c, cc
<1> HIDE DEF T
<1>3. \A s \in Seq(Atoms) : s \in T
  BY <1>1, <1>2, SeqSetInduction
<1> QED
  BY <1>3 DEF T

LEMMA BlockAlike ==
    ASSUME NEW open \in Nat, NEW s \in Seq(Atoms), NEW t \in Seq(Atoms), Blurred(s) = Blurred(t)
    PROVE  /\ Block(open, s).open = Block(open, t).open
           /\ Blurred(Block(open, s).out) = Blurred(Block(open, t).out)
BY BlockBlurred

-----------------------------------------------------------------------------
\* What becomes of the elements of a page.

\* An iframe that is open has begun in what was read, and has not ended.
LEMMA OpenHasBegun ==
    \A s \in Seq(Atoms) :
       Block(0, s).open # 0 =>
          \E f \in 1..Len(s) : Opens(s[f]) /\ \A k \in f..Len(s) : s[k][1] # "end"
<1> DEFINE Begun(s) == \E f \in 1..Len(s) : Opens(s[f]) /\ \A k \in f..Len(s) : s[k][1] # "end"
           T == {s \in Seq(Atoms) : Block(0, s).open # 0 => Begun(s)}
<1>1. <<>> \in T
  <2>1. <<>> \in Seq(Atoms)
    OBVIOUS
  <2>2. Block(0, <<>>).open = 0
    BY BlockEmpty
  <2> QED
    BY <2>1, <2>2
<1>2. ASSUME NEW s \in Seq(Atoms), NEW a \in Atoms, s \in T PROVE Append(s, a) \in T
  <2> DEFINE b == Block(0, s)
             t == Append(s, a)
             c == Block(0, t)
  <2>1. b \in BlockState /\ c = BlockAtom(b, a)
    BY BlockType, BlockAppend
  <2>2. /\ t \in Seq(Atoms) /\ Len(s) \in Nat /\ Len(t) = Len(s) + 1 /\ t[Len(s) + 1] = a
        /\ \A i \in 1..Len(s) : t[i] = s[i]
    BY AppendProperties, LenProperties
  <2>3. b.open # 0 => Begun(s)
    BY <1>2
  <2> HIDE DEF b, c, t
  <2>4. c = [open |-> NextOpen(b.open, a), out |-> b.out \o Emitted(b.open, a)]
    BY <2>1, BlockAtomIs
  <2>5. c.open = NextOpen(b.open, a)
    BY <2>4
  <2>6. ASSUME c.open # 0 PROVE Begun(t)
    <3>1. CASE b.open # 0
      <4>1. a[1] # "end"
        BY <2>5, <2>6, <3>1 DEF NextOpen
      <4>2. PICK f \in 1..Len(s) : Opens(s[f]) /\ \A k \in f..Len(s) : s[k][1] # "end"
        BY <2>3, <3>1
      <4>3. f \in 1..Len(t) /\ Opens(t[f])
        BY <2>2, <4>2
      <4>4. ASSUME NEW k \in f..Len(t) PROVE t[k][1] # "end"
        <5>1. CASE k = Len(s) + 1
          BY <2>2, <4>1, <5>1
        <5>2. CASE k # Len(s) + 1
          <6>1. k \in f..Len(s) /\ k \in 1..Len(s)
            BY <2>2, <5>2
          <6> QED
            BY <2>2, <4>2, <6>1
        <5> QED
          BY <5>1, <5>2
      <4> QED
        BY <4>3, <4>4
    <3>2. CASE b.open = 0
      <4>1. Opens(a)
        BY <2>5, <2>6, <3>2 DEF NextOpen
      <4>2. Len(t) \in 1..Len(t) /\ t[Len(t)] = a
        BY <2>2
      <4>3. \A k \in Len(t)..Len(t) : t[k][1] # "end"
        BY <2>2, <4>1, <4>2 DEF Opens
      <4> QED
        BY <4>1, <4>2, <4>3
    <3> QED
      BY <3>1, <3>2
  <2> QED
    BY <2>2, <2>6 DEF c, t
<1> HIDE DEF T
<1>3. \A s \in Seq(Atoms) : s \in T
  BY <1>1, <1>2, SeqSetInduction
<1> QED
  BY <1>3 DEF T

Shows(s, k, e) == \E i \in 1..Len(s) : s[i] = <<k, e>>

LEMMA ShownFirst ==
    ASSUME NEW s \in Seq(Atoms), NEW t \in Seq(Atoms), NEW k, NEW e, Shows(s, k, e) \/ Shows(t, k, e)
    PROVE  Shows(s \o t, k, e)
<1>1. /\ Len(s \o t) = Len(s) + Len(t) /\ Len(s) \in Nat /\ Len(t) \in Nat
      /\ \A i \in 1..Len(s) + Len(t) : (s \o t)[i] = IF i <= Len(s) THEN s[i] ELSE t[i - Len(s)]
  BY AtomsJoined
<1>2. CASE Shows(s, k, e)
  <2>1. PICK i \in 1..Len(s) : s[i] = <<k, e>>
    BY <1>2 DEF Shows
  <2>2. i \in 1..Len(s) + Len(t) /\ (s \o t)[i] = s[i]
    BY <1>1, <2>1
  <2> QED
    BY <1>1, <2>1, <2>2 DEF Shows
<1>3. CASE Shows(t, k, e)
  <2>1. PICK i \in 1..Len(t) : t[i] = <<k, e>>
    BY <1>3 DEF Shows
  <2>2. /\ i + Len(s) \in 1..Len(s) + Len(t) /\ ~(i + Len(s) <= Len(s)) /\ (i + Len(s)) - Len(s) = i
    BY <1>1, <2>1
  <2>3. (s \o t)[i + Len(s)] = t[i]
    BY <1>1, <2>2
  <2> QED
    BY <1>1, <2>1, <2>2, <2>3 DEF Shows
<1> QED
  BY <1>2, <1>3

\* The end of the iframe that is open brings its placeholder.
LEMMA EndShows ==
    ASSUME NEW open \in Nat, open # 0
    PROVE  \A s \in Seq(Atoms) :
              \/ Shows(Block(open, s).out, "frame", open)
              \/ Block(open, s).open = open /\ \A k \in 1..Len(s) : s[k][1] # "end"
<1> DEFINE T == {s \in Seq(Atoms) :
              \/ Shows(Block(open, s).out, "frame", open)
              \/ Block(open, s).open = open /\ \A k \in 1..Len(s) : s[k][1] # "end"}
<1>1. <<>> \in T
  <2>1. <<>> \in Seq(Atoms) /\ \A k \in 1..Len(<<>>) : FALSE
    OBVIOUS
  <2>2. Block(open, <<>>).open = open
    BY BlockEmpty
  <2> QED
    BY <2>1, <2>2
<1>2. ASSUME NEW s \in Seq(Atoms), NEW a \in Atoms, s \in T PROVE Append(s, a) \in T
  <2> DEFINE b == Block(open, s)
             t == Append(s, a)
             c == Block(open, t)
  <2>1. b \in BlockState /\ c = BlockAtom(b, a)
    BY BlockType, BlockAppend
  <2>2. /\ t \in Seq(Atoms) /\ Len(s) \in Nat /\ Len(t) = Len(s) + 1 /\ t[Len(s) + 1] = a
        /\ \A i \in 1..Len(s) : t[i] = s[i]
    BY AppendProperties, LenProperties
  <2>3. \/ Shows(b.out, "frame", open)
        \/ b.open = open /\ \A k \in 1..Len(s) : s[k][1] # "end"
    BY <1>2
  <2> HIDE DEF b, c, t
  <2>4. c = [open |-> NextOpen(b.open, a), out |-> b.out \o Emitted(b.open, a)]
    BY <2>1, BlockAtomIs
  <2>5. c.open = NextOpen(b.open, a) /\ c.out = b.out \o Emitted(b.open, a)
    BY <2>4
  <2>6. b.open \in Nat /\ b.out \in Seq(Atoms)
    BY <2>1 DEF BlockState
  <2>7. Emitted(b.open, a) \in Seq(Atoms)
    BY <2>6, EmittedType
  <2>8. CASE Shows(b.out, "frame", open)
    BY <2>2, <2>5, <2>6, <2>7, <2>8, ShownFirst DEF c, t
  <2>9. CASE b.open = open /\ (\A k \in 1..Len(s) : s[k][1] # "end") /\ a[1] = "end"
    <3>1. Emitted(b.open, a) = <<<<"frame", open>>>>
      BY <2>9 DEF Emitted
    <3>2. Shows(<<<<"frame", open>>>>, "frame", open)
      BY DEF Shows
    <3>3. Shows(c.out, "frame", open)
      BY <2>5, <2>6, <2>7, <3>1, <3>2, ShownFirst
    <3> QED
      BY <2>2, <3>3 DEF c, t
  <2>10. CASE b.open = open /\ (\A k \in 1..Len(s) : s[k][1] # "end") /\ a[1] # "end"
    <3>1. c.open = open
      BY <2>5, <2>10 DEF NextOpen
    <3>2. ASSUME NEW k \in 1..Len(t) PROVE t[k][1] # "end"
      <4>1. CASE k = Len(s) + 1
        BY <2>2, <2>10, <4>1
      <4>2. CASE k # Len(s) + 1
        <5>1. k \in 1..Len(s)
          BY <2>2, <4>2
        <5> QED
          BY <2>2, <2>10, <5>1
      <4> QED
        BY <4>1, <4>2
    <3> QED
      BY <2>2, <3>1, <3>2 DEF c, t
  <2> QED
    BY <2>3, <2>8, <2>9, <2>10
<1> HIDE DEF T
<1>3. \A s \in Seq(Atoms) : s \in T
  BY <1>1, <1>2, SeqSetInduction
<1> QED
  BY <1>3 DEF T

\* An element comes through, as it is or blocked, if its iframe ends.
LEMMA ElementShows ==
    ASSUME NEW s \in Seq(Atoms), Nested(s), NEW i \in 1..Len(s), s[i][1] = "tag",
           s[i][2] \in DOMAIN Elements,
           Opens(s[i]) => \E j \in i..Len(s) : s[j][1] = "end"
    PROVE  \E k \in {"tag", "blocked", "frame"} : Shows(Block(0, s).out, k, s[i][2])
<1> DEFINE u == SubSeq(s, 1, i - 1)
           v == SubSeq(s, i + 1, Len(s))
           a == s[i]
           b == Block(0, u)
           c == BlockAtom(b, a)
           d == Block(c.open, v)
<1>1. Len(s) \in Nat /\ DOMAIN s = 1..Len(s) /\ a \in Atoms
  BY LenProperties, ElementOfSeq
<1>2. /\ u \in Seq(Atoms) /\ Len(u) = i - 1 /\ \A k \in 1..i - 1 : u[k] = s[k]
  <2>1. 1 \in 1..Len(s) + 1 /\ i - 1 \in 0..Len(s) /\ (i - 1) - 1 + 1 = i - 1
    BY <1>1
  <2>2. /\ SubSeq(s, 1, i - 1) \in Seq(Atoms)
        /\ Len(SubSeq(s, 1, i - 1)) = IF 1 <= i - 1 THEN (i - 1) - 1 + 1 ELSE 0
        /\ \A k \in 1..(i - 1) - 1 + 1 : SubSeq(s, 1, i - 1)[k] = s[1 + k - 1]
    BY <2>1, BlurredPart
  <2> QED
    BY <1>1, <2>1, <2>2
<1>3. /\ v \in Seq(Atoms) /\ Len(v) = Len(s) - i /\ \A k \in 1..Len(s) - i : v[k] = s[i + k]
  <2>1. i + 1 \in 1..Len(s) + 1 /\ Len(s) \in 0..Len(s) /\ Len(s) - (i + 1) + 1 = Len(s) - i
    BY <1>1
  <2>2. /\ SubSeq(s, i + 1, Len(s)) \in Seq(Atoms)
        /\ Len(SubSeq(s, i + 1, Len(s))) = IF i + 1 <= Len(s) THEN Len(s) - (i + 1) + 1 ELSE 0
        /\ \A k \in 1..Len(s) - (i + 1) + 1 : SubSeq(s, i + 1, Len(s))[k] = s[(i + 1) + k - 1]
    BY <2>1, BlurredPart
  <2> HIDE DEF v
  <2>3. Len(v) = Len(s) - i
    <3>1. Len(v) = IF i + 1 <= Len(s) THEN Len(s) - (i + 1) + 1 ELSE 0
      BY <2>2 DEF v
    <3>2. i \in Nat /\ i <= Len(s) /\ Len(s) \in Nat
      BY <1>1
    <3>3. CASE i = Len(s)
      <4>1. ~(i + 1 <= Len(s)) /\ Len(s) - i = 0
        BY <3>2, <3>3
      <4> QED
        BY <3>1, <4>1
    <3>4. CASE i # Len(s)
      <4>1. i + 1 <= Len(s) /\ Len(s) - (i + 1) + 1 = Len(s) - i
        BY <3>2, <3>4
      <4> QED
        BY <3>1, <4>1
    <3> QED
      BY <3>3, <3>4
  <2>4. ASSUME NEW k \in 1..Len(s) - i PROVE v[k] = s[i + k]
    <3>1. k \in 1..Len(s) - (i + 1) + 1 /\ (i + 1) + k - 1 = i + k
      BY <1>1, <2>1
    <3> QED
      BY <2>2, <3>1 DEF v
  <2> QED
    BY <2>2, <2>3, <2>4 DEF v
<1>4. s = Append(u, a) \o v
  <2>1. /\ Append(u, a) \in Seq(Atoms) /\ Len(Append(u, a)) = i
        /\ Append(u, a)[i] = a /\ \A k \in 1..i - 1 : Append(u, a)[k] = s[k]
    <3> HIDE DEF u
    <3>1. /\ Append(u, a) \in Seq(Atoms) /\ Len(Append(u, a)) = Len(u) + 1
          /\ Append(u, a)[Len(u) + 1] = a /\ \A k \in 1..Len(u) : Append(u, a)[k] = u[k]
      BY <1>1, <1>2, AppendProperties
    <3> QED
      BY <1>2, <3>1
  <2> DEFINE w == Append(u, a)
  <2> HIDE DEF w, v
  <2>2. /\ w \o v \in Seq(Atoms) /\ Len(w \o v) = Len(w) + Len(v)
        /\ \A k \in 1..Len(w) + Len(v) : (w \o v)[k] = IF k <= Len(w) THEN w[k] ELSE v[k - Len(w)]
    BY <1>3, <2>1, AtomsJoined DEF w
  <2>3. Len(w) = i /\ Len(w \o v) = Len(s) /\ \A k \in 1..i : w[k] = s[k]
    <3>1. Len(w) = i /\ w[i] = s[i] /\ \A k \in 1..i - 1 : w[k] = s[k]
      BY <2>1 DEF w
    <3>2. Len(w \o v) = Len(s)
      BY <1>1, <1>3, <2>2, <3>1
    <3>3. \A k \in 1..i : k = i \/ k \in 1..i - 1
      BY <1>1
    <3> QED
      BY <3>1, <3>2, <3>3
  <2>4. ASSUME NEW k \in 1..Len(s) PROVE s[k] = (w \o v)[k]
    <3>1. CASE k <= i
      BY <1>3, <2>2, <2>3, <3>1
    <3>2. CASE ~(k <= i)
      <4>1. k - i \in 1..Len(s) - i /\ i + (k - i) = k
        BY <1>1, <3>2
      <4> QED
        BY <1>1, <1>3, <2>2, <2>3, <3>2, <4>1
    <3> QED
      BY <3>1, <3>2
  <2>5. s = w \o v
    BY <2>2, <2>3, <2>4, AtomsEqual
  <2> QED
    BY <2>5 DEF w
<1>5. b \in BlockState
  BY <1>2, BlockType
<1>6. b.open = 0
  <2> SUFFICES ASSUME b.open # 0 PROVE FALSE
    OBVIOUS
  <2>1. PICK f \in 1..Len(u) : Opens(u[f]) /\ \A k \in f..Len(u) : u[k][1] # "end"
    BY <1>2, OpenHasBegun
  <2>2. f \in 1..i - 1 /\ f \in DOMAIN s /\ i \in DOMAIN s /\ f < i /\ Opens(s[f])
    BY <1>1, <1>2, <2>1
  <2>3. PICK k \in f..i : s[k][1] = "end"
    BY <2>2 DEF Nested
  <2>4. k # i
    BY <2>3
  <2>5. k \in f..Len(u) /\ k \in 1..i - 1
    BY <1>1, <1>2, <2>2, <2>4
  <2>6. u[k] = s[k]
    BY <1>2, <2>5
  <2> QED
    BY <2>1, <2>3, <2>5, <2>6
<1>7. Block(0, Append(u, a)) = c /\ Append(u, a) \in Seq(Atoms)
  <2> HIDE DEF u
  <2>1. Append(u, a) \in Seq(Atoms)
    BY <1>1, <1>2, AppendProperties
  <2>2. Block(0, Append(u, a)) = BlockAtom(Block(0, u), a)
    BY <1>1, <1>2, BlockAppend
  <2> QED
    BY <2>1, <2>2
<1>8. Block(0, s) = [open |-> d.open, out |-> c.out \o d.out]
  <2>1. Block(0, Append(u, a) \o v) =
           [open |-> Block(Block(0, Append(u, a)).open, v).open,
            out |-> Block(0, Append(u, a)).out \o Block(Block(0, Append(u, a)).open, v).out]
    <3> HIDE DEF v
    <3> QED
      BY <1>3, <1>7, BlockConcat
  <2> QED
    BY <1>4, <1>7, <2>1
<1> HIDE DEF u, v, b
<1>9. /\ c = [open |-> NextOpen(0, a), out |-> b.out \o Emitted(0, a)] /\ c \in BlockState
  BY <1>1, <1>5, <1>6, BlockAtomIs
<1> HIDE DEF c
<1>10. c.open = NextOpen(0, a) /\ c.out = b.out \o Emitted(0, a)
  BY <1>9
<1>11. /\ b.out \in Seq(Atoms) /\ c.out \in Seq(Atoms) /\ c.open \in Nat
       /\ Emitted(0, a) \in Seq(Atoms)
  BY <1>1, <1>5, <1>9, EmittedType DEF BlockState
<1>12. d \in BlockState
  BY <1>3, <1>11, BlockType
<1> HIDE DEF d
<1>13. d.out \in Seq(Atoms) /\ Block(0, s).out = c.out \o d.out
  BY <1>8, <1>12 DEF BlockState
<1> DEFINE e == a[2]
<1>14. ASSUME NEW k, Shows(Emitted(0, a), k, e) PROVE Shows(Block(0, s).out, k, e)
  <2>1. Shows(c.out, k, e)
    BY <1>10, <1>11, <1>14, ShownFirst
  <2> QED
    BY <1>11, <1>13, <2>1, ShownFirst
<1>15. CASE ~(Blocked(a) /\ Opens(a))
  <2>1. \A k : Shows(<<<<k, e>>>>, k, e)
    BY DEF Shows
  <2>2. a = <<"tag", e>>
    BY <1>1, AtomsAre
  <2>3. \E k \in {"tag", "blocked", "frame"} : Emitted(0, a) = <<<<k, e>>>>
    BY <1>15, <2>2 DEF Emitted, Opens
  <2> QED
    BY <1>14, <2>1, <2>3
<1>16. CASE Blocked(a) /\ Opens(a)
  <2>1. e # 0
    BY ElementsAre
  <2>2. c.open = e
    BY <1>10, <1>16 DEF NextOpen
  <2>3. PICK j \in i..Len(s) : s[j][1] = "end"
    BY <1>16
  <2>4. j # i
    BY <2>3
  <2>5. j - i \in 1..Len(v) /\ v[j - i] = s[j]
    <3>1. j - i \in 1..Len(s) - i /\ i + (j - i) = j
      BY <1>1, <2>4
    <3> QED
      BY <1>3, <3>1
  <2>6. Shows(d.out, "frame", e)
    <3>1. v[j - i][1] = "end"
      BY <2>3, <2>5
    <3>2. e \in Nat
      BY <1>1, AtomsAre
    <3> HIDE DEF e
    <3>3. \/ Shows(Block(e, v).out, "frame", e)
          \/ Block(e, v).open = e /\ \A k \in 1..Len(v) : v[k][1] # "end"
      BY <1>3, <2>1, <3>2, EndShows
    <3>4. ~ \A k \in 1..Len(v) : v[k][1] # "end"
      BY <2>5, <3>1
    <3>5. d = Block(e, v)
      BY <2>2 DEF d
    <3> QED
      BY <3>3, <3>4, <3>5
  <2>7. Shows(Block(0, s).out, "frame", e)
    BY <1>11, <1>13, <2>6, ShownFirst
  <2> QED
    BY <2>7
<1> QED
  BY <1>15, <1>16

-----------------------------------------------------------------------------
\* A sequence and its parts.
LEMMA Parted ==
    ASSUME NEW A, NEW s \in Seq(A), NEW k \in 0..Len(s)
    PROVE  /\ SubSeq(s, 1, k) \in Seq(A) /\ Len(SubSeq(s, 1, k)) = k
           /\ SubSeq(s, k + 1, Len(s)) \in Seq(A) /\ Len(SubSeq(s, k + 1, Len(s))) = Len(s) - k
           /\ s = SubSeq(s, 1, k) \o SubSeq(s, k + 1, Len(s))
<1>1. Len(s) \in Nat /\ (\A i \in 1..Len(s) : s[i] \in A)
  BY LenProperties, ElementOfSeq
<1>2. /\ SubSeq(s, 1, k) \in Seq(A)
      /\ Len(SubSeq(s, 1, k)) = IF 1 <= k THEN k - 1 + 1 ELSE 0
  <2>1. 1 \in Int /\ k \in Int /\ \A i \in 1..k : s[i] \in A
    BY <1>1
  <2> QED
    BY <2>1, SubSeqProperties
<1>3. /\ SubSeq(s, k + 1, Len(s)) \in Seq(A)
      /\ Len(SubSeq(s, k + 1, Len(s))) = IF k + 1 <= Len(s) THEN Len(s) - (k + 1) + 1 ELSE 0
  <2>1. k + 1 \in Int /\ Len(s) \in Int /\ \A i \in k + 1..Len(s) : s[i] \in A
    BY <1>1
  <2> QED
    BY <2>1, SubSeqProperties
<1>4. SubSeq(s, 1, k) \o SubSeq(s, k + 1, Len(s)) = s
  <2>1. 1 \in 1..Len(s) + 1 /\ k \in 1 - 1..Len(s) /\ Len(s) \in k..Len(s)
    BY <1>1
  <2>2. SubSeq(s, 1, k) \o SubSeq(s, k + 1, Len(s)) = SubSeq(s, 1, Len(s))
    BY <2>1, ConcatAdjacentSubSeq
  <2> QED
    BY <2>2, SubSeqFull
<1> DEFINE u == SubSeq(s, 1, k)
           v == SubSeq(s, k + 1, Len(s))
<1> HIDE DEF u, v
<1>5. Len(u) = k
  <2>1. Len(u) = IF 1 <= k THEN k - 1 + 1 ELSE 0
    BY <1>2 DEF u
  <2> QED
    BY <1>1, <2>1
<1>6. Len(v) = Len(s) - k
  <2>1. Len(v) = IF k + 1 <= Len(s) THEN Len(s) - (k + 1) + 1 ELSE 0
    BY <1>3 DEF v
  <2>2. CASE k = Len(s)
    <3>1. ~(k + 1 <= Len(s)) /\ Len(s) - k = 0
      BY <1>1, <2>2
    <3> QED
      BY <2>1, <3>1
  <2>3. CASE k # Len(s)
    <3>1. k + 1 <= Len(s) /\ Len(s) - (k + 1) + 1 = Len(s) - k
      BY <1>1, <2>3
    <3> QED
      BY <2>1, <3>1
  <2> QED
    BY <2>2, <2>3
<1>7. u \in Seq(A) /\ v \in Seq(A) /\ u \o v = s
  BY <1>2, <1>3, <1>4 DEF u, v
<1> QED
  BY <1>5, <1>6, <1>7 DEF u, v

LEMMA Unjoined ==
    ASSUME NEW A, NEW u \in Seq(A), NEW v \in Seq(A)
    PROVE  /\ SubSeq(u \o v, 1, Len(u)) = u
           /\ SubSeq(u \o v, Len(u) + 1, Len(u \o v)) = v
           /\ Len(u) \in 0..Len(u \o v)
<1>1. /\ Len(u) \in Nat /\ Len(v) \in Nat /\ u \o v \in Seq(A) /\ Len(u \o v) = Len(u) + Len(v)
      /\ \A i \in 1..Len(u) + Len(v) : (u \o v)[i] = IF i <= Len(u) THEN u[i] ELSE v[i - Len(u)]
  BY LenProperties, ConcatProperties
<1> DEFINE s == u \o v
<1> HIDE DEF s
<1>2. Len(u) \in 0..Len(s)
  BY <1>1 DEF s
<1>3. /\ SubSeq(s, 1, Len(u)) \in Seq(A) /\ Len(SubSeq(s, 1, Len(u))) = Len(u)
      /\ SubSeq(s, Len(u) + 1, Len(s)) \in Seq(A)
      /\ Len(SubSeq(s, Len(u) + 1, Len(s))) = Len(s) - Len(u)
  BY <1>1, <1>2, Parted DEF s
<1>4. \A i \in 1..Len(s) : s[i] \in A
  BY <1>1, ElementOfSeq DEF s
<1>5. ASSUME NEW i \in 1..Len(u) PROVE SubSeq(s, 1, Len(u))[i] = u[i]
  <2>1. 1 \in Int /\ Len(u) \in Int /\ \A j \in 1..Len(u) : s[j] \in A
    BY <1>1, <1>2, <1>4
  <2>2. \A j \in 1..Len(u) - 1 + 1 : SubSeq(s, 1, Len(u))[j] = s[1 + j - 1]
    BY <2>1, SubSeqProperties
  <2>3. i \in 1..Len(u) - 1 + 1 /\ 1 + i - 1 = i /\ i \in 1..Len(u) + Len(v) /\ i <= Len(u)
    BY <1>1
  <2> QED
    BY <1>1, <2>2, <2>3 DEF s
<1>6. ASSUME NEW i \in 1..Len(v) PROVE SubSeq(s, Len(u) + 1, Len(s))[i] = v[i]
  <2>1. Len(u) + 1 \in Int /\ Len(s) \in Int /\ \A j \in Len(u) + 1..Len(s) : s[j] \in A
    BY <1>1, <1>2, <1>4
  <2>2. \A j \in 1..Len(s) - (Len(u) + 1) + 1 : SubSeq(s, Len(u) + 1, Len(s))[j] = s[Len(u) + 1 + j - 1]
    BY <2>1, SubSeqProperties
  <2>3. /\ i \in 1..Len(s) - (Len(u) + 1) + 1 /\ Len(u) + 1 + i - 1 = Len(u) + i
        /\ Len(u) + i \in 1..Len(u) + Len(v) /\ ~(Len(u) + i <= Len(u)) /\ Len(u) + i - Len(u) = i
    BY <1>1 DEF s
  <2> QED
    BY <1>1, <2>2, <2>3 DEF s
<1>7. Len(s) - Len(u) = Len(v)
  BY <1>1 DEF s
<1>8. SubSeq(s, 1, Len(u)) = u
  BY <1>3, <1>5, SeqEqual
<1>9. SubSeq(s, Len(u) + 1, Len(s)) = v
  BY <1>3, <1>6, <1>7, SeqEqual
<1> QED
  BY <1>2, <1>8, <1>9 DEF s

LEMMA Joined4 ==
    ASSUME NEW A, NEW r \in Seq(A), NEW s \in Seq(A), NEW t \in Seq(A), NEW u \in Seq(A)
    PROVE  /\ r \o s \in Seq(A) /\ (r \o s) \o t = r \o (s \o t)
           /\ (r \o s) \o (t \o u) = r \o ((s \o t) \o u)
           /\ (r \o (s \o t)) \o u = (r \o s) \o (t \o u)
<1>1. \A x, y \in Seq(A) : x \o y \in Seq(A)
  BY ConcatProperties
<1>2. \A x, y, z \in Seq(A) : (x \o y) \o z = x \o (y \o z)
  BY ConcatAssociative
<1>3. r \o s \in Seq(A) /\ s \o t \in Seq(A)
  BY <1>1
<1>4. (r \o s) \o t = r \o (s \o t)
  BY <1>2
<1>5. (r \o s) \o (t \o u) = ((r \o s) \o t) \o u
  <2> DEFINE m == r \o s
  <2>1. m \in Seq(A)
    BY <1>3
  <2> HIDE DEF m
  <2>2. (m \o t) \o u = m \o (t \o u)
    BY <1>2, <2>1
  <2> QED
    BY <2>2 DEF m
<1>6. r \o ((s \o t) \o u) = (r \o (s \o t)) \o u
  <2> DEFINE m == s \o t
  <2>1. m \in Seq(A)
    BY <1>3
  <2> HIDE DEF m
  <2>2. (r \o m) \o u = r \o (m \o u)
    BY <1>2, <2>1
  <2> QED
    BY <2>2 DEF m
<1> QED
  BY <1>3, <1>4, <1>5, <1>6

\* A property of all that is in two sequences is one of all that is in their join.
LEMMA JoinedAll ==
    ASSUME NEW A, NEW B, NEW s \in Seq(A), NEW t \in Seq(B)
    PROVE  s \o t \in Seq(A \cup B)
<1>1. s \in Seq(A \cup B) /\ t \in Seq(A \cup B)
  BY SeqMonotonic
<1> QED
  BY <1>1, ConcatProperties

-----------------------------------------------------------------------------
\* The injected scripts, and what a page of the origin consists of.
LEMMA Five ==
    ASSUME NEW a \in Atoms, NEW b \in Atoms, NEW c \in Atoms, NEW d \in Atoms, NEW e \in Atoms
    PROVE  <<a>> \o <<b, c, d>> \o <<e>> = <<a, b, c, d, e>>
<1> DEFINE x == <<a>>
           y == <<b, c, d>>
           z == <<e>>
           w == x \o y
           s == w \o z
           t == <<a, b, c, d, e>>
<1>1. x \in Seq(Atoms) /\ y \in Seq(Atoms) /\ z \in Seq(Atoms) /\ t \in Seq(Atoms)
  OBVIOUS
<1>2. Len(x) = 1 /\ Len(y) = 3 /\ Len(z) = 1 /\ Len(t) = 5
  OBVIOUS
<1>3. x[1] = a /\ y[1] = b /\ y[2] = c /\ y[3] = d /\ z[1] = e
  OBVIOUS
<1>4. t[1] = a /\ t[2] = b /\ t[3] = c /\ t[4] = d /\ t[5] = e
  OBVIOUS
<1> HIDE DEF x, y, z, t
<1>5. w \in Seq(Atoms) /\ Len(w) = 4 /\ w[1] = a /\ w[2] = b /\ w[3] = c /\ w[4] = d
  <2>1. /\ w \in Seq(Atoms) /\ Len(w) = Len(x) + Len(y)
        /\ \A i \in 1..Len(x) + Len(y) : w[i] = IF i <= Len(x) THEN x[i] ELSE y[i - Len(x)]
    BY <1>1, AtomsJoined
  <2> HIDE DEF w
  <2>2. \A i \in 1..4 : w[i] = IF i <= 1 THEN x[i] ELSE y[i - 1]
    BY <1>2, <2>1
  <2> QED
    BY <1>2, <1>3, <2>1, <2>2
<1> HIDE DEF w
<1>6. s \in Seq(Atoms) /\ Len(s) = 5 /\ s[1] = a /\ s[2] = b /\ s[3] = c /\ s[4] = d /\ s[5] = e
  <2>1. /\ s \in Seq(Atoms) /\ Len(s) = Len(w) + Len(z)
        /\ \A i \in 1..Len(w) + Len(z) : s[i] = IF i <= Len(w) THEN w[i] ELSE z[i - Len(w)]
    BY <1>1, <1>5, AtomsJoined
  <2> HIDE DEF s
  <2>2. \A i \in 1..5 : s[i] = IF i <= 4 THEN w[i] ELSE z[i - 4]
    BY <1>2, <1>5, <2>1
  <2> QED
    BY <1>2, <1>3, <1>5, <2>1, <2>2
<1> HIDE DEF s
<1>7. \A i \in 1..5 : s[i] = t[i]
  <2>1. \A i \in 1..5 : i \in {1, 2, 3, 4, 5}
    OBVIOUS
  <2> QED
    BY <1>4, <1>6, <2>1
<1>8. s = t
  BY <1>1, <1>2, <1>6, <1>7, AtomsEqual
<1> QED
  BY <1>8 DEF s, w, x, y, z, t

LEMMA TagIs ==
    ASSUME NEW q \in Requests
    PROVE  /\ Len(Tag(q)) = 5 /\ Tag(q)[1] = <<"manager", q.gpc>> /\ Tag(q)[5] = <<"loaded", 0>>
           /\ Tag(q)[2] = <<"token", 1>> /\ Tag(q)[3] = <<"token", 2>> /\ Tag(q)[4] = <<"token", 3>>
           /\ q.gpc \in Nat /\ Tag(q) \in Seq(Atoms)
           /\ Tag(q) \in Seq({a \in Atoms : a[1] \notin {"tag", "end"}})
<1>1. q.gpc \in Nat
  BY RequestAssumption
<1> DEFINE A == {a \in Atoms : a[1] \notin {"tag", "end"}}
           m == <<"manager", q.gpc>>
           l == <<"loaded", 0>>
           t == <<m, <<"token", 1>>, <<"token", 2>>, <<"token", 3>>, l>>
<1>2. m \in A /\ <<"token", 1>> \in A /\ <<"token", 2>> \in A /\ <<"token", 3>> \in A /\ l \in A
  BY <1>1, AtomIs DEF Kinds
<1>3. \A a \in A : a \in Atoms
  OBVIOUS
<1> HIDE DEF A
<1>4. Tag(q) = t
  <2> HIDE DEF m, l
  <2>1. <<m>> \o <<<<"token", 1>>, <<"token", 2>>, <<"token", 3>>>> \o <<l>> = t
    BY <1>2, <1>3, Five
  <2> QED
    BY <2>1 DEF Tag, Token, m, l
<1>5. t \in Seq(A) /\ t \in Seq(Atoms)
  BY <1>2, <1>3
<1>6. /\ Len(t) = 5 /\ t[1] = m /\ t[5] = l
      /\ t[2] = <<"token", 1>> /\ t[3] = <<"token", 2>> /\ t[4] = <<"token", 3>>
  OBVIOUS
<1> QED
  BY <1>1, <1>4, <1>5, <1>6 DEF A

LEMMA TagBlurred ==
    ASSUME NEW p \in Requests, NEW q \in Requests
    PROVE  Blurred(Tag(p)) = Blurred(Tag(q))
<1> DEFINE s == Tag(p)
           t == Tag(q)
<1>1. s \in Seq(Atoms) /\ t \in Seq(Atoms) /\ Len(s) = 5 /\ Len(t) = 5
  BY TagIs
<1>2. BlurredAtom(s[1]) = BlurredAtom(t[1])
  <2>1. s[1] = <<"manager", p.gpc>> /\ t[1] = <<"manager", q.gpc>>
    BY TagIs
  <2> HIDE DEF s, t
  <2> QED
    BY <2>1 DEF BlurredAtom
<1>3. s[2] = t[2] /\ s[3] = t[3] /\ s[4] = t[4] /\ s[5] = t[5]
  <2>1. s[2] = <<"token", 1>> /\ s[3] = <<"token", 2>> /\ s[4] = <<"token", 3>> /\ s[5] = <<"loaded", 0>>
    BY TagIs
  <2>2. t[2] = <<"token", 1>> /\ t[3] = <<"token", 2>> /\ t[4] = <<"token", 3>> /\ t[5] = <<"loaded", 0>>
    BY TagIs
  <2> HIDE DEF s, t
  <2> QED
    BY <2>1, <2>2
<1> HIDE DEF s, t
<1>4. \A i \in 1..5 : BlurredAtom(s[i]) = BlurredAtom(t[i])
  <2>1. \A i \in 1..5 : i \in {1, 2, 3, 4, 5}
    OBVIOUS
  <2> QED
    BY <1>2, <1>3, <2>1
<1>5. /\ Blurred(s) \in Seq(Atoms) /\ Blurred(t) \in Seq(Atoms) /\ Len(Blurred(s)) = 5 /\ Len(Blurred(t)) = 5
      /\ \A i \in 1..5 : Blurred(s)[i] = BlurredAtom(s[i]) /\ Blurred(t)[i] = BlurredAtom(t[i])
  BY <1>1, BlurredIs
<1>6. Blurred(s) = Blurred(t)
  BY <1>4, <1>5, AtomsEqual
<1> QED
  BY <1>6 DEF s, t

LEMMA OriginIs ==
    /\ OriginAtoms \subseteq Sendable
    /\ \A a \in OriginAtoms : a[1] \notin {"manager", "token", "loaded", "nonce", "blocked", "frame"}
    /\ <<"bad", 0>> \in OriginAtoms
    /\ Seq(OriginAtoms) \subseteq Seq(Atoms)
<1>1. ASSUME NEW a \in OriginAtoms
      PROVE  a \in Sendable /\ a[1] \notin {"manager", "token", "loaded", "nonce", "blocked", "frame"}
  <2>1. CASE a \in {"text", "mark", "head", "body", "char", "pair", "bad", "end"} \X Nat
    BY <2>1 DEF Sendable, Atoms, Kinds
  <2>2. CASE a \in {"tag"} \X DOMAIN Elements
    BY <2>2, ElementsAre DEF Sendable, Atoms, Kinds
  <2> QED
    BY <2>1, <2>2 DEF OriginAtoms
<1>2. <<"bad", 0>> \in OriginAtoms
  BY DEF OriginAtoms
<1>3. Seq(OriginAtoms) \subseteq Seq(Atoms)
  BY <1>1, SeqMonotonic DEF Sendable
<1> QED
  BY <1>1, <1>2, <1>3

\* Decoding and encoding damage characters, and nothing else.
LEMMA CodedIs ==
    ASSUME NEW kinds \in SUBSET {"char", "pair"}, NEW s \in Seq(Atoms)
    PROVE  /\ Coded(s, kinds) \in Seq(Atoms) /\ Len(Coded(s, kinds)) = Len(s)
           /\ \A i \in 1..Len(s) : Coded(s, kinds)[i] # s[i] =>
                 s[i][1] \in kinds /\ Coded(s, kinds)[i] = <<"bad", 0>>
           /\ Blurred(Coded(s, kinds)) = Blurred(s)
<1> DEFINE t == Coded(s, kinds)
           Broken(i) == s[i][1] \in kinds /\ Torn(s, i)
<1>1. Len(s) \in Nat /\ DOMAIN s = 1..Len(s) /\ \A i \in 1..Len(s) : s[i] \in Atoms
  BY LenProperties, ElementOfSeq
<1> HIDE DEF Broken
<1>2. t = [i \in 1..Len(s) |-> IF Broken(i) THEN <<"bad", 0>> ELSE s[i]]
  BY <1>1 DEF Coded, Broken
<1>3. <<"bad", 0>> \in Atoms
  BY AtomIs DEF Kinds
<1> HIDE DEF t
<1>4. t \in Seq(Atoms) /\ Len(t) = Len(s)
  <2>1. t \in [1..Len(s) -> Atoms]
    BY <1>1, <1>2, <1>3
  <2> QED
    BY <1>1, <2>1
<1>5. ASSUME NEW i \in 1..Len(s) PROVE t[i] = IF Broken(i) THEN <<"bad", 0>> ELSE s[i]
  BY <1>2
<1>6. ASSUME NEW i \in 1..Len(s), t[i] # s[i]
      PROVE  s[i][1] \in kinds /\ t[i] = <<"bad", 0>>
  BY <1>5, <1>6 DEF Broken
<1>7. ASSUME NEW i \in 1..Len(s) PROVE BlurredAtom(t[i]) = BlurredAtom(s[i])
  <2>1. CASE t[i] = s[i]
    BY <2>1
  <2>2. CASE t[i] # s[i]
    <3>1. s[i][1] \in {"char", "pair"} /\ t[i] = <<"bad", 0>>
      BY <1>6, <2>2
    <3> QED
      BY <3>1 DEF BlurredAtom
  <2> QED
    BY <2>1, <2>2
<1>8. Blurred(t) = Blurred(s)
  BY <1>4, <1>7, BlurredIs, AtomsEqual
<1> QED
  BY <1>4, <1>6, <1>8 DEF t

LEMMA CodedOrigin ==
    ASSUME NEW kinds \in SUBSET {"char", "pair"}, NEW s \in Seq(OriginAtoms)
    PROVE  Coded(s, kinds) \in Seq(OriginAtoms)
<1> DEFINE t == Coded(s, kinds)
<1>1. s \in Seq(Atoms) /\ Len(s) \in Nat /\ \A i \in 1..Len(s) : s[i] \in OriginAtoms
  BY OriginIs, LenProperties, ElementOfSeq
<1>2. /\ t \in Seq(Atoms) /\ Len(t) = Len(s)
      /\ \A i \in 1..Len(s) : t[i] # s[i] => t[i] = <<"bad", 0>>
  BY <1>1, CodedIs
<1> HIDE DEF t
<1>3. \A i \in 1..Len(s) : t[i] \in OriginAtoms
  BY <1>1, <1>2, OriginIs
<1>4. t \in [1..Len(s) -> OriginAtoms]
  BY <1>1, <1>2, <1>3, LenProperties
<1> QED
  BY <1>1, <1>4 DEF t

-----------------------------------------------------------------------------
\* Every token is complete, and something follows it.
Whole(s) ==
    \A i \in 1..Len(s) : s[i][1] = "token" =>
        \E k \in 1..Len(s) - 3 :
            i \in k..k + 2 /\ s[k] = Token[1] /\ s[k + 1] = Token[2] /\ s[k + 2] = Token[3]
Tokenless(s) == \A i \in 1..Len(s) : s[i][1] # "token"

\* What the injector passes on, at most one time with the scripts in it.
Fed(q) ==
    OriginAtoms \cup ({"manager"} \X {q.gpc}) \cup ({"token"} \X {1, 2, 3}) \cup ({"loaded"} \X {0})
Delivery(s, q) ==
    \/ s \in Seq(OriginAtoms)
    \/ \E u, v \in Seq(OriginAtoms) : s = u \o (Tag(q) \o v)

LEMMA FedIs ==
    ASSUME NEW q \in Requests
    PROVE  /\ Fed(q) \subseteq Sendable /\ Seq(OriginAtoms) \subseteq Seq(Fed(q))
           /\ Tag(q) \in Seq(Fed(q)) /\ Seq(Fed(q)) \subseteq Seq(Atoms)
<1>1. Fed(q) \subseteq Sendable
  <2>1. q.gpc \in Nat
    BY TagIs
  <2>2. /\ {"manager"} \X {q.gpc} \subseteq Sendable /\ {"token"} \X {1, 2, 3} \subseteq Sendable
        /\ {"loaded"} \X {0} \subseteq Sendable
    BY <2>1 DEF Sendable, Atoms, Kinds
  <2> QED
    BY <2>2, OriginIs DEF Fed
<1>2. Seq(OriginAtoms) \subseteq Seq(Fed(q))
  BY SeqMonotonic DEF Fed
<1>3. Tag(q) \in Seq(Fed(q))
  <2> DEFINE t == Tag(q)
  <2>1. /\ Len(t) = 5 /\ t[1] = <<"manager", q.gpc>> /\ t[5] = <<"loaded", 0>>
        /\ t[2] = <<"token", 1>> /\ t[3] = <<"token", 2>> /\ t[4] = <<"token", 3>>
        /\ t \in [1..Len(t) -> Atoms]
    BY TagIs, LenProperties
  <2> HIDE DEF t
  <2>2. \A i \in 1..5 : i \in {1, 2, 3, 4, 5}
    OBVIOUS
  <2>3. \A i \in 1..5 : t[i] \in Fed(q)
    BY <2>1, <2>2 DEF Fed
  <2>4. t \in [1..5 -> Fed(q)]
    BY <2>1, <2>3
  <2> QED
    BY <2>4 DEF t
<1>4. Seq(Fed(q)) \subseteq Seq(Atoms)
  BY <1>1, SeqMonotonic DEF Sendable
<1> QED
  BY <1>1, <1>2, <1>3, <1>4

LEMMA JoinedAt ==
    ASSUME NEW s \in Seq(Atoms), NEW t \in Seq(Atoms)
    PROVE  /\ Len(s) \in Nat /\ Len(t) \in Nat /\ Len(s \o t) = Len(s) + Len(t)
           /\ \A j \in 1..Len(s) : (s \o t)[j] = s[j]
           /\ \A j \in 1..Len(t) : (s \o t)[j + Len(s)] = t[j]
<1> DEFINE r == s \o t
<1>1. /\ Len(s) \in Nat /\ Len(t) \in Nat /\ Len(r) = Len(s) + Len(t)
      /\ \A i \in 1..Len(s) + Len(t) : r[i] = IF i <= Len(s) THEN s[i] ELSE t[i - Len(s)]
  BY AtomsJoined
<1> HIDE DEF r
<1>2. ASSUME NEW j \in 1..Len(s) PROVE r[j] = s[j]
  <2>1. j \in 1..Len(s) + Len(t) /\ j <= Len(s)
    BY <1>1
  <2> QED
    BY <1>1, <2>1
<1>3. ASSUME NEW j \in 1..Len(t) PROVE r[j + Len(s)] = t[j]
  <2>1. j + Len(s) \in 1..Len(s) + Len(t) /\ ~(j + Len(s) <= Len(s)) /\ j + Len(s) - Len(s) = j
    BY <1>1
  <2> QED
    BY <1>1, <2>1
<1> QED
  BY <1>1, <1>2, <1>3 DEF r

LEMMA WholeConcat ==
    ASSUME NEW s \in Seq(Atoms), NEW t \in Seq(Atoms), Whole(s), Whole(t)
    PROVE  Whole(s \o t)
<1> DEFINE r == s \o t
<1>1. /\ Len(s) \in Nat /\ Len(t) \in Nat /\ Len(r) = Len(s) + Len(t)
      /\ \A j \in 1..Len(s) : r[j] = s[j]
      /\ \A j \in 1..Len(t) : r[j + Len(s)] = t[j]
  BY JoinedAt
<1> HIDE DEF r
<1> SUFFICES ASSUME NEW i \in 1..Len(r), r[i][1] = "token"
             PROVE  \E k \in 1..Len(r) - 3 :
                       i \in k..k + 2 /\ r[k] = Token[1] /\ r[k + 1] = Token[2] /\ r[k + 2] = Token[3]
  BY DEF Whole, r
<1>2. CASE i <= Len(s)
  <2>1. i \in 1..Len(s) /\ r[i] = s[i]
    BY <1>1, <1>2
  <2>2. PICK k \in 1..Len(s) - 3 :
               i \in k..k + 2 /\ s[k] = Token[1] /\ s[k + 1] = Token[2] /\ s[k + 2] = Token[3]
    BY <2>1 DEF Whole
  <2>3. /\ k \in 1..Len(r) - 3
        /\ k \in 1..Len(s) /\ k + 1 \in 1..Len(s) /\ k + 2 \in 1..Len(s)
    BY <1>1
  <2>4. r[k] = s[k] /\ r[k + 1] = s[k + 1] /\ r[k + 2] = s[k + 2]
    BY <1>1, <2>3
  <2> QED
    BY <2>2, <2>3, <2>4
<1>3. CASE ~(i <= Len(s))
  <2>1. i - Len(s) \in 1..Len(t) /\ r[i] = t[i - Len(s)]
    <3>1. i - Len(s) \in 1..Len(t) /\ (i - Len(s)) + Len(s) = i
      BY <1>1, <1>3
    <3> QED
      BY <1>1, <3>1
  <2>2. PICK k \in 1..Len(t) - 3 :
               i - Len(s) \in k..k + 2 /\ t[k] = Token[1] /\ t[k + 1] = Token[2] /\ t[k + 2] = Token[3]
    BY <2>1 DEF Whole
  <2> DEFINE m == k + Len(s)
  <2>3. /\ m \in 1..Len(r) - 3 /\ i \in m..m + 2
        /\ k \in 1..Len(t) /\ k + 1 \in 1..Len(t) /\ k + 2 \in 1..Len(t)
        /\ m = k + Len(s) /\ m + 1 = (k + 1) + Len(s) /\ m + 2 = (k + 2) + Len(s)
    BY <1>1, <2>2
  <2> HIDE DEF m
  <2>4. r[m] = t[k] /\ r[m + 1] = t[k + 1] /\ r[m + 2] = t[k + 2]
    BY <1>1, <2>3
  <2> QED
    BY <2>2, <2>3, <2>4
<1> QED
  BY <1>2, <1>3

LEMMA WholePieces ==
    /\ \A s : Tokenless(s) => Whole(s)
    /\ \A q \in Requests : Whole(Tag(q))
    /\ Whole(<<>>)
<1>1. \A s : Tokenless(s) => Whole(s)
  BY DEF Tokenless, Whole
<1>2. ASSUME NEW q \in Requests PROVE Whole(Tag(q))
  <2> DEFINE t == Tag(q)
  <2>1. /\ Len(t) = 5 /\ t[1] = <<"manager", q.gpc>> /\ t[5] = <<"loaded", 0>>
        /\ t[2] = <<"token", 1>> /\ t[3] = <<"token", 2>> /\ t[4] = <<"token", 3>>
    BY TagIs
  <2> HIDE DEF t
  <2>2. Token[1] = <<"token", 1>> /\ Token[2] = <<"token", 2>> /\ Token[3] = <<"token", 3>>
    BY DEF Token
  <2>3. ASSUME NEW i \in 1..5, t[i][1] = "token" PROVE i \in 2..4
    <3>1. i # 1 /\ i # 5
      BY <2>1, <2>3
    <3> QED
      BY <3>1
  <2>4. 2 \in 1..Len(t) - 3 /\ 2..4 = 2..2 + 2 /\ 1..Len(t) = 1..5
    BY <2>1
  <2>5. t[2] = Token[1] /\ t[2 + 1] = Token[2] /\ t[2 + 2] = Token[3]
    BY <2>1, <2>2
  <2>6. Whole(t)
    BY <2>3, <2>4, <2>5 DEF Whole
  <2> QED
    BY <2>6 DEF t
<1>3. Whole(<<>>)
  BY DEF Whole
<1> QED
  BY <1>1, <1>2, <1>3

LEMMA PassedIs ==
    ASSUME NEW K, K \subseteq Sendable
    PROVE  /\ Passed(K) \subseteq Atoms /\ Seq(Passed(K)) \subseteq Seq(Atoms)
           /\ \A a \in Passed(K) : \/ a \in K /\ ~Blocked(a)
                                   \/ a[1] \in {"blocked", "frame"} /\ a[2] \in Stopped
<1>1. Stopped \subseteq Nat
  BY ElementsAre DEF Stopped
<1>2. {"blocked", "frame"} \X Stopped \subseteq Atoms
  BY <1>1 DEF Atoms, Kinds
<1>3. Passed(K) \subseteq Atoms
  BY <1>2 DEF Passed, Sendable
<1>4. Seq(Passed(K)) \subseteq Seq(Atoms)
  BY <1>3, SeqMonotonic
<1> QED
  BY <1>3, <1>4 DEF Passed

\* What the blocker makes of a piece without scripts has no token in it.
LEMMA PageBlocked ==
    ASSUME NEW open \in Openable, NEW s \in Seq(OriginAtoms)
    PROVE  /\ Block(open, s).open \in Openable /\ Block(open, s).out \in Seq(Atoms)
           /\ Whole(Block(open, s).out)
<1> DEFINE t == Block(open, s).out
<1>1. Block(open, s).open \in Openable /\ t \in Seq(Passed(OriginAtoms))
  BY OriginIs, BlockPasses
<1> HIDE DEF t
<1>2. t \in Seq(Atoms) /\ \A i \in 1..Len(t) : t[i] \in Passed(OriginAtoms)
  BY <1>1, OriginIs, PassedIs, ElementOfSeq
<1>3. \A i \in 1..Len(t) : t[i][1] # "token"
  <2> SUFFICES ASSUME NEW i \in 1..Len(t) PROVE t[i][1] # "token"
    OBVIOUS
  <2>1. \/ t[i] \in OriginAtoms
        \/ t[i][1] \in {"blocked", "frame"}
    BY <1>2, OriginIs, PassedIs
  <2> QED
    BY <2>1, OriginIs
<1>4. Whole(t)
  BY <1>3, WholePieces DEF Tokenless
<1> QED
  BY <1>1, <1>2, <1>4 DEF t

LEMMA BlockJoined ==
    ASSUME NEW open \in Nat, NEW s \in Seq(Atoms), NEW t \in Seq(Atoms)
    PROVE  /\ Block(open, s \o t).open = Block(Block(open, s).open, t).open
           /\ Block(open, s \o t).out = Block(open, s).out \o Block(Block(open, s).open, t).out
<1> DEFINE r == Block(open, s \o t)
           o == Block(Block(open, s).open, t).open
           w == Block(open, s).out \o Block(Block(open, s).open, t).out
<1>1. r = [open |-> o, out |-> w]
  BY BlockConcat
<1> HIDE DEF r, o, w
<1>2. r.open = o /\ r.out = w
  BY <1>1
<1> QED
  BY <1>2 DEF r, o, w

LEMMA OpenableIs == Openable \subseteq Nat
BY ElementsAre DEF Openable, Stopped

LEMMA DeliveryPasses ==
    ASSUME NEW q \in Requests, NEW s, Delivery(s, q), NEW open \in Openable
    PROVE  /\ s \in Seq(Fed(q)) /\ s \in Seq(Atoms)
           /\ Block(open, s).open \in Openable /\ Block(open, s).out \in Seq(Passed(Fed(q)))
           /\ Block(open, s).out \in Seq(Atoms) /\ Whole(Block(open, s).out)
<1>1. s \in Seq(Fed(q))
  <2>1. CASE s \in Seq(OriginAtoms)
    BY <2>1, FedIs
  <2>2. ASSUME NEW u \in Seq(OriginAtoms), NEW v \in Seq(OriginAtoms), s = u \o (Tag(q) \o v)
        PROVE  s \in Seq(Fed(q))
    <3>1. u \in Seq(Fed(q)) /\ v \in Seq(Fed(q)) /\ Tag(q) \in Seq(Fed(q))
      BY FedIs
    <3>2. \A x, y \in Seq(Fed(q)) : x \o y \in Seq(Fed(q))
      BY ConcatProperties
    <3>3. Tag(q) \o v \in Seq(Fed(q))
      BY <3>1, <3>2
    <3> QED
      BY <2>2, <3>1, <3>2, <3>3
  <2> QED
    BY <2>1, <2>2 DEF Delivery
<1>2. /\ s \in Seq(Atoms) /\ Block(open, s).open \in Openable
      /\ Block(open, s).out \in Seq(Passed(Fed(q)))
  BY <1>1, FedIs, BlockPasses
<1>3. Block(open, s).out \in Seq(Atoms)
  BY <1>2, FedIs, PassedIs
<1>4. Whole(Block(open, s).out)
  <2>1. CASE s \in Seq(OriginAtoms)
    BY <2>1, PageBlocked
  <2>2. ASSUME NEW u \in Seq(OriginAtoms), NEW v \in Seq(OriginAtoms), s = u \o (Tag(q) \o v)
        PROVE  Whole(Block(open, s).out)
    <3> DEFINE t == Tag(q)
               a == Block(open, u)
               b == Block(a.open, t)
               c == Block(a.open, v)
    <3>1. u \in Seq(Atoms) /\ v \in Seq(Atoms) /\ t \in Seq(Atoms)
      BY OriginIs, TagIs
    <3>2. t \o v \in Seq(Atoms)
      BY <3>1, AtomsJoined
    <3>3. open \in Nat /\ a.open \in Openable /\ a.open \in Nat /\ a.out \in Seq(Atoms) /\ Whole(a.out)
      BY PageBlocked, OpenableIs
    <3>4. b = [open |-> a.open, out |-> IF a.open = 0 THEN t ELSE <<>>]
      <4>1. t \in Seq({x \in Atoms : x[1] \notin {"tag", "end"}})
        BY TagIs
      <4> HIDE DEF t, a
      <4> QED
        BY <3>3, <4>1, BlockPlain
    <3>5. c.out \in Seq(Atoms) /\ Whole(c.out)
      <4> HIDE DEF a
      <4> QED
        BY <3>3, PageBlocked
    <3>6. Block(open, s).out = a.out \o Block(a.open, t \o v).out
      <4> DEFINE w == t \o v
      <4> HIDE DEF w
      <4>1. w \in Seq(Atoms) /\ s = u \o w
        BY <2>2, <3>2 DEF w
      <4>2. Block(open, u \o w).out = Block(open, u).out \o Block(Block(open, u).open, w).out
        BY <3>1, <3>3, <4>1, BlockJoined
      <4> QED
        BY <4>1, <4>2 DEF w
    <3>7. Block(a.open, t \o v).out = b.out \o Block(b.open, v).out
      <4> HIDE DEF t, a
      <4>1. Block(a.open, t \o v).out = Block(a.open, t).out \o Block(Block(a.open, t).open, v).out
        BY <3>1, <3>3, BlockJoined
      <4> QED
        BY <4>1
    <3> HIDE DEF a, b, c
    <3>8. b.open = a.open /\ b.out \in Seq(Atoms) /\ Whole(b.out)
      <4> HIDE DEF t
      <4>1. b.open = a.open /\ (b.out = t \/ b.out = <<>>)
        BY <3>4
      <4>3. <<>> \in Seq(Atoms)
        OBVIOUS
      <4>2. Whole(t)
        BY WholePieces DEF t
      <4> QED
        BY <3>1, <4>1, <4>2, <4>3, WholePieces
    <3>9. Block(a.open, t \o v).out = b.out \o c.out
      BY <3>7, <3>8 DEF c
    <3>10. b.out \o c.out \in Seq(Atoms) /\ Whole(b.out \o c.out)
      BY <3>5, <3>8, AtomsJoined, WholeConcat
    <3>11. Whole(a.out \o (b.out \o c.out))
      BY <3>3, <3>10, WholeConcat
    <3> QED
      BY <3>6, <3>9, <3>11
  <2> QED
    BY <2>1, <2>2 DEF Delivery
<1> QED
  BY <1>1, <1>2, <1>3, <1>4

-----------------------------------------------------------------------------
\* A text with a nonce for each of its tokens.
Nonced(s, n) == [i \in DOMAIN s |-> IF s[i][1] = "token" THEN <<"nonce", n>> ELSE s[i]]

LEMMA NoncedIs ==
    ASSUME NEW s \in Seq(Atoms), NEW n \in Nat
    PROVE  /\ Nonced(s, n) \in Seq(Atoms) /\ Len(Nonced(s, n)) = Len(s)
           /\ \A i \in 1..Len(s) : Nonced(s, n)[i] = IF s[i][1] = "token" THEN <<"nonce", n>> ELSE s[i]
<1>1. Len(s) \in Nat /\ DOMAIN s = 1..Len(s) /\ \A i \in 1..Len(s) : s[i] \in Atoms
  BY LenProperties, ElementOfSeq
<1>2. <<"nonce", n>> \in Atoms
  BY AtomIs DEF Kinds
<1>3. Nonced(s, n) = [i \in 1..Len(s) |-> IF s[i][1] = "token" THEN <<"nonce", n>> ELSE s[i]]
  BY <1>1 DEF Nonced
<1> DEFINE c == Nonced(s, n)
<1> HIDE DEF c
<1>4. c \in [1..Len(s) -> Atoms]
  BY <1>1, <1>2, <1>3 DEF c
<1>5. c \in Seq(Atoms) /\ Len(c) = Len(s)
  BY <1>1, <1>4
<1>6. \A i \in 1..Len(s) : c[i] = IF s[i][1] = "token" THEN <<"nonce", n>> ELSE s[i]
  BY <1>3 DEF c
<1> QED
  BY <1>5, <1>6 DEF c

LEMMA NoncedConcat ==
    ASSUME NEW s \in Seq(Atoms), NEW t \in Seq(Atoms), NEW n \in Nat
    PROVE  Nonced(s \o t, n) = Nonced(s, n) \o Nonced(t, n)
<1> DEFINE r == s \o t
           a == Nonced(s, n)
           b == Nonced(t, n)
           c == Nonced(r, n)
           d == a \o b
           Of(x) == IF x[1] = "token" THEN <<"nonce", n>> ELSE x
<1> HIDE DEF Of
<1>1. /\ Len(s) \in Nat /\ Len(t) \in Nat /\ r \in Seq(Atoms) /\ Len(r) = Len(s) + Len(t)
      /\ \A j \in 1..Len(s) : r[j] = s[j]
      /\ \A j \in 1..Len(t) : r[j + Len(s)] = t[j]
  BY AtomsJoined, JoinedAt
<1>2. a \in Seq(Atoms) /\ Len(a) = Len(s) /\ \A i \in 1..Len(s) : a[i] = Of(s[i])
  BY NoncedIs DEF Of
<1>3. b \in Seq(Atoms) /\ Len(b) = Len(t) /\ \A i \in 1..Len(t) : b[i] = Of(t[i])
  BY NoncedIs DEF Of
<1> HIDE DEF r
<1>4. c \in Seq(Atoms) /\ Len(c) = Len(r) /\ \A i \in 1..Len(r) : c[i] = Of(r[i])
  BY <1>1, NoncedIs DEF Of
<1> HIDE DEF a, b, c
<1>5. /\ d \in Seq(Atoms) /\ Len(d) = Len(a) + Len(b)
      /\ \A j \in 1..Len(a) : d[j] = a[j]
      /\ \A j \in 1..Len(b) : d[j + Len(a)] = b[j]
  BY <1>2, <1>3, AtomsJoined, JoinedAt
<1> HIDE DEF d
<1>6. ASSUME NEW i \in 1..Len(c) PROVE c[i] = d[i]
  <2>0. i \in 1..Len(r) /\ i \in 1..Len(s) + Len(t)
    BY <1>1, <1>4
  <2>1. CASE i <= Len(s)
    <3>1. i \in 1..Len(s) /\ i \in 1..Len(a)
      BY <1>1, <1>2, <2>0, <2>1
    <3> QED
      BY <1>1, <1>2, <1>4, <1>5, <2>0, <3>1
  <2>2. CASE ~(i <= Len(s))
    <3> DEFINE j == i - Len(s)
    <3>1. j \in 1..Len(t) /\ j \in 1..Len(b) /\ i = j + Len(s) /\ i = j + Len(a)
      BY <1>1, <1>2, <1>3, <2>0, <2>2
    <3> HIDE DEF j
    <3>2. c[i] = Of(t[j])
      BY <1>1, <1>4, <2>0, <3>1
    <3>3. d[i] = b[j]
      BY <1>5, <3>1
    <3> QED
      BY <1>3, <3>1, <3>2, <3>3
  <2> QED
    BY <2>1, <2>2
<1>7. Len(c) = Len(d)
  BY <1>1, <1>2, <1>3, <1>4, <1>5
<1>8. c = d
  BY <1>4, <1>5, <1>6, <1>7, AtomsEqual
<1> QED
  BY <1>8 DEF a, b, c, d, r

\* The replacer puts a nonce for every token, whatever it holds back.
LEMMA ReplaceIs ==
    ASSUME NEW tail \in Seq(Atoms), NEW chunk \in Seq(Atoms), NEW n \in Nat,
           Tokenless(tail), Whole(chunk), Len(tail) <= 2
    PROVE  /\ Replace(tail, chunk, n).out \in Seq(Atoms)
           /\ Replace(tail, chunk, n).tail \in Seq(Atoms)
           /\ Replace(tail, chunk, n).out \o Replace(tail, chunk, n).tail = Nonced(tail \o chunk, n)
           /\ Tokenless(Replace(tail, chunk, n).tail) /\ Len(Replace(tail, chunk, n).tail) <= 2
<1> DEFINE all == tail \o chunk
           P == Places(all, Token)
           found == UNION {i..i + 2 : i \in P}
           past == IF found = {} THEN 0 ELSE Max(found)
           keep == IF Len(all) - past > 2 THEN Len(all) - 2 ELSE past
           out == [i \in 1..keep |-> IF i \in found THEN <<"nonce", n>> ELSE all[i]]
           left == IF past = Len(all) THEN tail ELSE SubSeq(all, keep + 1, Len(all))
           r == Replace(tail, chunk, n)
           nonced == Nonced(all, n)
<1>1. r = [out |-> out, tail |-> left]
  BY DEF Replace
<1>2. /\ Len(tail) \in Nat /\ Len(chunk) \in Nat /\ all \in Seq(Atoms)
      /\ Len(all) = Len(tail) + Len(chunk)
      /\ \A j \in 1..Len(tail) : all[j] = tail[j]
      /\ \A j \in 1..Len(chunk) : all[j + Len(tail)] = chunk[j]
  BY AtomsJoined, JoinedAt
<1>3. all = <<>> => tail = <<>>
  BY ConcatEqualIffEmpty
<1> HIDE DEF all
<1>4. Len(all) \in Nat /\ \A i \in 1..Len(all) : all[i] \in Atoms
  BY <1>2, ElementOfSeq
<1>5. Token[1] = <<"token", 1>> /\ Token[2] = <<"token", 2>> /\ Token[3] = <<"token", 3>> /\ Len(Token) = 3
  BY DEF Token
<1>6. ASSUME NEW k \in 1..Len(all) - 2
      PROVE  SubSeq(all, k, k + 2) = Token <=>
                all[k] = Token[1] /\ all[k + 1] = Token[2] /\ all[k + 2] = Token[3]
  <2> DEFINE z == SubSeq(all, k, k + 2)
  <2>1. k \in Int /\ k + 2 \in Int /\ k + 2 - k + 1 = 3 /\ k <= k + 2 /\ \A i \in k..k + 2 : all[i] \in Atoms
    BY <1>4
  <2>2. /\ z \in Seq(Atoms) /\ Len(z) = IF k <= k + 2 THEN k + 2 - k + 1 ELSE 0
        /\ \A i \in 1..k + 2 - k + 1 : z[i] = all[k + i - 1]
    BY <2>1, SubSeqProperties
  <2> HIDE DEF z
  <2>3. Len(z) = 3
    BY <2>1, <2>2
  <2>4. 1 \in 1..3 /\ 2 \in 1..3 /\ 3 \in 1..3 /\ k + 1 - 1 = k /\ k + 2 - 1 = k + 1 /\ k + 3 - 1 = k + 2
    BY <2>1
  <2>5. z[1] = all[k] /\ z[2] = all[k + 1] /\ z[3] = all[k + 2]
    <3>1. \A i \in 1..3 : z[i] = all[k + i - 1]
      BY <2>1, <2>2
    <3>2. z[1] = all[k + 1 - 1] /\ z[2] = all[k + 2 - 1] /\ z[3] = all[k + 3 - 1]
      BY <2>4, <3>1
    <3> QED
      BY <2>4, <3>2
  <2>6. Token \in Seq(Atoms)
    <3>1. <<"token", 1>> \in Atoms /\ <<"token", 2>> \in Atoms /\ <<"token", 3>> \in Atoms
      BY AtomIs DEF Kinds
    <3> QED
      BY <3>1 DEF Token
  <2>7. z = Token <=> z[1] = Token[1] /\ z[2] = Token[2] /\ z[3] = Token[3]
    <3>1. ASSUME z[1] = Token[1] /\ z[2] = Token[2] /\ z[3] = Token[3] PROVE z = Token
      <4>1. \A i \in 1..Len(z) : i = 1 \/ i = 2 \/ i = 3
        BY <2>3
      <4>2. \A i \in 1..Len(z) : z[i] = Token[i]
        BY <3>1, <4>1
      <4> QED
        BY <1>5, <2>2, <2>3, <2>6, <4>2, AtomsEqual
    <3> QED
      BY <3>1
  <2> QED
    BY <2>5, <2>7 DEF z
<1>7. P = {k \in 1..Len(all) - 2 : all[k] = Token[1] /\ all[k + 1] = Token[2] /\ all[k + 2] = Token[3]}
  <2>1. P = {k \in 1..Len(all) - 2 : SubSeq(all, k, k + 2) = Token}
    <3>1. Len(all) - Len(Token) + 1 = Len(all) - 2 /\ \A k \in Int : k + Len(Token) - 1 = k + 2
      BY <1>4, <1>5
    <3>2. P = {k \in 1..Len(all) - Len(Token) + 1 : SubSeq(all, k, k + Len(Token) - 1) = Token}
      BY DEF Places
    <3>3. \A k \in 1..Len(all) - 2 : k + Len(Token) - 1 = k + 2
      BY <3>1
    <3>4. P = {k \in 1..Len(all) - 2 : SubSeq(all, k, k + Len(Token) - 1) = Token}
      BY <3>1, <3>2
    <3> QED
      BY <3>3, <3>4
  <2> QED
    BY <1>6, <2>1
<1> HIDE DEF P
<1>8. found = {i \in 1..Len(all) : all[i][1] = "token"} /\ \A i \in found : i # Len(all)
  <2>1. ASSUME NEW i \in found PROVE i \in 1..Len(all) /\ all[i][1] = "token"
    <3>1. PICK k \in P : i \in k..k + 2
      OBVIOUS
    <3>2. k \in 1..Len(all) - 2 /\ all[k] = Token[1] /\ all[k + 1] = Token[2] /\ all[k + 2] = Token[3]
      BY <1>7, <3>1
    <3>3. i \in 1..Len(all) /\ (i = k \/ i = k + 1 \/ i = k + 2)
      BY <1>4, <3>1, <3>2
    <3> QED
      BY <1>5, <3>2, <3>3
  <2>2. ASSUME NEW i \in 1..Len(all), all[i][1] = "token" PROVE i \in found /\ i # Len(all)
    <3>1. ~(i <= Len(tail))
      <4> SUFFICES ASSUME i <= Len(tail) PROVE FALSE
        OBVIOUS
      <4>1. i \in 1..Len(tail)
        BY <1>2
      <4> QED
        BY <1>2, <2>2, <4>1 DEF Tokenless
    <3> DEFINE j == i - Len(tail)
    <3>2. j \in 1..Len(chunk) /\ i = j + Len(tail)
      BY <1>2, <3>1
    <3> HIDE DEF j
    <3>3. PICK k \in 1..Len(chunk) - 3 :
                  j \in k..k + 2 /\ chunk[k] = Token[1] /\ chunk[k + 1] = Token[2] /\ chunk[k + 2] = Token[3]
      BY <1>2, <2>2, <3>2 DEF Whole
    <3> DEFINE m == k + Len(tail)
    <3>4. /\ m \in 1..Len(all) - 2 /\ i \in m..m + 2 /\ i # Len(all)
          /\ k \in 1..Len(chunk) /\ k + 1 \in 1..Len(chunk) /\ k + 2 \in 1..Len(chunk)
          /\ m = k + Len(tail) /\ m + 1 = (k + 1) + Len(tail) /\ m + 2 = (k + 2) + Len(tail)
      BY <1>2, <3>2, <3>3
    <3> HIDE DEF m
    <3>5. all[m] = chunk[k] /\ all[m + 1] = chunk[k + 1] /\ all[m + 2] = chunk[k + 2]
      BY <1>2, <3>4
    <3>6. m \in P
      BY <1>7, <3>3, <3>4, <3>5
    <3> QED
      BY <3>4, <3>6
  <2> QED
    BY <2>1, <2>2
<1> HIDE DEF found
<1>9. past \in 0..Len(all) /\ (\A i \in found : i <= past) /\ (found # {} => past \in found)
  <2>1. CASE found = {}
    BY <1>4, <2>1
  <2>2. CASE found # {}
    <3>1. found \in SUBSET (1..Len(all))
      BY <1>8
    <3>2. Max(found) \in found
      BY <1>4, <2>2, <3>1, LastPlace
    <3>4. \A y \in found : y <= Max(found)
      BY <1>4, <2>2, <3>1, LastPlace
    <3>5. past = Max(found)
      BY <2>2
    <3> HIDE DEF past
    <3>6. past \in found /\ past \in 1..Len(all)
      BY <3>1, <3>2, <3>5
    <3> QED
      BY <1>4, <3>1, <3>2, <3>4, <3>5, <3>6
  <2> QED
    BY <2>1, <2>2
<1> HIDE DEF past
<1>10. keep \in past..Len(all) /\ Len(all) - keep <= 2 /\ keep \in Nat
  <2>1. CASE Len(all) - past > 2
    <3>1. keep = Len(all) - 2
      BY <2>1
    <3> QED
      BY <1>4, <1>9, <2>1, <3>1
  <2>2. CASE ~(Len(all) - past > 2)
    <3>1. keep = past
      BY <2>2
    <3> QED
      BY <1>4, <1>9, <2>2, <3>1
  <2> QED
    BY <2>1, <2>2
<1> HIDE DEF keep
<1> DEFINE rest == SubSeq(all, keep + 1, Len(all))
<1>11. /\ rest \in Seq(Atoms) /\ Len(rest) = Len(all) - keep
       /\ \A i \in 1..Len(all) - keep : rest[i] = all[keep + i]
  <2>1. keep \in 0..Len(all)
    BY <1>4, <1>9, <1>10
  <2>2. rest \in Seq(Atoms) /\ Len(rest) = Len(all) - keep
    BY <1>2, <2>1, Parted
  <2>3. keep + 1 \in Int /\ Len(all) \in Int /\ \A i \in keep + 1..Len(all) : all[i] \in Atoms
    BY <1>4, <1>10
  <2>4. \A i \in 1..Len(all) - (keep + 1) + 1 : rest[i] = all[keep + 1 + i - 1]
    BY <2>3, SubSeqProperties
  <2> HIDE DEF rest
  <2>5. ASSUME NEW i \in 1..Len(all) - keep PROVE rest[i] = all[keep + i]
    <3>1. i \in 1..Len(all) - (keep + 1) + 1 /\ keep + 1 + i - 1 = keep + i
      BY <1>4, <1>10
    <3> QED
      BY <2>4, <3>1
  <2> QED
    BY <2>2, <2>5
<1>12. left = rest
  <2>1. CASE past = Len(all)
    <3>1. keep = Len(all) /\ Len(rest) = 0
      BY <1>4, <1>9, <1>10, <1>11, <2>1
    <3>2. rest = <<>>
      BY <1>11, <3>1, EmptySeq
    <3>3. tail = <<>>
      <4>1. CASE found = {}
        <5>1. Len(all) = 0
          BY <2>1, <4>1 DEF past
        <5>2. all = <<>>
          BY <1>2, <5>1, EmptySeq
        <5> QED
          BY <1>3, <5>2
      <4>2. CASE found # {}
        <5>1. Len(all) \in found
          BY <1>9, <2>1, <4>2
        <5> QED
          BY <1>8, <5>1
      <4> QED
        BY <4>1, <4>2
    <3> QED
      BY <2>1, <3>2, <3>3
  <2>2. CASE past # Len(all)
    BY <2>2
  <2> QED
    BY <2>1, <2>2
<1> HIDE DEF left
<1>13. /\ out \in Seq(Atoms) /\ Len(out) = keep
       /\ \A i \in 1..keep : out[i] = IF i \in found THEN <<"nonce", n>> ELSE all[i]
  <2>1. <<"nonce", n>> \in Atoms
    BY AtomIs DEF Kinds
  <2>2. \A i \in 1..keep : i \in 1..Len(all)
    BY <1>4, <1>10
  <2>3. out \in [1..keep -> Atoms]
    BY <1>4, <2>1, <2>2
  <2>4. \A i \in 1..keep : out[i] = IF i \in found THEN <<"nonce", n>> ELSE all[i]
    OBVIOUS
  <2> HIDE DEF out
  <2>5. out \in Seq(Atoms) /\ Len(out) = keep
    BY <1>10, <2>3
  <2> QED
    BY <2>4, <2>5
<1> HIDE DEF out
<1>14. /\ nonced \in Seq(Atoms) /\ Len(nonced) = Len(all)
       /\ \A i \in 1..Len(all) : nonced[i] = IF all[i][1] = "token" THEN <<"nonce", n>> ELSE all[i]
  BY <1>2, NoncedIs
<1> HIDE DEF nonced, rest
<1>15. \A i \in 1..Len(rest) : rest[i][1] # "token"
  <2> SUFFICES ASSUME NEW i \in 1..Len(rest), rest[i][1] = "token" PROVE FALSE
    OBVIOUS
  <2>1. i \in 1..Len(all) - keep /\ keep + i \in 1..Len(all) /\ ~(keep + i <= past)
    BY <1>4, <1>9, <1>10, <1>11
  <2>2. keep + i \in found
    BY <1>8, <1>11, <2>1
  <2> QED
    BY <1>9, <2>1, <2>2
<1> DEFINE joined == out \o rest
<1>16. /\ joined \in Seq(Atoms) /\ Len(joined) = Len(out) + Len(rest)
       /\ \A j \in 1..Len(out) : joined[j] = out[j]
       /\ \A j \in 1..Len(rest) : joined[j + Len(out)] = rest[j]
  BY <1>11, <1>13, AtomsJoined, JoinedAt
<1> HIDE DEF joined
<1>17. ASSUME NEW i \in 1..Len(all) PROVE joined[i] = nonced[i]
  <2>1. CASE i <= keep
    <3>1. i \in 1..keep
      BY <1>10, <2>1
    <3>2. joined[i] = out[i]
      BY <1>13, <1>16, <3>1
    <3> QED
      BY <1>8, <1>13, <1>14, <3>1, <3>2
  <2>2. CASE ~(i <= keep)
    <3> DEFINE j == i - keep
    <3>1. j \in 1..Len(all) - keep /\ i = keep + j /\ i = j + Len(out)
      BY <1>4, <1>10, <1>13, <2>2
    <3> HIDE DEF j
    <3>2. joined[i] = rest[j] /\ rest[j] = all[i] /\ rest[j][1] # "token"
      BY <1>11, <1>15, <1>16, <3>1
    <3> QED
      BY <1>14, <3>2
  <2> QED
    BY <2>1, <2>2
<1>18. joined = nonced
  <2>1. Len(joined) = Len(all)
    BY <1>4, <1>10, <1>11, <1>13, <1>16
  <2> QED
    BY <1>14, <1>16, <1>17, <2>1, AtomsEqual
<1>19. r.out = out /\ r.tail = rest
  BY <1>1, <1>12
<1> HIDE DEF r
<1>20. Len(rest) <= 2
  BY <1>4, <1>10, <1>11
<1> QED
  BY <1>11, <1>13, <1>15, <1>18, <1>19, <1>20 DEF Tokenless, r, joined, nonced, all

-----------------------------------------------------------------------------
LEMMA PartedAt ==
    ASSUME NEW s \in Seq(Atoms), NEW k \in 0..Len(s)
    PROVE  /\ \A i \in 1..k : SubSeq(s, 1, k)[i] = s[i]
           /\ \A i \in 1..Len(s) - k : SubSeq(s, k + 1, Len(s))[i] = s[i + k]
<1> DEFINE u == SubSeq(s, 1, k)
           v == SubSeq(s, k + 1, Len(s))
<1>1. u \in Seq(Atoms) /\ Len(u) = k /\ v \in Seq(Atoms) /\ Len(v) = Len(s) - k /\ s = u \o v
  BY Parted
<1> HIDE DEF u, v
<1>2. /\ \A j \in 1..Len(u) : (u \o v)[j] = u[j]
      /\ \A j \in 1..Len(v) : (u \o v)[j + Len(u)] = v[j]
  BY <1>1, JoinedAt
<1>3. /\ \A j \in 1..k : s[j] = u[j]
      /\ \A j \in 1..Len(s) - k : s[j + k] = v[j]
  BY <1>1, <1>2
<1> QED
  BY <1>3 DEF u, v

\* The scripts go between two parts of a text.
LEMMA AtomsAssociate ==
    \A a, b \in Seq(Atoms) : a \o b \in Seq(Atoms)
BY ConcatProperties

\* A text with something in the middle.
Around(u, t, v) == (u \o t) \o v

LEMMA AroundIs ==
    ASSUME NEW x \in Seq(Atoms), NEW u \in Seq(Atoms), NEW t \in Seq(Atoms),
           NEW v \in Seq(Atoms), NEW r \in Seq(Atoms)
    PROVE  /\ Around(u, t, v) \in Seq(Atoms) /\ x \o u \in Seq(Atoms) /\ v \o r \in Seq(Atoms)
           /\ Around(x, Around(u, t, v), r) = Around(x \o u, t, v \o r)
<1>1. u \o t \in Seq(Atoms) /\ x \o u \in Seq(Atoms) /\ v \o r \in Seq(Atoms)
  BY AtomsAssociate
<1>2. Around(u, t, v) \in Seq(Atoms)
  <2> DEFINE ut == u \o t
  <2>1. ut \in Seq(Atoms) /\ Around(u, t, v) = ut \o v
    BY <1>1 DEF Around
  <2> HIDE DEF ut
  <2> QED
    BY <2>1, AtomsAssociate
<1>3. Around(x, Around(u, t, v), r) = Around(x \o u, t, v \o r)
  BY DEF Around
<1> QED
  BY <1>1, <1>2, <1>3

Joined(u, v) == u \o v

LEMMA AroundParts ==
    ASSUME NEW x \in Seq(Atoms), NEW u \in Seq(Atoms), NEW v \in Seq(Atoms), NEW r \in Seq(Atoms)
    PROVE  Around(x, Joined(u, v), r) = Joined(Joined(x, u), Joined(v, r))
BY DEF Around, Joined

LEMMA InsertIs ==
    ASSUME NEW u \in Seq(Atoms), NEW v \in Seq(Atoms), NEW q \in Requests
    PROVE  Insert(u \o v, Len(u) + 1, q) = Around(u, Tag(q), v)
<1>1. /\ SubSeq(u \o v, 1, Len(u)) = u
      /\ SubSeq(u \o v, Len(u) + 1, Len(u \o v)) = v
  BY Unjoined
<1>2. Len(u) + 1 - 1 = Len(u)
  BY LenProperties
<1> DEFINE s == u \o v
           p == Len(u) + 1
<1> HIDE DEF s, p
<1>3. Insert(s, p, q) = Around(SubSeq(s, 1, p - 1), Tag(q), SubSeq(s, p, Len(s)))
  BY DEF Insert, Around
<1>4. SubSeq(s, 1, Len(u)) = u /\ SubSeq(s, Len(u) + 1, Len(s)) = v
  BY <1>1 DEF s
<1>5. SubSeq(s, 1, p - 1) = u /\ SubSeq(s, p, Len(s)) = v
  BY <1>2, <1>4 DEF p
<1>6. Insert(s, p, q) = Around(u, Tag(q), v)
  BY <1>3, <1>5
<1> QED
  BY <1>6 DEF s, p

\* Every place in a text parts it.
LEMMA ScriptsAt ==
    ASSUME NEW A, NEW s \in Seq(A), NEW p \in 1..Len(s) + 1, NEW q \in Requests
    PROVE  LET u == SubSeq(s, 1, p - 1)
               v == SubSeq(s, p, Len(s))
           IN  /\ u \in Seq(A) /\ v \in Seq(A)
               /\ s = u \o v /\ Len(u) = p - 1 /\ Insert(s, p, q) = Around(u, Tag(q), v)
<1>1. p - 1 \in 0..Len(s) /\ (p - 1) + 1 = p
  BY LenProperties
<1>2. /\ SubSeq(s, 1, p - 1) \in Seq(A) /\ Len(SubSeq(s, 1, p - 1)) = p - 1
      /\ SubSeq(s, (p - 1) + 1, Len(s)) \in Seq(A)
      /\ s = SubSeq(s, 1, p - 1) \o SubSeq(s, (p - 1) + 1, Len(s))
  BY <1>1, Parted
<1>3. Insert(s, p, q) = Around(SubSeq(s, 1, p - 1), Tag(q), SubSeq(s, p, Len(s)))
  BY DEF Insert, Around
<1> QED
  BY <1>1, <1>2, <1>3

\* The scripts inserted into the middle of three parts are inserted into the whole.
LEMMA InsertWithin ==
    ASSUME NEW x \in Seq(Atoms), NEW s \in Seq(Atoms), NEW r \in Seq(Atoms),
           NEW p \in 1..Len(s) + 1, NEW q \in Requests
    PROVE  /\ Around(x, Insert(s, p, q), r) = Insert(Around(x, s, r), p + Len(x), q)
           /\ Insert(s, p, q) \in Seq(Atoms)
<1> DEFINE t == Tag(q)
<1> DEFINE u == SubSeq(s, 1, p - 1)
           v == SubSeq(s, p, Len(s))
<1>1. /\ u \in Seq(Atoms) /\ v \in Seq(Atoms)
      /\ s = u \o v /\ Len(u) = p - 1 /\ Insert(s, p, q) = Around(u, t, v)
  BY ScriptsAt
<1> HIDE DEF u, v
<1>0. u \in Seq(Atoms) /\ v \in Seq(Atoms)
  BY <1>1
<1>2. t \in Seq(Atoms)
  BY TagIs
<1> HIDE DEF t
<1> DEFINE xu == x \o u
           vr == v \o r
           i == Insert(s, p, q)
           w == Around(x, s, r)
<1>3. Around(u, t, v) \in Seq(Atoms) /\ xu \in Seq(Atoms) /\ vr \in Seq(Atoms)
  BY <1>0, <1>2, AroundIs
<1>4. Len(xu) + 1 = p + Len(x)
  <2>1. Len(x \o u) = Len(x) + Len(u) /\ Len(x) \in Nat
    BY <1>0, AtomsJoined
  <2> QED
    BY <1>1, <2>1
<1>5. Around(x, Around(u, t, v), r) = Around(xu, t, vr)
  BY <1>0, <1>2, AroundIs
<1>6. Around(x, s, r) = xu \o vr
  <2>1. s = Joined(u, v)
    BY <1>1 DEF Joined
  <2>2. Joined(Joined(x, u), Joined(v, r)) = xu \o vr
    BY DEF Joined
  <2>3. Around(x, Joined(u, v), r) = Joined(Joined(x, u), Joined(v, r))
    BY <1>0, AroundParts
  <2> QED
    BY <2>1, <2>2, <2>3
<1> HIDE DEF xu, vr, w, i
<1>7. Insert(xu \o vr, Len(xu) + 1, q) = Around(xu, t, vr)
  BY <1>0, <1>3, InsertIs DEF t
<1>8. w = xu \o vr
  BY <1>6 DEF w
<1>9. i = Around(u, t, v)
  BY <1>1 DEF i
<1>10. Around(x, i, r) = Insert(w, p + Len(x), q)
  BY <1>4, <1>5, <1>7, <1>8, <1>9
<1> QED
  BY <1>3, <1>9, <1>10 DEF w, i

LEMMA InsertBlurred ==
    ASSUME NEW r \in Seq(Atoms), NEW s \in Seq(Atoms), Blurred(r) = Blurred(s),
           NEW p \in 1..Len(r) + 1, NEW m \in Requests, NEW q \in Requests
    PROVE  Blurred(Insert(r, p, m)) = Blurred(Insert(s, p, q))
<1>1. Len(s) = Len(r) /\ Len(r) \in Nat
  <2>1. Len(Blurred(r)) = Len(r) /\ Len(Blurred(s)) = Len(s)
    BY BlurredIs
  <2> QED
    BY <2>1, LenProperties
<1> DEFINE ru == SubSeq(r, 1, p - 1)
           rv == SubSeq(r, p, Len(r))
           su == SubSeq(s, 1, p - 1)
           sv == SubSeq(s, p, Len(s))
<1>2. /\ ru \in Seq(Atoms) /\ su \in Seq(Atoms) /\ Blurred(ru) = Blurred(su)
  <2>1. 1 \in 1..Len(r) + 1 /\ p - 1 \in 0..Len(r)
    BY <1>1
  <2>2. ru \in Seq(Atoms) /\ Blurred(ru) = SubSeq(Blurred(r), 1, p - 1)
    BY <2>1, BlurredPart
  <2>3. su \in Seq(Atoms) /\ Blurred(su) = SubSeq(Blurred(s), 1, p - 1)
    BY <1>1, <2>1, BlurredPart
  <2> QED
    BY <2>2, <2>3
<1>3. /\ rv \in Seq(Atoms) /\ sv \in Seq(Atoms) /\ Blurred(rv) = Blurred(sv)
  <2>1. Len(r) \in 0..Len(r)
    BY <1>1
  <2>2. rv \in Seq(Atoms) /\ Blurred(rv) = SubSeq(Blurred(r), p, Len(r))
    BY <2>1, BlurredPart
  <2>3. sv \in Seq(Atoms) /\ Blurred(sv) = SubSeq(Blurred(s), p, Len(s))
    BY <1>1, <2>1, BlurredPart
  <2> QED
    BY <1>1, <2>2, <2>3
<1> HIDE DEF ru, rv, su, sv
<1> DEFINE a == Tag(m)
           b == Tag(q)
<1>4. a \in Seq(Atoms) /\ b \in Seq(Atoms) /\ Blurred(a) = Blurred(b)
  BY TagIs, TagBlurred
<1>5. Insert(r, p, m) = (ru \o a) \o rv /\ Insert(s, p, q) = (su \o b) \o sv
  BY DEF Insert, ru, rv, su, sv
<1> HIDE DEF a, b
<1> DEFINE c == ru \o a
           d == su \o b
<1>6. c \in Seq(Atoms) /\ d \in Seq(Atoms) /\ Blurred(c) = Blurred(d)
  <2>1. Blurred(c) = Blurred(ru) \o Blurred(a)
    BY <1>2, <1>4, BlurredConcat
  <2>2. Blurred(d) = Blurred(su) \o Blurred(b)
    BY <1>2, <1>4, BlurredConcat
  <2> QED
    BY <1>2, <1>4, <2>1, <2>2, AtomsJoined
<1> HIDE DEF c, d
<1>7. Blurred(c \o rv) = Blurred(c) \o Blurred(rv)
  BY <1>3, <1>6, BlurredConcat
<1>8. Blurred(d \o sv) = Blurred(d) \o Blurred(sv)
  BY <1>3, <1>6, BlurredConcat
<1> QED
  BY <1>3, <1>5, <1>6, <1>7, <1>8 DEF c, d

\* Encoding leaves the scripts alone that were put between two parts of a page.
LEMMA EncodedTag ==
    ASSUME NEW u \in Seq(OriginAtoms), NEW v \in Seq(OriginAtoms), NEW q \in Requests
    PROVE  Delivery(Encoded(Around(u, Tag(q), v)), q)
<1> DEFINE t == Tag(q)
           ut == u \o t
           z == ut \o v
           e == Encoded(z)
           n == Len(u)
<1>1. u \in Seq(Atoms) /\ v \in Seq(Atoms) /\ t \in Seq(Atoms) /\ Len(t) = 5
  BY OriginIs, TagIs
<1>2. \A k \in 1..5 : t[k][1] # "pair"
  <2>1. /\ t[1] = <<"manager", q.gpc>> /\ t[5] = <<"loaded", 0>>
        /\ t[2] = <<"token", 1>> /\ t[3] = <<"token", 2>> /\ t[4] = <<"token", 3>>
    BY TagIs
  <2> HIDE DEF t
  <2>2. \A i \in 1..5 : i \in {1, 2, 3, 4, 5}
    OBVIOUS
  <2> QED
    BY <2>1, <2>2
<1> HIDE DEF t
<1>3. /\ ut \in Seq(Atoms) /\ Len(ut) = n + 5 /\ n \in Nat /\ Len(v) \in Nat
      /\ \A j \in 1..n : ut[j] = u[j]
      /\ \A j \in 1..5 : ut[j + n] = t[j]
  <2>1. ut \in Seq(Atoms) /\ Len(ut) = Len(u) + Len(t) /\ Len(u) \in Nat /\ Len(v) \in Nat
    BY <1>1, AtomsJoined, LenProperties
  <2>2. /\ \A j \in 1..Len(u) : ut[j] = u[j]
        /\ \A j \in 1..Len(t) : ut[j + Len(u)] = t[j]
    BY <1>1, JoinedAt
  <2> QED
    BY <1>1, <2>1, <2>2
<1> HIDE DEF ut
<1>4. /\ z \in Seq(Atoms) /\ Len(z) = n + 5 + Len(v)
      /\ \A j \in 1..n + 5 : z[j] = ut[j]
      /\ \A j \in 1..Len(v) : z[j + (n + 5)] = v[j]
  <2>1. z \in Seq(Atoms) /\ Len(z) = Len(ut) + Len(v)
    BY <1>1, <1>3, AtomsJoined
  <2>2. /\ \A j \in 1..Len(ut) : z[j] = ut[j]
        /\ \A j \in 1..Len(v) : z[j + Len(ut)] = v[j]
    BY <1>1, <1>3, JoinedAt
  <2> HIDE DEF z
  <2> QED
    BY <1>3, <2>1, <2>2
<1> HIDE DEF z
<1>5. /\ e \in Seq(Atoms) /\ Len(e) = Len(z)
      /\ \A i \in 1..Len(z) : e[i] # z[i] => z[i][1] \in {"pair"} /\ e[i] = <<"bad", 0>>
  BY <1>4, CodedIs DEF Encoded
<1> HIDE DEF e
<1> DEFINE a == SubSeq(e, 1, n)
           b == SubSeq(e, n + 1, Len(e))
           m == SubSeq(b, 1, 5)
           c == SubSeq(b, 5 + 1, Len(b))
<1>6. /\ a \in Seq(Atoms) /\ Len(a) = n /\ b \in Seq(Atoms) /\ Len(b) = Len(v) + 5 /\ e = a \o b
      /\ \A i \in 1..n : a[i] = e[i]
      /\ \A i \in 1..Len(v) + 5 : b[i] = e[i + n]
  <2> HIDE DEF n
  <2>1. n \in 0..Len(e) /\ Len(e) - n = Len(v) + 5
    BY <1>3, <1>4, <1>5
  <2>2. /\ a \in Seq(Atoms) /\ Len(a) = n /\ b \in Seq(Atoms) /\ Len(b) = Len(e) - n /\ e = a \o b
    BY <1>5, <2>1, Parted
  <2>3. /\ \A i \in 1..n : a[i] = e[i]
        /\ \A i \in 1..Len(e) - n : b[i] = e[i + n]
    BY <1>5, <2>1, PartedAt
  <2> QED
    BY <2>1, <2>2, <2>3
<1> HIDE DEF a, b, n
<1>7. /\ m \in Seq(Atoms) /\ Len(m) = 5 /\ c \in Seq(Atoms) /\ Len(c) = Len(v) /\ b = m \o c
      /\ \A i \in 1..5 : m[i] = b[i]
      /\ \A i \in 1..Len(v) : c[i] = b[i + 5]
  <2>1. 5 \in 0..Len(b) /\ Len(b) - 5 = Len(v)
    BY <1>3, <1>6
  <2> QED
    BY <1>6, <2>1, Parted, PartedAt
<1> HIDE DEF m, c
<1>8. m = t
  <2>1. ASSUME NEW i \in 1..5 PROVE m[i] = t[i]
    <3>1. i \in 1..Len(v) + 5 /\ i + n \in 1..Len(z) /\ i + n \in 1..n + 5
      BY <1>3, <1>4
    <3>2. m[i] = e[i + n] /\ z[i + n] = t[i]
      BY <1>3, <1>4, <1>6, <1>7, <3>1
    <3> QED
      BY <1>2, <1>5, <3>1, <3>2
  <2> QED
    BY <1>1, <1>7, <2>1, AtomsEqual
<1>9. a \in Seq(OriginAtoms)
  <2>1. ASSUME NEW i \in 1..n PROVE a[i] \in OriginAtoms
    <3>1. i \in 1..Len(z) /\ i \in 1..n + 5
      BY <1>3, <1>4
    <3>2. a[i] = e[i] /\ z[i] = u[i] /\ u[i] \in OriginAtoms
      BY <1>3, <1>4, <1>6, <3>1, ElementOfSeq DEF n
    <3> QED
      BY <1>5, <3>1, <3>2, OriginIs
  <2>2. a \in [1..n -> OriginAtoms]
    BY <1>6, <2>1, LenProperties
  <2> QED
    BY <1>3, <2>2
<1>10. c \in Seq(OriginAtoms)
  <2>1. ASSUME NEW i \in 1..Len(v) PROVE c[i] \in OriginAtoms
    <3>0. n \in Nat /\ Len(v) \in Nat
      BY <1>3
    <3>1. i + 5 \in 1..Len(v) + 5 /\ i + 5 + n \in 1..Len(z) /\ i + 5 + n = i + (n + 5)
      BY <1>4, <3>0
    <3>2. c[i] = e[i + 5 + n] /\ z[i + 5 + n] = v[i] /\ v[i] \in OriginAtoms
      BY <1>4, <1>6, <1>7, <3>1, ElementOfSeq
    <3> QED
      BY <1>5, <3>1, <3>2, OriginIs
  <2>2. c \in [1..Len(c) -> Atoms] /\ Len(v) \in Nat
    BY <1>3, <1>7, LenProperties
  <2>3. c \in [1..Len(v) -> OriginAtoms]
    BY <1>7, <2>1, <2>2
  <2> QED
    BY <2>2, <2>3
<1>11. e = a \o (t \o c)
  BY <1>6, <1>7, <1>8
<1> QED
  BY <1>9, <1>10, <1>11 DEF Delivery, e, z, ut, t, Around

-----------------------------------------------------------------------------
\* What the injector looks for.
Needles == {Mark, HeadEnd, BodyEnd}
Sought == {"mark", "head", "body"}

LEMMA NeedlesAre ==
    ASSUME NEW d \in Needles
    PROVE  /\ d \in Seq(Atoms) /\ Len(d) \in 2..TailSize + 1
           /\ \A j \in 1..Len(d) : d[j][1] \in Sought
<1>0. TailSize \in Nat /\ TailSize >= 2
  BY SizeAssumption
<1>1. CASE d = Mark
  <2>1. Len(Mark) = TailSize + 1 /\ \A j \in 1..TailSize + 1 : Mark[j] = <<"mark", j>>
    BY <1>0 DEF Mark
  <2>2. \A j \in 1..TailSize + 1 : <<"mark", j>> \in Atoms
    BY AtomIs DEF Kinds
  <2>3. Mark \in Seq(Atoms)
    <3>1. Mark \in [1..TailSize + 1 -> Atoms]
      BY <2>2 DEF Mark
    <3> QED
      BY <1>0, <3>1
  <2>4. Len(d) \in 2..TailSize + 1
    BY <1>0, <1>1, <2>1
  <2>5. \A j \in 1..Len(d) : d[j][1] \in Sought
    BY <1>1, <2>1 DEF Sought
  <2> QED
    BY <1>1, <2>3, <2>4, <2>5
<1>2. CASE d = HeadEnd
  <2>1. <<"head", 1>> \in Atoms /\ <<"head", 2>> \in Atoms
    BY AtomIs DEF Kinds
  <2>2. d \in Seq(Atoms) /\ Len(d) = 2
    BY <1>2, <2>1 DEF HeadEnd
  <2>3. \A j \in 1..2 : d[j][1] \in Sought
    BY <1>2 DEF HeadEnd, Sought
  <2> QED
    BY <1>0, <2>2, <2>3
<1>3. CASE d = BodyEnd
  <2>1. <<"body", 1>> \in Atoms /\ <<"body", 2>> \in Atoms
    BY AtomIs DEF Kinds
  <2>2. d \in Seq(Atoms) /\ Len(d) = 2
    BY <1>3, <2>1 DEF BodyEnd
  <2>3. \A j \in 1..2 : d[j][1] \in Sought
    BY <1>3 DEF BodyEnd, Sought
  <2> QED
    BY <1>0, <2>2, <2>3
<1> QED
  BY <1>1, <1>2, <1>3 DEF Needles

\* A needle begins where its atoms follow each other.
At(s, i, d) == \A j \in 1..Len(d) : s[i + j - 1] = d[j]

LEMMA PlacesAre ==
    ASSUME NEW s \in Seq(Atoms), NEW d \in Needles
    PROVE  /\ Places(s, d) \subseteq Nat \ {0}
           /\ \A i \in Nat \ {0} : i \in Places(s, d) <=> i + Len(d) - 1 =< Len(s) /\ At(s, i, d)
<1>1. d \in Seq(Atoms) /\ Len(d) \in Nat \ {0} /\ Len(s) \in Nat
  BY NeedlesAre, LenProperties
<1>2. ASSUME NEW i \in Nat \ {0}, i + Len(d) - 1 =< Len(s)
      PROVE  SubSeq(s, i, i + Len(d) - 1) = d <=> At(s, i, d)
  <2> DEFINE p == SubSeq(s, i, i + Len(d) - 1)
  <2>1. i \in 1..Len(s) + 1 /\ i + Len(d) - 1 \in 0..Len(s) /\ i =< i + Len(d) - 1
        /\ (i + Len(d) - 1) - i + 1 = Len(d)
    BY <1>1, <1>2
  <2>2. /\ p \in Seq(Atoms) /\ Len(p) = Len(d)
        /\ \A j \in 1..Len(d) : p[j] = s[i + j - 1]
    BY <2>1, BlurredPart
  <2> HIDE DEF p
  <2>3. At(s, i, d) => p = d
    BY <1>1, <2>2, AtomsEqual DEF At
  <2>4. p = d => At(s, i, d)
    BY <2>2 DEF At
  <2> QED
    BY <2>3, <2>4 DEF p
<1>3. Places(s, d) \subseteq Nat \ {0}
  BY <1>1 DEF Places
<1>4. ASSUME NEW i \in Nat \ {0}
      PROVE  i \in Places(s, d) <=> i + Len(d) - 1 =< Len(s) /\ At(s, i, d)
  <2>1. i \in 1..Len(s) - Len(d) + 1 <=> i + Len(d) - 1 =< Len(s)
    BY <1>1
  <2> QED
    BY <1>2, <2>1 DEF Places
<1> QED
  BY <1>3, <1>4

\* Damage to characters hides no needle and makes none.
LEMMA PlacesBlurred ==
    ASSUME NEW y \in Seq(Atoms), NEW z \in Seq(Atoms), Blurred(y) = Blurred(z), NEW d \in Needles
    PROVE  Places(y, d) = Places(z, d)
<1>1. Len(y) = Len(z) /\ Len(y) \in Nat
  <2>1. Len(Blurred(y)) = Len(y) /\ Len(Blurred(z)) = Len(z)
    BY BlurredIs
  <2> QED
    BY <2>1, LenProperties
<1>2. d \in Seq(Atoms) /\ Len(d) \in Nat /\ \A j \in 1..Len(d) : d[j][1] \in Sought
  BY NeedlesAre, LenProperties
<1>3. ASSUME NEW i \in 1..Len(y), NEW a, a[1] \in Sought
      PROVE  y[i] = a <=> z[i] = a
  <2>1. y[i] \in Atoms /\ z[i] \in Atoms
    BY <1>1, ElementOfSeq
  <2>2. BlurredAtom(y[i]) = BlurredAtom(z[i])
    BY <1>1, BlurredIs
  <2>3. \A b \in Atoms : b[1] \notin Vague => BlurredAtom(b) = b
    BY BlurredAtomIs
  <2>4. \A b \in Atoms : b[1] \in Vague => BlurredAtom(b)[1] \in {"bad", "manager", "token"}
    BY BlurredAtomIs
  <2>5. \A k \in Sought : k \notin Vague /\ k \notin {"bad", "manager", "token"}
    BY DEF Sought, Vague
  <2> QED
    BY <1>3, <2>1, <2>2, <2>3, <2>4, <2>5
<1>4. ASSUME NEW i \in Nat \ {0}, i + Len(d) - 1 =< Len(y)
      PROVE  At(y, i, d) <=> At(z, i, d)
  <2>1. \A j \in 1..Len(d) : i + j - 1 \in 1..Len(y)
    BY <1>1, <1>2, <1>4
  <2>2. \A j \in 1..Len(d) : y[i + j - 1] = d[j] <=> z[i + j - 1] = d[j]
    BY <1>2, <1>3, <2>1
  <2> QED
    BY <2>2 DEF At
<1>5. \A i \in Nat \ {0} : i \in Places(y, d) <=> i \in Places(z, d)
  BY <1>1, <1>4, PlacesAre
<1> QED
  BY <1>5, PlacesAre

\* Where a needle begins in a text that is put together.
LEMMA PlacesJoined ==
    ASSUME NEW a \in Seq(Atoms), NEW b \in Seq(Atoms), NEW d \in Needles, NEW i \in Nat \ {0}
    PROVE  /\ i \in Places(a, d) => i \in Places(a \o b, d)
           /\ i \in Places(a \o b, d) /\ i + Len(d) - 1 =< Len(a) => i \in Places(a, d)
           /\ i \in Places(b, d) <=> i + Len(a) \in Places(a \o b, d)
<1> DEFINE s == a \o b
<1>1. /\ s \in Seq(Atoms) /\ Len(s) = Len(a) + Len(b) /\ Len(a) \in Nat /\ Len(b) \in Nat
      /\ \A j \in 1..Len(a) : s[j] = a[j]
      /\ \A j \in 1..Len(b) : s[j + Len(a)] = b[j]
  BY AtomsJoined, JoinedAt
<1> HIDE DEF s
<1>2. Len(d) \in Nat \ {0}
  BY NeedlesAre
<1>3. ASSUME i + Len(d) - 1 =< Len(a)
      PROVE  At(a, i, d) <=> At(s, i, d)
  <2>1. \A j \in 1..Len(d) : i + j - 1 \in 1..Len(a)
    BY <1>1, <1>2, <1>3
  <2> QED
    BY <1>1, <2>1 DEF At
<1>4. i \in Places(a, d) => i \in Places(s, d)
  BY <1>1, <1>2, <1>3, PlacesAre
<1>5. i \in Places(s, d) /\ i + Len(d) - 1 =< Len(a) => i \in Places(a, d)
  BY <1>1, <1>2, <1>3, PlacesAre
<1>6. ASSUME i + Len(d) - 1 =< Len(b)
      PROVE  At(b, i, d) <=> At(s, i + Len(a), d)
  <2>1. \A j \in 1..Len(d) : i + j - 1 \in 1..Len(b) /\ (i + j - 1) + Len(a) = i + Len(a) + j - 1
    BY <1>1, <1>2, <1>6
  <2>2. \A j \in 1..Len(d) : s[i + Len(a) + j - 1] = b[i + j - 1]
    BY <1>1, <2>1
  <2> QED
    BY <2>2 DEF At
<1>7. i \in Places(b, d) <=> i + Len(a) \in Places(s, d)
  <2>1. i + Len(a) \in Nat \ {0} /\ (i + Len(d) - 1 =< Len(b) <=> (i + Len(a)) + Len(d) - 1 =< Len(s))
    BY <1>1, <1>2
  <2>2. i \in Places(b, d) <=> i + Len(d) - 1 =< Len(b) /\ At(b, i, d)
    BY PlacesAre
  <2>3. i + Len(a) \in Places(s, d) <=> (i + Len(a)) + Len(d) - 1 =< Len(s) /\ At(s, i + Len(a), d)
    BY <1>1, <2>1, PlacesAre
  <2> QED
    BY <1>6, <2>1, <2>2, <2>3
<1> QED
  BY <1>4, <1>5, <1>7 DEF s

\* A needle that is not in the part of a page that has been seen is found in what
\* the injector sees next: its tail reaches back far enough.
LEMMA Window ==
    ASSUME NEW x \in Seq(Atoms), NEW t \in Seq(Atoms), NEW w \in Seq(Atoms), NEW d \in Needles,
           Places(x \o t, d) = {}, x = <<>> \/ Len(t) >= TailSize
    PROVE  /\ \A i \in Places(t \o w, d) : i + Len(x) \in Places(Around(x, t, w), d)
           /\ \A i \in Places(Around(x, t, w), d) :
                 i - Len(x) \in Places(t \o w, d)
<1> DEFINE xt == x \o t
           tw == t \o w
           all == Around(x, t, w)
<1>1. xt \in Seq(Atoms) /\ tw \in Seq(Atoms) /\ all \in Seq(Atoms)
  BY AtomsAssociate, AroundIs
<1>2. all = xt \o w /\ all = x \o tw
  BY DEF Around
<1>3. Len(xt) = Len(x) + Len(t) /\ Len(x) \in Nat /\ Len(t) \in Nat /\ (x = <<>> => Len(x) = 0)
  BY AtomsJoined
<1>4. Len(d) \in Nat /\ Len(d) =< TailSize + 1 /\ TailSize \in Nat
  BY NeedlesAre, SizeAssumption
<1>5. Places(xt, d) = {} /\ (x = <<>> \/ Len(t) >= TailSize)
  OBVIOUS
<1> HIDE DEF xt, tw, all
<1>6. Places(tw, d) \subseteq Nat \ {0} /\ Places(all, d) \subseteq Nat \ {0}
  BY <1>1, PlacesAre
<1>7. ASSUME NEW i \in Places(tw, d)
      PROVE  i + Len(x) \in Places(all, d)
  <2>1. i \in Nat \ {0}
    BY <1>6
  <2> HIDE DEF Places
  <2>2. i \in Places(tw, d) <=> i + Len(x) \in Places(x \o tw, d)
    BY <1>1, <2>1, PlacesJoined
  <2> QED
    BY <1>2, <2>2
<1>8. ASSUME NEW i \in Places(all, d)
      PROVE  i - Len(x) \in Places(tw, d)
  <2>1. i \in Nat \ {0}
    BY <1>6
  <2>2. i + Len(d) - 1 > Len(xt)
    <3>1. i \in Places(xt \o w, d) /\ i + Len(d) - 1 =< Len(xt) => i \in Places(xt, d)
      BY <1>1, <2>1, PlacesJoined
    <3>2. ~(i + Len(d) - 1 =< Len(xt))
      BY <1>2, <1>5, <3>1
    <3> QED
      BY <1>3, <1>4, <2>1, <3>2
  <2>3. i > Len(x)
    BY <1>3, <1>4, <1>5, <2>1, <2>2
  <2> DEFINE k == i - Len(x)
  <2>4. k \in Nat \ {0} /\ k + Len(x) = i
    BY <1>3, <2>1, <2>3
  <2> HIDE DEF k
  <2>5. k \in Places(tw, d) <=> k + Len(x) \in Places(x \o tw, d)
    BY <1>1, <2>4, PlacesJoined
  <2>6. k \in Places(tw, d)
    BY <1>2, <2>4, <2>5
  <2> QED
    BY <2>6 DEF k
<1> QED
  BY <1>7, <1>8 DEF tw, all

\* The first of some places that have all been shifted.
LEMMA FirstShifted ==
    ASSUME NEW S \in SUBSET Nat, NEW T \in SUBSET Nat, NEW n \in Nat, S # {},
           \A i \in S : i + n \in T, \A i \in T : i - n \in S
    PROVE  T # {} /\ Min(T) = Min(S) + n
<1>1. T # {}
  OBVIOUS
<1>2. Min(S) \in S /\ \A i \in S : Min(S) =< i
  BY FirstPlace
<1>3. Min(T) \in T /\ \A i \in T : Min(T) =< i
  BY <1>1, FirstPlace
<1> DEFINE a == Min(S)
           b == Min(T)
<1>4. a \in Nat /\ b \in Nat /\ b =< a + n /\ a =< b - n
  BY <1>2, <1>3
<1> HIDE DEF a, b
<1>5. b = a + n
  BY <1>4
<1> QED
  BY <1>1, <1>5 DEF a, b

-----------------------------------------------------------------------------
LEMMA AroundBlurred ==
    ASSUME NEW u \in Seq(Atoms), NEW t \in Seq(Atoms), NEW v \in Seq(Atoms)
    PROVE  Blurred(Around(u, t, v)) = Around(Blurred(u), Blurred(t), Blurred(v))
<1> DEFINE ut == u \o t
<1>1. ut \in Seq(Atoms)
  BY AtomsAssociate
<1>2. Blurred(ut) = Blurred(u) \o Blurred(t)
  BY BlurredConcat
<1>3. Around(u, t, v) = ut \o v
  BY DEF Around
<1> HIDE DEF ut
<1>4. Blurred(ut \o v) = Blurred(ut) \o Blurred(v)
  BY <1>1, BlurredConcat
<1> QED
  BY <1>2, <1>3, <1>4 DEF Around

\* What is found lies in the text.
LEMMA FirstFound ==
    ASSUME NEW s \in Seq(Atoms), NEW d \in Needles
    PROVE  /\ Places(s, d) \in SUBSET Nat
           /\ Has(s, d) => Min(Places(s, d)) \in 1..Len(s) + 1 /\ Len(s) > 0
<1>1. Places(s, d) \subseteq Nat \ {0}
  BY PlacesAre
<1>2. ASSUME Has(s, d) PROVE Min(Places(s, d)) \in 1..Len(s) + 1 /\ Len(s) > 0
  <2>1. Places(s, d) \in SUBSET Nat /\ Places(s, d) # {}
    BY <1>1, <1>2 DEF Has
  <2>2. Min(Places(s, d)) \in Places(s, d)
    BY <2>1, FirstPlace
  <2> DEFINE p == Min(Places(s, d))
  <2>3. p \in Nat \ {0} /\ p \in Places(s, d)
    BY <1>1, <2>2
  <2> HIDE DEF p
  <2>4. p + Len(d) - 1 =< Len(s) /\ Len(d) \in Nat /\ Len(d) >= 2 /\ Len(s) \in Nat
    <3>1. p + Len(d) - 1 =< Len(s)
      BY <2>3, PlacesAre
    <3>2. Len(d) \in 2..TailSize + 1
      BY NeedlesAre
    <3> QED
      BY <3>1, <3>2, LenProperties
  <2>5. p \in 1..Len(s) + 1 /\ Len(s) > 0
    BY <2>3, <2>4
  <2> QED
    BY <2>5 DEF p
<1> QED
  BY <1>1, <1>2

\* What an injector does with a text is one of the ways to inject into the page.
LEMMA InjectionsAre ==
    ASSUME config.bootstrapper = TRUE, NEW page \in Seq(Atoms), NEW k \in 1..Len(page), NEW q
    PROVE  LET part == SubSeq(page, 1, k)
           IN  /\ Has(part, Mark) => page \in Injections(page, q)
               /\ ~Has(part, Mark) /\ Has(part, HeadEnd) =>
                     Insert(page, Min(Places(part, HeadEnd)), q) \in Injections(page, q)
               /\ ~Has(part, Mark) /\ ~Has(part, HeadEnd) /\ Has(part, BodyEnd) =>
                     Insert(page, Min(Places(part, BodyEnd)), q) \in Injections(page, q)
<1> DEFINE part(x) == SubSeq(page, 1, x)
           Decisive(x) == \E d \in Needles : Has(part(x), d)
           Of(x) == CASE Has(part(x), Mark) -> page
                      [] ~Has(part(x), Mark) /\ Has(part(x), HeadEnd) ->
                            Insert(page, Min(Places(part(x), HeadEnd)), q)
                      [] OTHER -> Insert(page, Min(Places(part(x), BodyEnd)), q)
           cuts == {x \in 1..Len(page) : Decisive(x)}
<1>1. ASSUME cuts # {} PROVE Injections(page, q) = {Of(x) : x \in cuts}
  BY <1>1 DEF Injections, Needles
<1>2. Mark \in Needles /\ HeadEnd \in Needles /\ BodyEnd \in Needles
  BY DEF Needles
<1>3. ASSUME NEW d \in Needles, Has(part(k), d) PROVE Of(k) \in Injections(page, q)
  <2>1. k \in cuts
    BY <1>3
  <2> HIDE DEF cuts, Of
  <2> QED
    BY <1>1, <2>1
<1> HIDE DEF cuts, Decisive
<1>4. Has(part(k), Mark) => Of(k) = page
  OBVIOUS
<1>5. ~Has(part(k), Mark) /\ Has(part(k), HeadEnd) =>
         Of(k) = Insert(page, Min(Places(part(k), HeadEnd)), q)
  OBVIOUS
<1>6. ~Has(part(k), Mark) /\ ~Has(part(k), HeadEnd) =>
         Of(k) = Insert(page, Min(Places(part(k), BodyEnd)), q)
  OBVIOUS
<1> HIDE DEF Of
<1> QED
  BY <1>2, <1>3, <1>4, <1>5, <1>6

LEMMA NothingToFind ==
    ASSUME config.bootstrapper = TRUE, NEW page \in Seq(Atoms), NEW q,
           \A d \in Needles : Places(page, d) = {}
    PROVE  Injections(page, q) = {page \o Tag(q)}
<1>1. ASSUME NEW x \in 1..Len(page), NEW d \in Needles PROVE ~Has(SubSeq(page, 1, x), d)
  <2> DEFINE part == SubSeq(page, 1, x)
             rest == SubSeq(page, x + 1, Len(page))
  <2>1. part \in Seq(Atoms) /\ rest \in Seq(Atoms) /\ page = part \o rest
    <3>1. x \in 0..Len(page)
      OBVIOUS
    <3> QED
      BY <3>1, Parted
  <2> HIDE DEF part, rest
  <2>2. Places(part, d) \subseteq Nat \ {0}
    BY <2>1, PlacesAre
  <2>3. \A i \in Nat \ {0} : i \in Places(part, d) => i \in Places(part \o rest, d)
    BY <2>1, PlacesJoined
  <2>4. Places(part, d) = {}
    BY <2>1, <2>2, <2>3
  <2> QED
    BY <2>4 DEF part, Has
<1> DEFINE cuts == {x \in 1..Len(page) : \E d \in Needles : Has(SubSeq(page, 1, x), d)}
<1>2. cuts = {}
  BY <1>1
<1> HIDE DEF Has
<1>3. cuts = {} => Injections(page, q) = {page \o Tag(q)}
  BY DEF Injections, Needles
<1> QED
  BY <1>2, <1>3

-----------------------------------------------------------------------------
LEMMA TextIs ==
    ASSUME NEW tail \in Seq(OriginAtoms), NEW chunk \in Seq(OriginAtoms)
    PROVE  /\ Decoded(chunk) \in Seq(OriginAtoms) /\ tail \o Decoded(chunk) \in Seq(OriginAtoms)
           /\ tail \in Seq(Atoms) /\ chunk \in Seq(Atoms) /\ Decoded(chunk) \in Seq(Atoms)
           /\ tail \o Decoded(chunk) \in Seq(Atoms)
           /\ Blurred(Decoded(chunk)) = Blurred(chunk) /\ Len(Decoded(chunk)) = Len(chunk)
<1>1. Decoded(chunk) \in Seq(OriginAtoms) /\ chunk \in Seq(Atoms)
  BY CodedOrigin, OriginIs DEF Decoded
<1>2. tail \o Decoded(chunk) \in Seq(OriginAtoms)
  BY <1>1, ConcatProperties
<1>3. Blurred(Decoded(chunk)) = Blurred(chunk) /\ Len(Decoded(chunk)) = Len(chunk)
  BY <1>1, CodedIs DEF Decoded
<1> QED
  BY <1>1, <1>2, <1>3, OriginIs

LEMMA HeldIs ==
    ASSUME NEW text \in Seq(OriginAtoms)
    PROVE  /\ Held(text).done = FALSE
           /\ Held(text).out \in Seq(OriginAtoms) /\ Held(text).tail \in Seq(OriginAtoms)
           /\ Len(Held(text).tail) =< TailSize
           /\ Blurred(Held(text).out \o Held(text).tail) = Blurred(text)
           /\ \/ Len(Held(text).tail) = TailSize
              \/ Held(text).out = <<>> /\ Len(Held(text).tail) = Len(text)
<1> DEFINE cut == IF Len(text) > TailSize THEN Len(text) - TailSize ELSE 0
           a == SubSeq(text, 1, cut)
           b == SubSeq(text, cut + 1, Len(text))
<1>1. Len(text) \in Nat /\ TailSize \in Nat
  BY SizeAssumption, LenProperties
<1>2. cut \in 0..Len(text)
  BY <1>1
<1>3. a \in Seq(OriginAtoms) /\ Len(a) = cut /\ b \in Seq(OriginAtoms) /\ Len(b) = Len(text) - cut
      /\ text = a \o b
  <2> HIDE DEF cut
  <2> QED
    BY <1>2, Parted
<1>4. Held(text) = [out |-> Encoded(a), tail |-> b, done |-> FALSE]
  BY DEF Held
<1> HIDE DEF a, b
<1>11. Len(a) = cut /\ Len(b) = Len(text) - cut
  BY <1>3
<1>5. Len(b) =< TailSize /\ (Len(b) = TailSize \/ (Len(a) = 0 /\ Len(b) = Len(text)))
  <2>1. CASE Len(text) > TailSize
    <3>1. cut = Len(text) - TailSize
      BY <2>1
    <3> HIDE DEF cut
    <3> QED
      BY <1>1, <1>11, <3>1
  <2>2. CASE ~(Len(text) > TailSize)
    <3>1. cut = 0
      BY <2>2
    <3> HIDE DEF cut
    <3> QED
      BY <1>1, <1>11, <2>2, <3>1
  <2> QED
    BY <2>1, <2>2
<1> HIDE DEF cut
<1>6. a \in Seq(Atoms) /\ b \in Seq(Atoms)
  BY <1>3, OriginIs
<1> DEFINE e == Encoded(a)
<1>7. e \in Seq(OriginAtoms) /\ e \in Seq(Atoms) /\ Len(e) = Len(a) /\ Blurred(e) = Blurred(a)
  BY <1>3, <1>6, CodedIs, CodedOrigin DEF Encoded
<1> HIDE DEF e
<1>8. Blurred(e \o b) = Blurred(text)
  <2>1. Blurred(e \o b) = Blurred(e) \o Blurred(b)
    BY <1>6, <1>7, BlurredConcat
  <2>2. Blurred(a \o b) = Blurred(a) \o Blurred(b)
    BY <1>6, BlurredConcat
  <2> QED
    BY <1>3, <1>7, <2>1, <2>2
<1>9. Len(a) = 0 => e = <<>>
  BY <1>7, EmptySeq
<1>10. Held(text).out = e /\ Held(text).tail = b /\ Held(text).done = FALSE
  BY <1>4 DEF e
<1> QED
  BY <1>3, <1>5, <1>7, <1>8, <1>9, <1>10

\* The four ways of a chunk through the injector.
Through(s) == [out |-> Encoded(s), tail |-> <<>>, done |-> TRUE]
LEMMA InjectIs ==
    ASSUME NEW tail, NEW chunk, NEW q
    PROVE  LET text == tail \o Decoded(chunk)
           IN  \/ Has(text, Mark) /\ Inject(tail, chunk, q) = Through(text)
               \/ /\ ~Has(text, Mark) /\ Has(text, HeadEnd)
                  /\ Inject(tail, chunk, q) = Through(Insert(text, Min(Places(text, HeadEnd)), q))
               \/ /\ ~Has(text, Mark) /\ ~Has(text, HeadEnd) /\ Has(text, BodyEnd)
                  /\ Inject(tail, chunk, q) = Through(Insert(text, Min(Places(text, BodyEnd)), q))
               \/ /\ \A d \in Needles : ~Has(text, d)
                  /\ Inject(tail, chunk, q) = Held(text)
<1> DEFINE text == tail \o Decoded(chunk)
<1>1. Inject(tail, chunk, q) =
        CASE Has(text, Mark) -> Through(text)
          [] ~Has(text, Mark) /\ Has(text, HeadEnd) ->
               Through(Insert(text, Min(Places(text, HeadEnd)), q))
          [] ~Has(text, Mark) /\ ~Has(text, HeadEnd) /\ Has(text, BodyEnd) ->
               Through(Insert(text, Min(Places(text, BodyEnd)), q))
          [] OTHER -> Held(text)
  BY DEF Inject, Through
<1> HIDE DEF text
<1>2. Has(text, Mark) \in BOOLEAN /\ Has(text, HeadEnd) \in BOOLEAN /\ Has(text, BodyEnd) \in BOOLEAN
  BY DEF Has
<1>3. ~Has(text, Mark) /\ ~Has(text, HeadEnd) /\ ~Has(text, BodyEnd) =>
         \A d \in Needles : ~Has(text, d)
  BY DEF Needles
<1>4. CASE Has(text, Mark)
  <2>1. Inject(tail, chunk, q) = Through(text)
    BY <1>1, <1>4
  <2> QED
    BY <1>4, <2>1 DEF text
<1>5. CASE ~Has(text, Mark) /\ Has(text, HeadEnd)
  <2>1. Inject(tail, chunk, q) = Through(Insert(text, Min(Places(text, HeadEnd)), q))
    BY <1>1, <1>5
  <2> QED
    BY <1>5, <2>1 DEF text
<1>6. CASE ~Has(text, Mark) /\ ~Has(text, HeadEnd) /\ Has(text, BodyEnd)
  <2>1. Inject(tail, chunk, q) = Through(Insert(text, Min(Places(text, BodyEnd)), q))
    BY <1>1, <1>6
  <2> QED
    BY <1>6, <2>1 DEF text
<1>7. CASE ~Has(text, Mark) /\ ~Has(text, HeadEnd) /\ ~Has(text, BodyEnd)
  <2>1. Inject(tail, chunk, q) = Held(text)
    BY <1>1, <1>7
  <2> QED
    BY <1>3, <1>7, <2>1 DEF text
<1> QED
  BY <1>4, <1>5, <1>6, <1>7

-----------------------------------------------------------------------------
\* The injector has found nothing in y, of which it has passed on x and holds a tail.
Sees(x, tail, y) ==
    /\ x \in Seq(OriginAtoms) /\ tail \in Seq(OriginAtoms) /\ y \in Seq(OriginAtoms)
    /\ Blurred(x \o tail) = Blurred(y)
    /\ \A d \in Needles : Places(y, d) = {}
    /\ x = <<>> \/ Len(tail) >= TailSize

\* Then it sees in its next text what a reader of the whole page would see.
LEMMA Seen ==
    ASSUME NEW x, NEW tail, NEW y, Sees(x, tail, y), NEW c \in Seq(OriginAtoms)
    PROVE  LET text == tail \o Decoded(c)
           IN  /\ y \o c \in Seq(OriginAtoms) /\ y \o c \in Seq(Atoms) /\ x \in Seq(Atoms)
               /\ Blurred(x \o text) = Blurred(y \o c)
               /\ \A d \in Needles :
                     /\ Has(text, d) <=> Has(y \o c, d)
                     /\ Has(text, d) =>
                           Min(Places(y \o c, d)) = Min(Places(text, d)) + Len(x)
<1> DEFINE dc == Decoded(c)
           text == tail \o dc
           yc == y \o c
           xt == x \o tail
           all == Around(x, tail, dc)
<1>1. /\ x \in Seq(OriginAtoms) /\ tail \in Seq(OriginAtoms) /\ y \in Seq(OriginAtoms)
      /\ x \in Seq(Atoms) /\ tail \in Seq(Atoms) /\ y \in Seq(Atoms)
  BY OriginIs DEF Sees
<1>2. /\ c \in Seq(Atoms) /\ dc \in Seq(Atoms) /\ text \in Seq(Atoms)
      /\ Blurred(dc) = Blurred(c)
  BY <1>1, TextIs
<1>3. yc \in Seq(OriginAtoms) /\ yc \in Seq(Atoms)
  <2>1. yc \in Seq(OriginAtoms)
    BY <1>1, ConcatProperties
  <2> HIDE DEF yc
  <2> QED
    BY <2>1, OriginIs
<1>4. xt \in Seq(Atoms) /\ Blurred(xt) = Blurred(y) /\ (x = <<>> \/ Len(tail) >= TailSize)
  BY <1>1, AtomsAssociate DEF Sees
<1>5. \A d \in Needles : Places(y, d) = {}
  BY DEF Sees
<1>6. all = xt \o dc /\ all = x \o text
  BY DEF Around
<1> HIDE DEF dc, xt
<1>7. Blurred(all) = Blurred(yc)
  <2>1. Blurred(xt \o dc) = Blurred(xt) \o Blurred(dc)
    BY <1>2, <1>4, BlurredConcat
  <2>2. Blurred(yc) = Blurred(y) \o Blurred(c)
    BY <1>1, <1>2, BlurredConcat
  <2> HIDE DEF yc, all
  <2> QED
    BY <1>2, <1>4, <1>6, <2>1, <2>2
<1>8. all \in Seq(Atoms)
  BY <1>1, <1>2, AroundIs
<1>9. ASSUME NEW d \in Needles
      PROVE  /\ Has(text, d) <=> Has(yc, d)
             /\ Has(text, d) => Min(Places(yc, d)) = Min(Places(text, d)) + Len(x)
  <2> DEFINE S == Places(text, d)
             T == Places(all, d)
  <2>1. T = Places(yc, d)
    <3> HIDE DEF all, yc, Places
    <3> QED
      BY <1>3, <1>7, <1>8, PlacesBlurred
  <2>2. Places(xt, d) = {}
    <3> HIDE DEF Places
    <3>1. Places(xt, d) = Places(y, d)
      BY <1>1, <1>4, PlacesBlurred
    <3> QED
      BY <1>5, <3>1
  <2>3. /\ \A i \in S : i + Len(x) \in T
        /\ \A i \in T : i - Len(x) \in S
    <3>1. Places(x \o tail, d) = {}
      BY <2>2 DEF xt
    <3> HIDE DEF Places
    <3> QED
      BY <1>1, <1>2, <1>4, <3>1, Window
  <2>4. S \in SUBSET Nat /\ T \in SUBSET Nat /\ Len(x) \in Nat
    BY <1>1, <1>2, <1>8, FirstFound, LenProperties
  <2>5. (Has(text, d) <=> S # {}) /\ (Has(yc, d) <=> T # {})
    BY <2>1 DEF Has
  <2> HIDE DEF S, T, text, all
  <2>6. S # {} => T # {} /\ Min(T) = Min(S) + Len(x)
    BY <2>3, <2>4, FirstShifted
  <2>7. T # {} => S # {}
    BY <2>3
  <2>8. S = Places(text, d)
    BY DEF S
  <2> QED
    BY <2>1, <2>5, <2>6, <2>7, <2>8
<1>10. Blurred(x \o text) = Blurred(yc)
  BY <1>6, <1>7
<1> HIDE DEF yc, text
<1> QED
  BY <1>1, <1>3, <1>9, <1>10 DEF yc, text, dc

\* The first place in the text is the first place in the part of the page.
LEMMA ScriptsPlaced ==
    ASSUME NEW x, NEW tail, NEW y, Sees(x, tail, y), NEW c \in Seq(OriginAtoms),
           NEW r \in Seq(OriginAtoms), NEW d \in Needles, NEW q \in Requests,
           Has(tail \o Decoded(c), d)
    PROVE  Blurred(Around(x, Encoded(Insert(tail \o Decoded(c), Min(Places(tail \o Decoded(c), d)), q)), r))
             = Blurred(Insert(Around(y, c, r), Min(Places(y \o c, d)), q))
<1> DEFINE text == tail \o Decoded(c)
           yc == y \o c
           p == Min(Places(text, d))
           i == Insert(text, p, q)
           m == Min(Places(yc, d))
           a == Around(x, text, r)
           b == Around(y, c, r)
<1>1. x \in Seq(Atoms) /\ y \in Seq(Atoms) /\ c \in Seq(Atoms) /\ r \in Seq(Atoms) /\ text \in Seq(Atoms)
  <2>1. /\ tail \in Seq(OriginAtoms) /\ x \in Seq(Atoms) /\ y \in Seq(Atoms)
        /\ c \in Seq(Atoms) /\ r \in Seq(Atoms)
    BY OriginIs DEF Sees
  <2> QED
    BY <2>1, TextIs
<1>2. /\ yc \in Seq(Atoms) /\ Blurred(x \o text) = Blurred(yc)
      /\ Has(text, d) /\ m = p + Len(x)
  BY Seen
<1> HIDE DEF text
<1>3. p \in 1..Len(text) + 1
  BY <1>1, <1>2, FirstFound
<1> HIDE DEF p, m
<1>4. i \in Seq(Atoms) /\ Around(x, i, r) = Insert(a, p + Len(x), q)
  BY <1>1, <1>3, InsertWithin
<1> HIDE DEF i
<1>5. a \in Seq(Atoms) /\ b \in Seq(Atoms)
  BY <1>1, AroundIs
<1>6. Blurred(a) = Blurred(b) /\ Len(a) = Len(x) + Len(text) + Len(r)
  <2> DEFINE xe == x \o text
  <2>1. xe \in Seq(Atoms) /\ a = xe \o r /\ b = yc \o r /\ Len(xe) = Len(x) + Len(text)
    BY <1>1, AtomsJoined DEF Around
  <2>2. Blurred(xe) = Blurred(yc)
    BY <1>2
  <2> HIDE DEF xe, yc, a, b
  <2>3. Blurred(xe \o r) = Blurred(xe) \o Blurred(r)
    BY <1>1, <2>1, BlurredConcat
  <2>4. Blurred(yc \o r) = Blurred(yc) \o Blurred(r)
    BY <1>1, <1>2, BlurredConcat
  <2>5. Len(xe \o r) = Len(xe) + Len(r)
    BY <1>1, <2>1, AtomsJoined
  <2> QED
    BY <2>1, <2>2, <2>3, <2>4, <2>5
<1> HIDE DEF a, b
<1>7. p + Len(x) \in 1..Len(a) + 1
  <2>1. Len(x) \in Nat /\ Len(text) \in Nat /\ Len(r) \in Nat
    BY <1>1, LenProperties
  <2> QED
    BY <1>3, <1>6, <2>1
<1>8. Blurred(Insert(a, p + Len(x), q)) = Blurred(Insert(b, m, q))
  <2> DEFINE k == p + Len(x)
  <2>1. k \in 1..Len(a) + 1 /\ m = k
    BY <1>2, <1>7
  <2> HIDE DEF k
  <2>2. Blurred(Insert(a, k, q)) = Blurred(Insert(b, k, q))
    BY <1>5, <1>6, <2>1, InsertBlurred
  <2> QED
    BY <2>1, <2>2 DEF k
<1> DEFINE e == Encoded(i)
<1>9. e \in Seq(Atoms) /\ Blurred(e) = Blurred(i)
  BY <1>4, CodedIs DEF Encoded
<1> HIDE DEF e
<1>10. Blurred(Around(x, e, r)) = Blurred(Around(x, i, r))
  <2>1. Blurred(Around(x, e, r)) = Around(Blurred(x), Blurred(e), Blurred(r))
    BY <1>1, <1>9, AroundBlurred
  <2>2. Blurred(Around(x, i, r)) = Around(Blurred(x), Blurred(i), Blurred(r))
    BY <1>1, <1>4, AroundBlurred
  <2> QED
    BY <1>9, <2>1, <2>2
<1>11. Blurred(Around(x, e, r)) = Blurred(Insert(b, m, q))
  BY <1>4, <1>8, <1>10
<1> QED
  BY <1>11 DEF e, i, p, text, b, m, yc

\* The injector goes on without having found anything.
LEMMA InjectHolds ==
    ASSUME NEW x, NEW tail, NEW y, Sees(x, tail, y), NEW c \in Seq(OriginAtoms), NEW q,
           Inject(tail, c, q).done = FALSE
    PROVE  /\ Sees(x \o Inject(tail, c, q).out, Inject(tail, c, q).tail, y \o c)
           /\ Len(Inject(tail, c, q).tail) =< TailSize
<1> DEFINE text == tail \o Decoded(c)
           s == Inject(tail, c, q)
           yc == y \o c
           xt == x \o text
<1>1. /\ tail \in Seq(OriginAtoms) /\ x \in Seq(OriginAtoms) /\ x \in Seq(Atoms)
      /\ text \in Seq(OriginAtoms) /\ text \in Seq(Atoms) /\ Len(text) = Len(tail) + Len(c)
      /\ Len(tail) \in Nat /\ Len(c) \in Nat
  <2>1. tail \in Seq(OriginAtoms) /\ x \in Seq(OriginAtoms) /\ x \in Seq(Atoms)
    BY OriginIs DEF Sees
  <2>2. text \in Seq(OriginAtoms) /\ text \in Seq(Atoms)
    BY <2>1, TextIs
  <2>3. /\ Len(Decoded(c)) = Len(c) /\ Decoded(c) \in Seq(Atoms) /\ tail \in Seq(Atoms)
    BY <2>1, TextIs
  <2>4. Len(text) = Len(tail) + Len(Decoded(c)) /\ Len(tail) \in Nat /\ Len(Decoded(c)) \in Nat
    BY <2>3, AtomsJoined
  <2> QED
    BY <2>1, <2>2, <2>3, <2>4
<1>2. (\A d \in Needles : ~Has(text, d)) /\ s = Held(text)
  <2>1. \A t : Through(t).done # FALSE
    BY DEF Through
  <2> HIDE DEF text
  <2>2. s.done = FALSE
    OBVIOUS
  <2>3. \/ \E t : s = Through(t)
        \/ (\A d \in Needles : ~Has(text, d)) /\ s = Held(text)
    BY InjectIs DEF text
  <2> QED
    BY <2>1, <2>2, <2>3
<1>3. /\ yc \in Seq(OriginAtoms) /\ Blurred(xt) = Blurred(yc)
      /\ \A d \in Needles : Has(text, d) <=> Has(yc, d)
  BY Seen
<1> HIDE DEF text, yc
<1>4. \A d \in Needles : Places(yc, d) = {}
  BY <1>2, <1>3 DEF Has
<1> DEFINE out == Held(text).out
           left == Held(text).tail
<1>5. /\ out \in Seq(OriginAtoms) /\ left \in Seq(OriginAtoms) /\ Len(left) =< TailSize
      /\ Blurred(out \o left) = Blurred(text)
      /\ Len(left) = TailSize \/ (out = <<>> /\ Len(left) = Len(text))
  BY <1>1, HeldIs
<1>6. out \in Seq(Atoms) /\ left \in Seq(Atoms)
  BY <1>5, OriginIs
<1> HIDE DEF out, left
<1> DEFINE xo == x \o out
           ol == out \o left
<1>7. xo \in Seq(OriginAtoms)
  BY <1>1, <1>5, ConcatProperties
<1>8. Blurred(xo \o left) = Blurred(yc)
  <2>1. ol \in Seq(Atoms) /\ xo \o left = x \o ol
    BY <1>1, <1>6, AtomsAssociate
  <2>2. Blurred(ol) = Blurred(text)
    BY <1>5
  <2> HIDE DEF xo, ol
  <2>3. Blurred(x \o ol) = Blurred(x) \o Blurred(ol)
    BY <1>1, <2>1, BlurredConcat
  <2>4. Blurred(xt) = Blurred(x) \o Blurred(text)
    BY <1>1, BlurredConcat
  <2> QED
    BY <1>3, <2>1, <2>2, <2>3, <2>4
<1>9. xo = <<>> \/ Len(left) >= TailSize
  <2>1. x = <<>> \/ Len(tail) >= TailSize
    BY DEF Sees
  <2>2. TailSize \in Nat
    BY SizeAssumption
  <2>3. CASE Len(left) = TailSize
    BY <2>2, <2>3
  <2>4. CASE out = <<>> /\ Len(left) = Len(text)
    <3>1. x = <<>> => xo = <<>>
      BY <2>4
    <3>2. Len(tail) >= TailSize => Len(left) >= TailSize
      BY <1>1, <2>2, <2>4
    <3> QED
      BY <2>1, <3>1, <3>2
  <2> QED
    BY <1>5, <2>3, <2>4
<1> HIDE DEF xo
<1>10. Sees(xo, left, yc)
  BY <1>3, <1>4, <1>5, <1>7, <1>8, <1>9 DEF Sees
<1> QED
  BY <1>2, <1>5, <1>10 DEF xo, yc, out, left

-----------------------------------------------------------------------------
\* A text is a page with something injected into it, but for damaged characters.
Injected(page, q, text) == \E P \in Injections(page, q) : Blurred(text) = Blurred(P)

\* What the injector passes on with its find is a way to inject into the page.
LEMMA InjectEnds ==
    ASSUME NEW x, NEW tail, NEW y, Sees(x, tail, y), NEW c \in Seq(OriginAtoms),
           NEW r \in Seq(OriginAtoms), NEW q \in Requests, config.bootstrapper = TRUE,
           Inject(tail, c, q).done # FALSE
    PROVE  Injected(Around(y, c, r), q, Around(x, Inject(tail, c, q).out, r))
<1> DEFINE text == tail \o Decoded(c)
           s == Inject(tail, c, q)
           yc == y \o c
           page == Around(y, c, r)
           k == Len(yc)
<1>1. /\ x \in Seq(Atoms) /\ y \in Seq(Atoms) /\ c \in Seq(Atoms) /\ r \in Seq(Atoms)
      /\ text \in Seq(Atoms)
  <2>1. /\ tail \in Seq(OriginAtoms) /\ x \in Seq(Atoms) /\ y \in Seq(Atoms)
        /\ c \in Seq(Atoms) /\ r \in Seq(Atoms)
    BY OriginIs DEF Sees
  <2> QED
    BY <2>1, TextIs
<1>2. /\ yc \in Seq(Atoms) /\ Blurred(x \o text) = Blurred(yc)
      /\ \A d \in Needles : Has(text, d) <=> Has(yc, d)
  BY Seen
<1>3. page \in Seq(Atoms) /\ page = yc \o r
  BY <1>1, AroundIs DEF Around
<1>4. SubSeq(page, 1, k) = yc /\ k \in 0..Len(page)
  <2> HIDE DEF page, yc
  <2>1. SubSeq(yc \o r, 1, Len(yc)) = yc /\ Len(yc) \in 0..Len(yc \o r)
    BY <1>1, <1>2, Unjoined
  <2> QED
    BY <1>3, <2>1
<1>5. ASSUME NEW d \in Needles, Has(text, d)
      PROVE  k \in 1..Len(page)
  <2>1. Len(yc) > 0
    BY <1>2, <1>5, FirstFound
  <2> HIDE DEF page, yc
  <2> QED
    BY <1>4, <2>1
<1>6. Mark \in Needles /\ HeadEnd \in Needles /\ BodyEnd \in Needles
  BY DEF Needles
<1> DEFINE AtHead == Insert(page, Min(Places(yc, HeadEnd)), q)
           AtBody == Insert(page, Min(Places(yc, BodyEnd)), q)
<1>7. ASSUME k \in 1..Len(page)
      PROVE  /\ Has(yc, Mark) => page \in Injections(page, q)
             /\ ~Has(yc, Mark) /\ Has(yc, HeadEnd) => AtHead \in Injections(page, q)
             /\ ~Has(yc, Mark) /\ ~Has(yc, HeadEnd) /\ Has(yc, BodyEnd) => AtBody \in Injections(page, q)
  <2> DEFINE part == SubSeq(page, 1, k)
  <2>1. /\ Has(part, Mark) => page \in Injections(page, q)
        /\ ~Has(part, Mark) /\ Has(part, HeadEnd) =>
              Insert(page, Min(Places(part, HeadEnd)), q) \in Injections(page, q)
        /\ ~Has(part, Mark) /\ ~Has(part, HeadEnd) /\ Has(part, BodyEnd) =>
              Insert(page, Min(Places(part, BodyEnd)), q) \in Injections(page, q)
    <3> HIDE DEF page, k
    <3> QED
      BY <1>3, <1>7, InjectionsAre
  <2>2. part = yc
    BY <1>4
  <2> HIDE DEF part, yc, page
  <2> QED
    BY <2>1, <2>2
<1>8. ASSUME NEW d \in Needles, Has(text, d)
      PROVE  Blurred(Around(x, Through(Insert(text, Min(Places(text, d)), q)).out, r))
               = Blurred(Insert(page, Min(Places(yc, d)), q))
  <2>1. Through(Insert(text, Min(Places(text, d)), q)).out = Encoded(Insert(text, Min(Places(text, d)), q))
    BY DEF Through
  <2>2. Blurred(Around(x, Encoded(Insert(text, Min(Places(text, d)), q)), r))
               = Blurred(Insert(page, Min(Places(yc, d)), q))
    BY <1>8, ScriptsPlaced
  <2> HIDE DEF text, page, yc
  <2> QED
    BY <2>1, <2>2
<1>9. Blurred(Around(x, Through(text).out, r)) = Blurred(page)
  <2> DEFINE e == Encoded(text)
             xe == x \o e
             xt == x \o text
  <2>1. e \in Seq(Atoms) /\ Blurred(e) = Blurred(text)
    BY <1>1, CodedIs DEF Encoded
  <2>2. Through(text).out = e
    BY DEF Through
  <2>3. Blurred(xt) = Blurred(yc)
    BY <1>2
  <2> HIDE DEF e, text, yc
  <2>4. xe \in Seq(Atoms) /\ Around(x, e, r) = xe \o r
    BY <1>1, <2>1, AtomsAssociate DEF Around
  <2>5. Blurred(xe) = Blurred(xt)
    <3>1. Blurred(x \o e) = Blurred(x) \o Blurred(e)
      BY <1>1, <2>1, BlurredConcat
    <3>2. Blurred(x \o text) = Blurred(x) \o Blurred(text)
      BY <1>1, BlurredConcat
    <3> QED
      BY <2>1, <3>1, <3>2
  <2> HIDE DEF xe, xt
  <2>6. Blurred(xe \o r) = Blurred(xe) \o Blurred(r)
    BY <1>1, <2>4, BlurredConcat
  <2>7. Blurred(yc \o r) = Blurred(yc) \o Blurred(r)
    BY <1>1, <1>2, BlurredConcat
  <2> HIDE DEF page
  <2> QED
    BY <1>3, <2>2, <2>3, <2>4, <2>5, <2>6, <2>7
<1>10. \/ Has(text, Mark) /\ s = Through(text)
       \/ /\ ~Has(text, Mark) /\ Has(text, HeadEnd)
          /\ s = Through(Insert(text, Min(Places(text, HeadEnd)), q))
       \/ /\ ~Has(text, Mark) /\ ~Has(text, HeadEnd) /\ Has(text, BodyEnd)
          /\ s = Through(Insert(text, Min(Places(text, BodyEnd)), q))
       \/ s = Held(text)
  BY InjectIs
<1>11. s.done # FALSE
  OBVIOUS
<1>12. Held(text).done = FALSE
  BY DEF Held
<1> HIDE DEF text, s, page, yc, k, Has, Needles
<1>13. CASE Has(text, Mark) /\ s = Through(text)
  <2>1. page \in Injections(page, q)
    BY <1>2, <1>5, <1>6, <1>7, <1>13
  <2>2. Blurred(Around(x, s.out, r)) = Blurred(page)
    BY <1>9, <1>13
  <2> QED
    BY <2>1, <2>2 DEF s, page, Injected
<1>14. CASE /\ ~Has(text, Mark) /\ Has(text, HeadEnd)
            /\ s = Through(Insert(text, Min(Places(text, HeadEnd)), q))
  <2>1. AtHead \in Injections(page, q)
    BY <1>2, <1>5, <1>6, <1>7, <1>14
  <2>2. Blurred(Around(x, s.out, r)) = Blurred(AtHead)
    BY <1>6, <1>8, <1>14
  <2> HIDE DEF AtHead
  <2> QED
    BY <2>1, <2>2 DEF s, page, Injected
<1>15. CASE /\ ~Has(text, Mark) /\ ~Has(text, HeadEnd) /\ Has(text, BodyEnd)
            /\ s = Through(Insert(text, Min(Places(text, BodyEnd)), q))
  <2>1. AtBody \in Injections(page, q)
    BY <1>2, <1>5, <1>6, <1>7, <1>15
  <2>2. Blurred(Around(x, s.out, r)) = Blurred(AtBody)
    BY <1>6, <1>8, <1>15
  <2> HIDE DEF AtBody
  <2> QED
    BY <2>1, <2>2 DEF s, page, Injected
<1> QED
  BY <1>10, <1>11, <1>12, <1>13, <1>14, <1>15

\* What the injector passes on has the scripts in at most one place.
LEMMA InsertDelivers ==
    ASSUME NEW text \in Seq(OriginAtoms), NEW p \in 1..Len(text) + 1, NEW q \in Requests
    PROVE  Delivery(Encoded(Insert(text, p, q)), q)
<1> DEFINE u == SubSeq(text, 1, p - 1)
           v == SubSeq(text, p, Len(text))
<1>1. u \in Seq(OriginAtoms) /\ v \in Seq(OriginAtoms) /\ Insert(text, p, q) = Around(u, Tag(q), v)
  BY ScriptsAt
<1> HIDE DEF u, v
<1>2. Delivery(Encoded(Around(u, Tag(q), v)), q)
  BY <1>1, EncodedTag
<1> QED
  BY <1>1, <1>2

LEMMA InjectDelivers ==
    ASSUME NEW tail \in Seq(OriginAtoms), NEW c \in Seq(OriginAtoms), NEW q \in Requests
    PROVE  LET s == Inject(tail, c, q)
           IN  /\ Delivery(s.out, q) /\ s.done \in BOOLEAN
               /\ s.tail \in Seq(OriginAtoms) /\ Len(s.tail) =< TailSize
               /\ s.done => s.tail = <<>>
<1> DEFINE text == tail \o Decoded(c)
           s == Inject(tail, c, q)
<1>1. text \in Seq(OriginAtoms) /\ text \in Seq(Atoms)
  BY TextIs
<1>2. \/ s = Through(text)
      \/ \E d \in Needles : Has(text, d) /\ s = Through(Insert(text, Min(Places(text, d)), q))
      \/ s = Held(text)
  BY InjectIs DEF Needles
<1> HIDE DEF text
<1>3. ASSUME NEW t, Delivery(Encoded(t), q), s = Through(t)
      PROVE  /\ Delivery(s.out, q) /\ s.done = TRUE
             /\ s.tail \in Seq(OriginAtoms) /\ Len(s.tail) =< TailSize /\ s.tail = <<>>
  <2>1. s.out = Encoded(t) /\ s.done = TRUE /\ s.tail = <<>>
    BY <1>3 DEF Through
  <2>2. <<>> \in Seq(OriginAtoms) /\ Len(<<>>) =< TailSize
    BY SizeAssumption
  <2> HIDE DEF s
  <2> QED
    BY <1>3, <2>1, <2>2
<1>4. CASE s = Through(text)
  <2>1. Encoded(text) \in Seq(OriginAtoms)
    BY <1>1, CodedOrigin DEF Encoded
  <2>2. Delivery(Encoded(text), q)
    BY <2>1 DEF Delivery
  <2> HIDE DEF s
  <2> QED
    BY <1>3, <1>4, <2>2 DEF s
<1>5. CASE \E d \in Needles : Has(text, d) /\ s = Through(Insert(text, Min(Places(text, d)), q))
  <2>1. PICK d \in Needles : Has(text, d) /\ s = Through(Insert(text, Min(Places(text, d)), q))
    BY <1>5
  <2> DEFINE p == Min(Places(text, d))
  <2>2. p \in 1..Len(text) + 1
    BY <1>1, <2>1, FirstFound
  <2> HIDE DEF p
  <2>3. Delivery(Encoded(Insert(text, p, q)), q)
    BY <1>1, <2>2, InsertDelivers
  <2>4. s = Through(Insert(text, p, q))
    BY <2>1 DEF p
  <2> HIDE DEF s
  <2> QED
    BY <1>3, <2>3, <2>4 DEF s
<1>6. CASE s = Held(text)
  <2>1. /\ s.done = FALSE /\ s.out \in Seq(OriginAtoms) /\ s.tail \in Seq(OriginAtoms)
        /\ Len(s.tail) =< TailSize
    BY <1>1, <1>6, HeldIs
  <2> HIDE DEF s
  <2> QED
    BY <2>1 DEF Delivery, s
<1> QED
  BY <1>2, <1>4, <1>5, <1>6

\* The scripts alone, at the end of a body in which no place was found.
LEMMA LastDelivers ==
    ASSUME NEW tail \in Seq(OriginAtoms), NEW q \in Requests
    PROVE  Delivery(Encoded(tail) \o Tag(q), q)
<1> DEFINE u == Encoded(tail)
           t == Tag(q)
<1>1. u \in Seq(OriginAtoms)
  BY CodedOrigin DEF Encoded
<1>2. t \in Seq(Atoms)
  BY TagIs
<1> HIDE DEF u, t
<1>3. t \o <<>> = t
  BY <1>2, ConcatEmptySeq
<1>4. <<>> \in Seq(OriginAtoms) /\ u \o t = u \o (t \o <<>>)
  BY <1>3
<1> QED
  BY <1>1, <1>4 DEF Delivery, u, t

-----------------------------------------------------------------------------
\* Every way to inject leaves the page alone or puts the scripts in one place, and
\* does so for every request.
LEMMA InjectionPlaced ==
    ASSUME config \in Configs, NEW page \in Seq(Atoms), NEW q, NEW P \in Injections(page, q), NEW m
    PROVE  \/ P = page /\ page \in Injections(page, m)
           \/ P = page \o Tag(q) /\ page \o Tag(m) \in Injections(page, m)
           \/ \E p \in 1..Len(page) + 1 :
                 P = Insert(page, p, q) /\ Insert(page, p, m) \in Injections(page, m)
<1> DEFINE part(x) == SubSeq(page, 1, x)
           Decisive(x) == \E d \in Needles : Has(part(x), d)
           Of(x, n) == CASE Has(part(x), Mark) -> page
                         [] ~Has(part(x), Mark) /\ Has(part(x), HeadEnd) ->
                               Insert(page, Min(Places(part(x), HeadEnd)), n)
                         [] OTHER -> Insert(page, Min(Places(part(x), BodyEnd)), n)
           cuts == {x \in 1..Len(page) : Decisive(x)}
<1>0. config.bootstrapper \in BOOLEAN
  BY ConfigAssumption
<1>1. ASSUME NEW n
      PROVE  /\ ~config.bootstrapper => Injections(page, n) = {page}
             /\ config.bootstrapper /\ cuts = {} => Injections(page, n) = {page \o Tag(n)}
             /\ config.bootstrapper /\ cuts # {} => Injections(page, n) = {Of(x, n) : x \in cuts}
  BY <1>0 DEF Injections, Needles
<1>2. CASE ~config.bootstrapper
  <2> HIDE DEF cuts, Of
  <2> QED
    BY <1>1, <1>2
<1>3. CASE config.bootstrapper /\ cuts = {}
  <2> HIDE DEF cuts, Of
  <2> QED
    BY <1>1, <1>3
<1>4. CASE config.bootstrapper /\ cuts # {}
  <2>1. PICK x \in cuts : P = Of(x, q)
    <3> HIDE DEF cuts, Of
    <3> QED
      BY <1>1, <1>4
  <2>2. Of(x, m) \in Injections(page, m)
    <3> HIDE DEF cuts, Of
    <3> QED
      BY <1>1, <1>4
  <2>3. x \in 1..Len(page) /\ \E d \in Needles : Has(part(x), d)
    OBVIOUS
  <2>4. ASSUME NEW d \in Needles, Has(part(x), d)
        PROVE  Min(Places(part(x), d)) \in 1..Len(page) + 1
    <3>1. part(x) \in Seq(Atoms) /\ Len(part(x)) = x
      <4>1. x \in 0..Len(page)
        BY <2>3
      <4> QED
        BY <4>1, Parted
    <3> DEFINE s == part(x)
    <3>2. s \in Seq(Atoms) /\ Len(s) = x /\ Has(s, d)
      BY <2>4, <3>1
    <3> HIDE DEF s
    <3>3. Min(Places(s, d)) \in 1..Len(s) + 1
      BY <3>2, FirstFound
    <3> DEFINE k == Min(Places(s, d))
    <3> HIDE DEF k
    <3>4. k \in 1..Len(page) + 1
      <4>1. k \in 1..x + 1 /\ Len(page) \in Nat
        BY <3>2, <3>3, LenProperties DEF k
      <4> QED
        BY <2>3, <4>1
    <3> QED
      BY <3>4 DEF k, s
  <2> HIDE DEF part
  <2>5. \/ Has(part(x), Mark) /\ \A n : Of(x, n) = page
        \/ /\ Has(part(x), HeadEnd)
           /\ \A n : Of(x, n) = Insert(page, Min(Places(part(x), HeadEnd)), n)
        \/ /\ Has(part(x), BodyEnd)
           /\ \A n : Of(x, n) = Insert(page, Min(Places(part(x), BodyEnd)), n)
    <3>1. CASE Has(part(x), Mark)
      BY <3>1
    <3>2. CASE ~Has(part(x), Mark) /\ Has(part(x), HeadEnd)
      BY <3>2
    <3>3. CASE ~Has(part(x), Mark) /\ ~Has(part(x), HeadEnd)
      <4>1. Has(part(x), BodyEnd)
        BY <2>3, <3>3 DEF Needles
      <4> QED
        BY <3>3, <4>1
    <3> QED
      BY <3>1, <3>2, <3>3
  <2> HIDE DEF Of, Has, cuts
  <2>6. HeadEnd \in Needles /\ BodyEnd \in Needles
    BY DEF Needles
  <2> DEFINE h == Min(Places(part(x), HeadEnd))
             b == Min(Places(part(x), BodyEnd))
  <2>7. CASE Has(part(x), Mark) /\ \A n : Of(x, n) = page
    BY <2>1, <2>2, <2>7
  <2>8. CASE Has(part(x), HeadEnd) /\ \A n : Of(x, n) = Insert(page, h, n)
    <3>1. h \in 1..Len(page) + 1
      BY <2>4, <2>6, <2>8
    <3>2. P = Insert(page, h, q) /\ Insert(page, h, m) \in Injections(page, m)
      BY <2>1, <2>2, <2>8
    <3> HIDE DEF h
    <3> QED
      BY <3>1, <3>2
  <2>9. CASE Has(part(x), BodyEnd) /\ \A n : Of(x, n) = Insert(page, b, n)
    <3>1. b \in 1..Len(page) + 1
      BY <2>4, <2>6, <2>9
    <3>2. P = Insert(page, b, q) /\ Insert(page, b, m) \in Injections(page, m)
      BY <2>1, <2>2, <2>9
    <3> HIDE DEF b
    <3> QED
      BY <3>1, <3>2
  <2> QED
    BY <2>5, <2>7, <2>8, <2>9
<1> QED
  BY <1>0, <1>2, <1>3, <1>4

\* The requests differ in the GPC flag only, which is a blur.
LEMMA InjectionsAlike ==
    ASSUME config \in Configs, NEW page \in Seq(Atoms), NEW q \in Requests, NEW m \in Requests,
           NEW P \in Injections(page, q)
    PROVE  P \in Seq(Atoms) /\ \E R \in Injections(page, m) : R \in Seq(Atoms) /\ Blurred(R) = Blurred(P)
<1>1. CASE P = page /\ page \in Injections(page, m)
  BY <1>1
<1>2. CASE P = page \o Tag(q) /\ page \o Tag(m) \in Injections(page, m)
  <2> DEFINE a == Tag(q)
             b == Tag(m)
             R == page \o b
  <2>1. a \in Seq(Atoms) /\ b \in Seq(Atoms) /\ Blurred(a) = Blurred(b)
    BY TagIs, TagBlurred
  <2>2. P = page \o a
    BY <1>2
  <2>3. R \in Injections(page, m)
    BY <1>2
  <2> HIDE DEF a, b
  <2>4. P \in Seq(Atoms) /\ R \in Seq(Atoms)
    BY <2>1, <2>2, AtomsAssociate
  <2>5. Blurred(page \o a) = Blurred(page) \o Blurred(a)
    BY <2>1, BlurredConcat
  <2>6. Blurred(page \o b) = Blurred(page) \o Blurred(b)
    BY <2>1, BlurredConcat
  <2>7. Blurred(R) = Blurred(P)
    BY <2>1, <2>2, <2>5, <2>6
  <2> HIDE DEF R
  <2> QED
    BY <2>3, <2>4, <2>7
<1>3. CASE \E p \in 1..Len(page) + 1 :
              P = Insert(page, p, q) /\ Insert(page, p, m) \in Injections(page, m)
  <2>1. PICK p \in 1..Len(page) + 1 :
                P = Insert(page, p, q) /\ Insert(page, p, m) \in Injections(page, m)
    BY <1>3
  <2> DEFINE R == Insert(page, p, m)
  <2>2. Blurred(R) = Blurred(Insert(page, p, q))
    BY InsertBlurred
  <2>3. Insert(page, p, q) \in Seq(Atoms)
    BY InsertWithin
  <2>4. R \in Seq(Atoms)
    BY InsertWithin
  <2>5. R \in Injections(page, m)
    BY <2>1
  <2> HIDE DEF R
  <2> QED
    BY <2>1, <2>2, <2>3, <2>4, <2>5
<1> QED
  BY <1>1, <1>2, <1>3, InjectionPlaced

\* A way to inject is a page with the scripts in at most one place.
LEMMA InjectionIs ==
    ASSUME config \in Configs, NEW page \in Seq(OriginAtoms), NEW q \in Requests,
           NEW P \in Injections(page, q)
    PROVE  \/ P = page
           \/ \E u, v \in Seq(OriginAtoms) : page = u \o v /\ P = Around(u, Tag(q), v)
<1>0. page \in Seq(Atoms)
  BY OriginIs
<1>1. CASE P = page \o Tag(q)
  <2> DEFINE u == page \o Tag(q)
             v == <<>>
  <2>1. page \o <<>> = page /\ <<>> \in Seq(OriginAtoms)
    BY ConcatEmptySeq
  <2>2. u \in Seq(Atoms)
    BY <1>0, TagIs, AtomsAssociate
  <2>3. Around(page, Tag(q), <<>>) = u \o <<>>
    BY DEF Around
  <2> HIDE DEF u
  <2>4. u \o <<>> = u
    BY <2>2, ConcatEmptySeq
  <2>5. P = Around(page, Tag(q), <<>>)
    BY <1>1, <2>3, <2>4 DEF u
  <2> QED
    BY <2>1, <2>5
<1>2. CASE \E p \in 1..Len(page) + 1 : P = Insert(page, p, q)
  <2>1. PICK p \in 1..Len(page) + 1 : P = Insert(page, p, q)
    BY <1>2
  <2> DEFINE u == SubSeq(page, 1, p - 1)
             v == SubSeq(page, p, Len(page))
  <2>2. /\ u \in Seq(OriginAtoms) /\ v \in Seq(OriginAtoms)
        /\ page = u \o v /\ Insert(page, p, q) = Around(u, Tag(q), v)
    BY ScriptsAt
  <2> HIDE DEF u, v
  <2> QED
    BY <2>1, <2>2
<1> QED
  BY <1>0, <1>1, <1>2, InjectionPlaced

-----------------------------------------------------------------------------
\* How far the injector is with a page: it has passed on x of it.
Entered(page, q, rest, tail, done, x) ==
    IF done
    THEN Injected(page, q, x \o rest)
    ELSE config.bootstrapper = TRUE /\ \E y : page = y \o rest /\ Sees(x, tail, y)

LEMMA EnteredFirst ==
    ASSUME config \in Configs, NEW page \in Seq(OriginAtoms), NEW q
    PROVE  Entered(page, q, page, <<>>, ~config.bootstrapper, <<>>)
<1>0. config.bootstrapper \in BOOLEAN /\ page \in Seq(Atoms)
  BY ConfigAssumption, OriginIs
<1>1. <<>> \o page = page /\ <<>> \o <<>> = <<>> /\ <<>> \in Seq(OriginAtoms) /\ <<>> \in Seq(Atoms)
  BY <1>0, ConcatEmptySeq
<1>2. CASE config.bootstrapper = FALSE
  <2>1. page \in Injections(page, q)
    BY <1>2 DEF Injections
  <2> QED
    BY <1>1, <1>2, <2>1 DEF Entered, Injected
<1>3. CASE config.bootstrapper = TRUE
  <2>1. ASSUME NEW d \in Needles PROVE Places(<<>>, d) = {}
    <3>1. Len(d) \in 2..TailSize + 1 /\ Len(<<>>) = 0
      BY NeedlesAre
    <3>2. /\ Places(<<>>, d) \subseteq Nat \ {0}
          /\ \A i \in Nat \ {0} : i \in Places(<<>>, d) => i + Len(d) - 1 =< Len(<<>>)
      BY <1>1, PlacesAre
    <3> QED
      BY <3>1, <3>2
  <2>2. Sees(<<>>, <<>>, <<>>)
    BY <1>1, <2>1 DEF Sees
  <2> QED
    BY <1>1, <1>3, <2>2 DEF Entered
<1> QED
  BY <1>0, <1>2, <1>3

\* The next n atoms through the injector, as Chunk takes them.
Stepped(rest, tail, done, n, q) ==
    IF done THEN [out |-> Decoded(SubSeq(rest, 1, n)), tail |-> <<>>, done |-> TRUE]
    ELSE Inject(tail, SubSeq(rest, 1, n), q)

LEMMA EnteredStep ==
    ASSUME NEW page, NEW q \in Requests, NEW rest \in Seq(OriginAtoms), NEW tail, NEW done \in BOOLEAN,
           NEW x \in Seq(Atoms), Entered(page, q, rest, tail, done, x), NEW n \in 1..Len(rest)
    PROVE  LET left == SubSeq(rest, n + 1, Len(rest))
               step == Stepped(rest, tail, done, n, q)
           IN  /\ Entered(page, q, left, step.tail, step.done, x \o step.out)
               /\ left \in Seq(OriginAtoms) /\ step.tail \in Seq(OriginAtoms)
               /\ Len(step.tail) =< TailSize /\ (step.done => step.tail = <<>>)
               /\ step.done \in BOOLEAN /\ Delivery(step.out, q)
<1> USE DEF Stepped
<1> DEFINE c == SubSeq(rest, 1, n)
           r == SubSeq(rest, n + 1, Len(rest))
<1>1. c \in Seq(OriginAtoms) /\ r \in Seq(OriginAtoms) /\ rest = c \o r
  <2>1. n \in 0..Len(rest)
    OBVIOUS
  <2> QED
    BY <2>1, Parted
<1> HIDE DEF c, r
<1>2. c \in Seq(Atoms) /\ r \in Seq(Atoms) /\ rest \in Seq(Atoms)
  BY <1>1, OriginIs
<1>3. CASE done
  <2> DEFINE d == Decoded(c)
             xd == x \o d
             step == [out |-> d, tail |-> <<>>, done |-> TRUE]
  <2>1. d \in Seq(OriginAtoms) /\ d \in Seq(Atoms) /\ Blurred(d) = Blurred(c)
    BY <1>1, CodedOrigin, CodedIs, OriginIs DEF Decoded
  <2>2. PICK P \in Injections(page, q) : Blurred(x \o rest) = Blurred(P)
    BY <1>3 DEF Entered, Injected
  <2> HIDE DEF d
  <2>3. Blurred(xd \o r) = Blurred(x \o rest)
    <3> DEFINE xc == x \o c
    <3>1. xd \in Seq(Atoms) /\ xc \in Seq(Atoms)
      BY <1>2, <2>1, AtomsAssociate
    <3>2. x \o rest = xc \o r
      BY <1>1, <1>2
    <3>3. Blurred(x \o d) = Blurred(x) \o Blurred(d)
      BY <2>1, BlurredConcat
    <3>4. Blurred(x \o c) = Blurred(x) \o Blurred(c)
      BY <1>2, BlurredConcat
    <3>5. Blurred(xd) = Blurred(xc)
      BY <2>1, <3>3, <3>4
    <3> HIDE DEF xd, xc
    <3>6. Blurred(xd \o r) = Blurred(xd) \o Blurred(r)
      BY <1>2, <3>1, BlurredConcat
    <3>7. Blurred(xc \o r) = Blurred(xc) \o Blurred(r)
      BY <1>2, <3>1, BlurredConcat
    <3> QED
      BY <3>2, <3>5, <3>6, <3>7
  <2> HIDE DEF xd
  <2>4. Blurred(xd \o r) = Blurred(P)
    BY <2>2, <2>3
  <2>5. Entered(page, q, r, <<>>, TRUE, xd)
    BY <2>2, <2>4 DEF Entered, Injected
  <2>6. /\ <<>> \in Seq(OriginAtoms) /\ Len(<<>>) =< TailSize /\ Delivery(d, q)
    BY <2>1, SizeAssumption DEF Delivery
  <2>7. /\ Entered(page, q, r, step.tail, step.done, x \o step.out)
        /\ r \in Seq(OriginAtoms) /\ step.tail \in Seq(OriginAtoms)
        /\ Len(step.tail) =< TailSize /\ (step.done => step.tail = <<>>)
        /\ step.done \in BOOLEAN /\ Delivery(step.out, q)
    BY <1>1, <2>5, <2>6 DEF xd
  <2> QED
    BY <1>3, <2>7 DEF d, c, r
<1>4. CASE ~done
  <2> DEFINE step == Inject(tail, c, q)
  <2>1. PICK y : page = y \o rest /\ Sees(x, tail, y)
    BY <1>4 DEF Entered
  <2>2. config.bootstrapper = TRUE
    BY <1>4 DEF Entered
  <2>3. tail \in Seq(OriginAtoms) /\ y \in Seq(OriginAtoms) /\ y \in Seq(Atoms)
    BY <2>1, OriginIs DEF Sees
  <2>4. /\ Delivery(step.out, q) /\ step.done \in BOOLEAN
        /\ step.tail \in Seq(OriginAtoms) /\ Len(step.tail) =< TailSize
        /\ step.done => step.tail = <<>>
    BY <1>1, <2>3, InjectDelivers
  <2> DEFINE yc == y \o c
             xo == x \o step.out
  <2>5. page = yc \o r /\ page = Around(y, c, r)
    <3>1. (y \o c) \o r = y \o (c \o r)
      BY <1>2, <2>3
    <3>2. page = y \o (c \o r)
      BY <1>1, <2>1
    <3> QED
      BY <3>1, <3>2 DEF Around
  <2>6. ASSUME step.done = FALSE
        PROVE  Entered(page, q, r, step.tail, step.done, xo)
    <3>1. Sees(xo, step.tail, yc)
      BY <1>1, <2>1, <2>6, InjectHolds
    <3> HIDE DEF yc, step, xo
    <3>2. \E z : page = z \o r /\ Sees(xo, step.tail, z)
      BY <2>5, <3>1
    <3> QED
      BY <2>2, <2>6, <3>2 DEF Entered
  <2>7. ASSUME step.done = TRUE
        PROVE  Entered(page, q, r, step.tail, step.done, xo)
    <3>0. Inject(tail, c, q).done # FALSE /\ Sees(x, tail, y)
      BY <2>1, <2>7
    <3>4. c \in Seq(OriginAtoms) /\ r \in Seq(OriginAtoms)
      BY <1>1
    <3>1. Injected(Around(y, c, r), q, Around(x, step.out, r))
      BY <2>2, <3>0, <3>4, InjectEnds
    <3>2. Around(x, step.out, r) = xo \o r
      BY DEF Around
    <3> HIDE DEF xo, step
    <3>3. Injected(page, q, xo \o r)
      BY <2>5, <3>1, <3>2
    <3> QED
      BY <2>7, <3>3 DEF Entered
  <2>8. Entered(page, q, r, step.tail, step.done, x \o step.out)
    <3> HIDE DEF step
    <3> QED
      BY <2>4, <2>6, <2>7
  <2> HIDE DEF step
  <2> QED
    BY <1>1, <1>4, <2>4, <2>8 DEF step, c, r
<1> QED
  BY <1>3, <1>4

LEMMA EnteredLast ==
    ASSUME NEW page \in Seq(OriginAtoms), NEW q \in Requests, NEW tail \in Seq(OriginAtoms),
           NEW done \in BOOLEAN, NEW x \in Seq(Atoms), Entered(page, q, <<>>, tail, done, x)
    PROVE  LET last == IF done THEN <<>> ELSE Encoded(tail) \o Tag(q)
           IN  /\ Delivery(last, q)
               /\ Injected(page, q, x \o last)
<1>1. CASE done
  <2>1. Injected(page, q, x \o <<>>)
    BY <1>1 DEF Entered
  <2>2. Delivery(<<>>, q)
    BY DEF Delivery
  <2> QED
    BY <1>1, <2>1, <2>2
<1>2. CASE ~done
  <2> DEFINE e == Encoded(tail)
             t == Tag(q)
             last == e \o t
             xt == x \o tail
             xe == x \o e
  <2>1. PICK y : page = y \o <<>> /\ Sees(x, tail, y)
    BY <1>2 DEF Entered
  <2>2. y \in Seq(Atoms) /\ tail \in Seq(Atoms) /\ page \in Seq(Atoms)
    BY <2>1, OriginIs DEF Sees
  <2>3. page = y
    BY <2>1, <2>2, ConcatEmptySeq
  <2>4. e \in Seq(Atoms) /\ Blurred(e) = Blurred(tail) /\ t \in Seq(Atoms)
    BY <2>2, CodedIs, TagIs DEF Encoded
  <2>5. Delivery(last, q)
    BY LastDelivers
  <2>6. Injections(page, q) = {page \o t}
    <3>1. config.bootstrapper = TRUE
      BY <1>2 DEF Entered
    <3>2. \A d \in Needles : Places(page, d) = {}
      BY <2>1, <2>3 DEF Sees
    <3> QED
      BY <2>2, <3>1, <3>2, NothingToFind
  <2>7. Blurred(xt) = Blurred(page) /\ xt \in Seq(Atoms)
    BY <2>1, <2>2, <2>3, AtomsAssociate DEF Sees
  <2>8. Blurred(x \o last) = Blurred(page \o t)
    <3> HIDE DEF e, t
    <3>1. xe \in Seq(Atoms) /\ x \o last = xe \o t
      BY <2>4, AtomsAssociate
    <3>2. Blurred(x \o e) = Blurred(x) \o Blurred(e)
      BY <2>4, BlurredConcat
    <3>3. Blurred(x \o tail) = Blurred(x) \o Blurred(tail)
      BY <2>2, BlurredConcat
    <3>4. Blurred(xe) = Blurred(page)
      BY <2>4, <2>7, <3>2, <3>3
    <3> HIDE DEF xe, last, xt
    <3>5. Blurred(xe \o t) = Blurred(xe) \o Blurred(t)
      BY <2>4, <3>1, BlurredConcat
    <3>6. Blurred(page \o t) = Blurred(page) \o Blurred(t)
      BY <2>2, <2>4, BlurredConcat
    <3> QED
      BY <3>1, <3>4, <3>5, <3>6
  <2> HIDE DEF last, t
  <2>9. Injected(page, q, x \o last)
    BY <2>6, <2>8 DEF Injected
  <2> QED
    BY <1>2, <2>5, <2>9 DEF last, e, t
<1> QED
  BY <1>1, <1>2

-----------------------------------------------------------------------------
\* What leaves the blocker of a page that is sent for q, before any nonce.
SentAtoms(q) == Fed(q) \cup ({"blocked", "frame"} \X Stopped)

LEMMA SentIs ==
    ASSUME NEW q \in Requests
    PROVE  /\ Passed(Fed(q)) \subseteq SentAtoms(q) /\ OriginAtoms \subseteq SentAtoms(q)
           /\ SentAtoms(q) \subseteq Atoms
           /\ Seq(OriginAtoms) \subseteq Seq(SentAtoms(q))
           /\ Seq(Passed(Fed(q))) \subseteq Seq(SentAtoms(q))
           /\ Seq(SentAtoms(q)) \subseteq Seq(Atoms)
<1>1. Passed(Fed(q)) \subseteq SentAtoms(q)
  BY DEF Passed, SentAtoms
<1>2. OriginAtoms \subseteq SentAtoms(q)
  BY DEF Fed, SentAtoms
<1>3. SentAtoms(q) \subseteq Atoms
  <2>1. Fed(q) \subseteq Atoms
    BY FedIs DEF Sendable
  <2>2. Stopped \subseteq Nat
    BY ElementsAre DEF Stopped
  <2>3. "blocked" \in Kinds /\ "frame" \in Kinds
    BY DEF Kinds
  <2>4. {"blocked", "frame"} \X Stopped \subseteq Atoms
    BY <2>2, <2>3 DEF Atoms
  <2> QED
    BY <2>1, <2>4 DEF SentAtoms
<1>4. \A A, B : A \subseteq B => Seq(A) \subseteq Seq(B)
  OBVIOUS
<1> QED
  BY <1>1, <1>2, <1>3, <1>4

\* A body as it is sent, with q's scripts in it unless it is raw.
Shown(page, q, raw, s) ==
    /\ s \in Seq(SentAtoms(q)) /\ Whole(s)
    /\ IF raw THEN s = page
       ELSE \E P \in Injections(page, q) : Blurred(s) = Blurred(Block(0, P).out)

\* What has been sent of a page that is passing through.
Passing(page, q, raw, s, sent) ==
    /\ sent \in Seq(SentAtoms(q)) /\ Whole(sent)
    /\ IF raw THEN page = sent \o s.rest
       ELSE \E x \in Seq(Fed(q)) : /\ s.open = Block(0, x).open /\ sent = Block(0, x).out
                                   /\ Entered(page, q, s.rest, s.tail, s.done, x)

LEMMA PassingRaw ==
    ASSUME NEW page \in Seq(OriginAtoms), NEW q \in Requests, NEW s, NEW sent,
           s.rest \in Seq(OriginAtoms), Passing(page, q, TRUE, s, sent), NEW n \in 1..Len(s.rest),
           NEW z, z.rest = SubSeq(s.rest, n + 1, Len(s.rest))
    PROVE  LET chunk == SubSeq(s.rest, 1, n)
           IN  /\ Passing(page, q, TRUE, z, sent \o chunk)
               /\ chunk \in Seq(Atoms) /\ Whole(chunk) /\ z.rest \in Seq(OriginAtoms)
<1> DEFINE c == SubSeq(s.rest, 1, n)
           r == SubSeq(s.rest, n + 1, Len(s.rest))
           sc == sent \o c
<1>1. c \in Seq(OriginAtoms) /\ r \in Seq(OriginAtoms) /\ s.rest = c \o r
  <2>1. n \in 0..Len(s.rest)
    OBVIOUS
  <2> QED
    BY <2>1, Parted
<1>2. z.rest = r
  OBVIOUS
<1>3. sent \in Seq(SentAtoms(q)) /\ Whole(sent) /\ page = sent \o s.rest
  BY DEF Passing
<1> HIDE DEF c, r
<1>4. c \in Seq(Atoms) /\ r \in Seq(Atoms) /\ c \in Seq(SentAtoms(q)) /\ sent \in Seq(Atoms)
  BY <1>1, <1>3, OriginIs, SentIs
<1>5. Whole(c)
  <2>1. \A i \in 1..Len(c) : c[i] \in OriginAtoms
    BY <1>1, ElementOfSeq
  <2>2. Tokenless(c)
    BY <2>1, OriginIs DEF Tokenless
  <2> QED
    BY <2>2, WholePieces
<1>6. sc \in Seq(SentAtoms(q))
  BY <1>3, <1>4, ConcatProperties
<1>7. Whole(sc)
  BY <1>3, <1>4, <1>5, WholeConcat
<1>8. page = sc \o r
  <2>1. (sent \o c) \o r = sent \o (c \o r)
    BY <1>4
  <2>2. page = sent \o (c \o r)
    BY <1>1, <1>3
  <2> QED
    BY <2>1, <2>2
<1> HIDE DEF sc
<1>9. Passing(page, q, TRUE, z, sc)
  BY <1>2, <1>6, <1>7, <1>8 DEF Passing
<1> QED
  BY <1>1, <1>2, <1>4, <1>5, <1>9 DEF c, sc

\* What the blocker makes of what the injector has passed on.
LEMMA BlockStep ==
    ASSUME NEW q \in Requests, NEW x \in Seq(Fed(q)), NEW d, Delivery(d, q), NEW open \in Openable,
           open = Block(0, x).open, Block(0, x).out \in Seq(SentAtoms(q)), Whole(Block(0, x).out)
    PROVE  /\ x \o d \in Seq(Fed(q))
           /\ Block(open, d).open = Block(0, x \o d).open
           /\ Block(0, x).out \o Block(open, d).out = Block(0, x \o d).out
           /\ Block(open, d).open \in Openable
           /\ Block(open, d).out \in Seq(Atoms) /\ Whole(Block(open, d).out)
           /\ Block(0, x \o d).out \in Seq(SentAtoms(q)) /\ Whole(Block(0, x \o d).out)
<1> DEFINE b == Block(open, d).out
           a == Block(0, x).out
           xd == x \o d
           ab == a \o b
<1>1. /\ d \in Seq(Fed(q)) /\ d \in Seq(Atoms) /\ Block(open, d).open \in Openable
      /\ b \in Seq(Passed(Fed(q))) /\ b \in Seq(Atoms) /\ Whole(b)
  BY DeliveryPasses
<1>2. xd \in Seq(Fed(q)) /\ x \in Seq(Atoms)
  BY <1>1, FedIs, ConcatProperties
<1>3. /\ Block(0, xd).open = Block(Block(0, x).open, d).open
      /\ Block(0, xd).out = Block(0, x).out \o Block(Block(0, x).open, d).out
  BY <1>1, <1>2, BlockJoined
<1>4. b \in Seq(SentAtoms(q)) /\ a \in Seq(SentAtoms(q)) /\ a \in Seq(Atoms) /\ Whole(a)
  BY <1>1, SentIs
<1>5. open = Block(0, x).open
  OBVIOUS
<1> HIDE DEF xd
<1>6. Block(0, xd).open = Block(open, d).open /\ Block(0, xd).out = ab
  BY <1>3, <1>5
<1> HIDE DEF a, b
<1>7. ab \in Seq(SentAtoms(q)) /\ Whole(ab)
  <2>1. ab \in Seq(SentAtoms(q))
    BY <1>4, ConcatProperties
  <2>2. Whole(ab)
    BY <1>1, <1>4, WholeConcat
  <2> QED
    BY <2>1, <2>2
<1> QED
  BY <1>1, <1>2, <1>6, <1>7 DEF a, b, xd

LEMMA PassingStep ==
    ASSUME NEW page, NEW q \in Requests, NEW s, NEW sent, s.rest \in Seq(OriginAtoms),
           s.done \in BOOLEAN, s.open \in Openable,
           Passing(page, q, FALSE, s, sent), NEW n \in 1..Len(s.rest), NEW z,
           z.rest = SubSeq(s.rest, n + 1, Len(s.rest)),
           z.tail = Stepped(s.rest, s.tail, s.done, n, q).tail,
           z.done = Stepped(s.rest, s.tail, s.done, n, q).done,
           z.open = Block(s.open, Stepped(s.rest, s.tail, s.done, n, q).out).open
    PROVE  LET b == Block(s.open, Stepped(s.rest, s.tail, s.done, n, q).out)
           IN
           /\ Passing(page, q, FALSE, z, sent \o b.out)
           /\ b.out \in Seq(Atoms) /\ Whole(b.out)
           /\ z.rest \in Seq(OriginAtoms) /\ z.tail \in Seq(OriginAtoms) /\ z.done \in BOOLEAN
           /\ z.open \in Openable
           /\ Len(z.tail) =< TailSize /\ (z.done => z.tail = <<>>)
<1>1. sent \in Seq(SentAtoms(q)) /\ Whole(sent)
  BY DEF Passing
<1>2. PICK x \in Seq(Fed(q)) : /\ s.open = Block(0, x).open /\ sent = Block(0, x).out
                               /\ Entered(page, q, s.rest, s.tail, s.done, x)
  BY DEF Passing
<1>3. x \in Seq(Atoms)
  BY FedIs
<1> DEFINE step == Stepped(s.rest, s.tail, s.done, n, q)
           d == step.out
           xd == x \o d
           b == Block(s.open, d).out
           left == SubSeq(s.rest, n + 1, Len(s.rest))
<1>4. /\ Entered(page, q, left, step.tail, step.done, xd)
      /\ left \in Seq(OriginAtoms) /\ step.tail \in Seq(OriginAtoms)
      /\ Len(step.tail) =< TailSize /\ (step.done => step.tail = <<>>)
      /\ step.done \in BOOLEAN /\ Delivery(d, q)
  <2> HIDE DEF step
  <2> DEFINE rest == s.rest
             tail == s.tail
             done == s.done
             st == Stepped(rest, tail, done, n, q)
  <2>1. step = st
    BY DEF step
  <2>2. /\ rest \in Seq(OriginAtoms) /\ done \in BOOLEAN /\ Entered(page, q, rest, tail, done, x)
        /\ n \in 1..Len(rest) /\ left = SubSeq(rest, n + 1, Len(rest))
    BY <1>2
  <2> HIDE DEF rest, tail, done, left, d, xd
  <2>3. /\ Entered(page, q, SubSeq(rest, n + 1, Len(rest)), st.tail, st.done, x \o st.out)
        /\ SubSeq(rest, n + 1, Len(rest)) \in Seq(OriginAtoms) /\ st.tail \in Seq(OriginAtoms)
        /\ Len(st.tail) =< TailSize /\ (st.done => st.tail = <<>>)
        /\ st.done \in BOOLEAN /\ Delivery(st.out, q)
    BY <1>3, <2>2, EnteredStep
  <2> HIDE DEF st
  <2> QED
    BY <2>1, <2>2, <2>3 DEF d, xd
<1>5. /\ z.rest = left /\ z.tail = step.tail /\ z.done = step.done /\ z.open = Block(s.open, d).open
      /\ s.open \in Openable
  OBVIOUS
<1> HIDE DEF left, d, step
<1>6. /\ xd \in Seq(Fed(q)) /\ Block(s.open, d).open = Block(0, xd).open
      /\ Block(0, x).out \o b = Block(0, xd).out
      /\ Block(s.open, d).open \in Openable
      /\ b \in Seq(Atoms) /\ Whole(b)
      /\ Block(0, xd).out \in Seq(SentAtoms(q)) /\ Whole(Block(0, xd).out)
  BY <1>1, <1>2, <1>4, <1>5, BlockStep
<1> HIDE DEF xd, b
<1>7. Passing(page, q, FALSE, z, sent \o b)
  <2> DEFINE sb == sent \o b
  <2>1. sb = Block(0, xd).out
    BY <1>2, <1>6
  <2> HIDE DEF sb
  <2>2. sb \in Seq(SentAtoms(q)) /\ Whole(sb)
    BY <1>6, <2>1
  <2>3. /\ xd \in Seq(Fed(q)) /\ z.open = Block(0, xd).open /\ sb = Block(0, xd).out
        /\ Entered(page, q, z.rest, z.tail, z.done, xd)
    BY <1>4, <1>5, <1>6, <2>1
  <2>4. Passing(page, q, FALSE, z, sb)
    BY <2>2, <2>3 DEF Passing
  <2> QED
    BY <2>4 DEF sb
<1> QED
  BY <1>4, <1>5, <1>6, <1>7 DEF b, d, step

\* The end of a body completes what has been sent.
LEMMA PassingLast ==
    ASSUME config \in Configs, NEW page \in Seq(OriginAtoms), NEW q \in Requests, NEW raw \in BOOLEAN, NEW s, NEW sent,
           s.rest = <<>>, s.tail \in Seq(OriginAtoms), s.done \in BOOLEAN, s.open \in Openable,
           Passing(page, q, raw, s, sent)
    PROVE  LET last == IF s.done THEN <<>> ELSE Encoded(s.tail) \o Tag(q)
               chunk == IF raw THEN <<>> ELSE Block(s.open, last).out
           IN  Shown(page, q, raw, sent \o chunk) /\ chunk \in Seq(Atoms) /\ Whole(chunk)
<1> DEFINE last == IF s.done THEN <<>> ELSE Encoded(s.tail) \o Tag(q)
           b == Block(s.open, last).out
<1>1. sent \in Seq(SentAtoms(q)) /\ Whole(sent)
  BY DEF Passing
<1>2. CASE raw
  <2>1. page = sent \o <<>>
    BY <1>2 DEF Passing
  <2>2. sent \o <<>> = sent
    BY <1>1, ConcatEmptySeq
  <2>3. Shown(page, q, raw, sent)
    BY <1>1, <1>2, <2>1, <2>2 DEF Shown
  <2>4. <<>> \in Seq(Atoms) /\ Whole(<<>>)
    BY WholePieces
  <2> QED
    BY <1>2, <2>2, <2>3, <2>4
<1>3. CASE ~raw
  <2>1. PICK x \in Seq(Fed(q)) : /\ s.open = Block(0, x).open /\ sent = Block(0, x).out
                                 /\ Entered(page, q, <<>>, s.tail, s.done, x)
    BY <1>3 DEF Passing
  <2>2. x \in Seq(Atoms)
    BY FedIs
  <2>3. Delivery(last, q) /\ Injected(page, q, x \o last)
    BY <2>1, <2>2, EnteredLast
  <2> HIDE DEF last
  <2> DEFINE xl == x \o last
  <2>4. /\ xl \in Seq(Fed(q)) /\ Block(0, x).out \o b = Block(0, xl).out
        /\ b \in Seq(Atoms) /\ Whole(b)
        /\ Block(0, xl).out \in Seq(SentAtoms(q)) /\ Whole(Block(0, xl).out)
    BY <1>1, <2>1, <2>3, BlockStep
  <2>5. PICK P \in Injections(page, q) : Blurred(xl) = Blurred(P)
    BY <2>3 DEF Injected
  <2> HIDE DEF xl, b
  <2>6. xl \in Seq(Atoms) /\ page \in Seq(Atoms)
    BY <2>4, FedIs, OriginIs
  <2>7. P \in Seq(Atoms)
    BY <2>5, <2>6, InjectionsAlike
  <2>8. Blurred(Block(0, xl).out) = Blurred(Block(0, P).out)
    BY <2>5, <2>6, <2>7, BlockAlike
  <2> DEFINE sb == sent \o b
  <2>9. sb = Block(0, xl).out
    BY <2>1, <2>4
  <2> HIDE DEF sb
  <2>10. Shown(page, q, raw, sb)
    BY <1>3, <2>4, <2>8, <2>9 DEF Shown
  <2> QED
    BY <1>3, <2>4, <2>10 DEF sb, b, last
<1> QED
  BY <1>2, <1>3

-----------------------------------------------------------------------------
\* Joining is associative.
LEMMA Associated ==
    ASSUME NEW a \in Seq(Atoms), NEW b \in Seq(Atoms), NEW c \in Seq(Atoms)
    PROVE  Around(a, b, c) = Joined(a, Joined(b, c)) /\ Around(a, b, c) = Joined(Joined(a, b), c)
BY DEF Around, Joined

\* Whatever it holds back, the nonce replacer replaces the whole tokens of what it
\* has been given.
LEMMA ReplacedOn ==
    ASSUME NEW body \in Seq(Atoms), NEW held \in Seq(Atoms), NEW sent \in Seq(Atoms),
           NEW chunk \in Seq(Atoms), NEW n \in Nat, Joined(body, held) = Nonced(sent, n),
           Tokenless(held), Len(held) <= 2, Whole(chunk)
    PROVE  LET replaced == Replace(held, chunk, n)
           IN  /\ Around(body, replaced.out, replaced.tail) = Nonced(sent \o chunk, n)
               /\ (body \o replaced.out) \in Seq(Atoms) /\ replaced.tail \in Seq(Atoms)
               /\ replaced.out \in Seq(Atoms)
               /\ Tokenless(replaced.tail) /\ Len(replaced.tail) <= 2
<1> DEFINE out == Replace(held, chunk, n).out
           tail == Replace(held, chunk, n).tail
           hc == held \o chunk
           nc == Nonced(chunk, n)
           ns == Nonced(sent, n)
<1>1. /\ out \in Seq(Atoms) /\ tail \in Seq(Atoms) /\ out \o tail = Nonced(hc, n)
      /\ Tokenless(tail) /\ Len(tail) <= 2
  BY ReplaceIs
<1>2. nc \in Seq(Atoms) /\ ns \in Seq(Atoms) /\ Nonced(sent \o chunk, n) = ns \o nc
  BY NoncedIs, NoncedConcat
<1>3. Nonced(held, n) = held
  <2> DEFINE nh == Nonced(held, n)
  <2>1. /\ nh \in Seq(Atoms) /\ Len(nh) = Len(held)
        /\ \A i \in 1..Len(held) : nh[i] = IF held[i][1] = "token" THEN <<"nonce", n>> ELSE held[i]
    BY NoncedIs
  <2> HIDE DEF nh
  <2>2. \A i \in 1..Len(held) : nh[i] = held[i]
    BY <2>1 DEF Tokenless
  <2>3. nh = held
    BY <2>1, <2>2, AtomsEqual
  <2> QED
    BY <2>3 DEF nh
<1>4. Nonced(hc, n) = held \o nc
  <2>1. Nonced(held \o chunk, n) = Nonced(held, n) \o Nonced(chunk, n)
    BY NoncedConcat
  <2> QED
    BY <1>3, <2>1
<1>5. Joined(body, held) = ns /\ Joined(out, tail) = Joined(held, nc) /\ Joined(ns, nc) = ns \o nc
  <2>1. Joined(body, held) = ns
    OBVIOUS
  <2>2. Joined(out, tail) = Joined(held, nc)
    <3> HIDE DEF out, tail, hc, nc
    <3> QED
      BY <1>1, <1>4 DEF Joined
  <2> QED
    BY <2>1, <2>2 DEF Joined
<1> HIDE DEF out, tail, hc, nc, ns
<1>6. Around(body, out, tail) = Joined(body, Joined(out, tail))
  BY <1>1, Associated
<1>7. Around(body, held, nc) = Joined(body, Joined(held, nc)) /\ Around(body, held, nc) = Joined(Joined(body, held), nc)
  BY <1>2, Associated
<1>8. Around(body, out, tail) = Nonced(sent \o chunk, n)
  BY <1>2, <1>5, <1>6, <1>7
<1>9. body \o out \in Seq(Atoms)
  BY <1>1, AtomsAssociate
<1> QED
  BY <1>1, <1>8, <1>9 DEF out, tail

-----------------------------------------------------------------------------
\* A response, and the stages of the page that is passing through.
ResponseIs(r) ==
    r \in [how : {"miss", "hit"}, request : Requests, origin : Responses, raw : BOOLEAN,
           headers : {r.headers}, body : Seq(Atoms), complete : BOOLEAN]
StreamIs(s) ==
    /\ s \in [rest : Seq(OriginAtoms), tail : Seq(OriginAtoms), done : BOOLEAN, open : Openable,
              held : Seq(Atoms), kept : Seq(Atoms), fits : BOOLEAN]
    /\ Len(s.tail) =< TailSize /\ (s.done => s.tail = <<>>)
    /\ Tokenless(s.held) /\ Len(s.held) <= 2 /\ Len(s.kept) <= MaxCached

\* What has been sent is in the body or held back, and is kept for the cache.
Carried(r, s, sent, n) ==
    /\ Joined(r.body, s.held) = Nonced(sent, n)
    /\ s.fits => s.kept = sent /\ ResponseEligible(r.request, r.origin, config)

LEMMA PassOn ==
    ASSUME ResponseIs(response), NEW s, StreamIs(s), NEW sent \in Seq(Atoms), NEW chunk \in Seq(Atoms),
           served \in Nat, Carried(response, s, sent, served), Whole(chunk), Pass(s, chunk, FALSE)
    PROVE  /\ UNCHANGED <<config, served, cached>>
           /\ ResponseIs(response')
           /\ response'.how = response.how /\ response'.request = response.request
           /\ response'.origin = response.origin /\ response'.raw = response.raw
           /\ response'.headers = response.headers /\ response'.complete = FALSE
           /\ StreamIs(stream')
           /\ stream'.rest = s.rest /\ stream'.tail = s.tail
           /\ stream'.done = s.done /\ stream'.open = s.open
           /\ Carried(response', stream', sent \o chunk, served)
<1> DEFINE rep == Replace(s.held, chunk, served)
           fits == s.fits /\ Len(s.kept) + Len(chunk) <= MaxCached
           body == (response.body \o rep.out) \o <<>>
           kept == IF fits THEN s.kept \o chunk ELSE <<>>
<1>1. /\ response' = [response EXCEPT !.body = body, !.complete = FALSE]
      /\ stream' = [s EXCEPT !.held = rep.tail, !.fits = fits, !.kept = kept]
      /\ UNCHANGED <<config, served, cached>>
  BY DEF Pass
<1>2. /\ response.body \in Seq(Atoms) /\ s.held \in Seq(Atoms) /\ s.kept \in Seq(Atoms)
      /\ Tokenless(s.held) /\ Len(s.held) <= 2 /\ s.fits \in BOOLEAN /\ Len(s.kept) <= MaxCached
  BY DEF ResponseIs, StreamIs
<1>3. Joined(response.body, s.held) = Nonced(sent, served)
  BY DEF Carried
<1>4. /\ Around(response.body, rep.out, rep.tail) = Nonced(sent \o chunk, served)
      /\ (response.body \o rep.out) \in Seq(Atoms) /\ rep.tail \in Seq(Atoms)
      /\ Tokenless(rep.tail) /\ Len(rep.tail) <= 2
  <2> DEFINE b == response.body
             h == s.held
             re == Replace(h, chunk, served)
  <2>1. /\ b \in Seq(Atoms) /\ h \in Seq(Atoms) /\ Tokenless(h) /\ Len(h) <= 2
        /\ Joined(b, h) = Nonced(sent, served)
    BY <1>2, <1>3
  <2> HIDE DEF b, h
  <2>2. /\ Around(b, re.out, re.tail) = Nonced(sent \o chunk, served)
        /\ (b \o re.out) \in Seq(Atoms) /\ re.tail \in Seq(Atoms)
        /\ Tokenless(re.tail) /\ Len(re.tail) <= 2
    BY <2>1, ReplacedOn
  <2> HIDE DEF Replace
  <2> QED
    BY <2>2 DEF b, h, Around
<1> HIDE DEF rep
<1>5. body = response.body \o rep.out
  BY <1>4, ConcatEmptySeq
<1>6. Joined(body, rep.tail) = Nonced(sent \o chunk, served) /\ body \in Seq(Atoms)
  BY <1>4, <1>5 DEF Around, Joined
<1>7. kept \in Seq(Atoms) /\ Len(kept) <= MaxCached /\ fits \in BOOLEAN
  <2>1. CASE fits
    <3> DEFINE kc == s.kept \o chunk
    <3>1. kc \in Seq(Atoms) /\ Len(kc) = Len(s.kept) + Len(chunk)
      BY <1>2, AtomsJoined
    <3>2. kept = kc /\ Len(s.kept) + Len(chunk) <= MaxCached
      BY <2>1
    <3> HIDE DEF kc, kept
    <3> QED
      BY <2>1, <3>1, <3>2
  <2>2. CASE ~fits
    <3>1. kept = <<>>
      BY <2>2
    <3> HIDE DEF kept
    <3>2. Len(kept) = 0 /\ kept \in Seq(Atoms)
      BY <3>1
    <3> QED
      BY <2>2, <3>2, SizeAssumption
  <2> QED
    BY <2>1, <2>2
<1>8. fits => kept = sent \o chunk /\ ResponseEligible(response.request, response.origin, config)
  BY DEF Carried
<1> HIDE DEF body, kept, fits
<1>9. /\ ResponseIs(response')
      /\ response'.how = response.how /\ response'.request = response.request
      /\ response'.origin = response.origin /\ response'.raw = response.raw
      /\ response'.headers = response.headers /\ response'.complete = FALSE
      /\ response'.body = body
  BY <1>1, <1>6 DEF ResponseIs
<1>10. /\ stream'.rest = s.rest /\ stream'.tail = s.tail
       /\ stream'.done = s.done /\ stream'.open = s.open
       /\ stream'.held = rep.tail /\ stream'.fits = fits /\ stream'.kept = kept
       /\ stream' \in [rest : Seq(OriginAtoms), tail : Seq(OriginAtoms), done : BOOLEAN,
                       open : Openable, held : Seq(Atoms), kept : Seq(Atoms), fits : BOOLEAN]
  BY <1>1, <1>4, <1>7 DEF StreamIs
<1>11. StreamIs(stream')
  BY <1>4, <1>7, <1>10 DEF StreamIs
<1>12. Carried(response', stream', sent \o chunk, served)
  BY <1>6, <1>8, <1>9, <1>10 DEF Carried
<1> QED
  BY <1>1, <1>9, <1>10, <1>11, <1>12

LEMMA PassLast ==
    ASSUME ResponseIs(response), NEW s, StreamIs(s), NEW sent \in Seq(Atoms), NEW chunk \in Seq(Atoms),
           served \in Nat, Carried(response, s, sent, served), Whole(chunk), Pass(s, chunk, TRUE)
    PROVE  /\ UNCHANGED <<config, served>> /\ stream' = None
           /\ ResponseIs(response')
           /\ response'.how = response.how /\ response'.request = response.request
           /\ response'.origin = response.origin /\ response'.raw = response.raw
           /\ response'.headers = response.headers /\ response'.complete = TRUE
           /\ response'.body = Nonced(sent \o chunk, served)
           /\ \/ cached' = cached
              \/ /\ cached' = [headers |-> CacheCopy(response.request, response.origin),
                               body |-> sent \o chunk,
                               origin |-> response.origin, raw |-> response.raw]
                 /\ ResponseEligible(response.request, response.origin, config)
                 /\ Len(sent \o chunk) \in 1..MaxCached
<1> DEFINE rep == Replace(s.held, chunk, served)
           fits == s.fits /\ Len(s.kept) + Len(chunk) <= MaxCached
           body == (response.body \o rep.out) \o rep.tail
           kc == s.kept \o chunk
<1>1. /\ response' = [response EXCEPT !.body = body, !.complete = TRUE]
      /\ UNCHANGED <<config, served>> /\ stream' = None
      /\ cached' = IF fits /\ kc # <<>>
                   THEN [headers |-> CacheCopy(response.request, response.origin), body |-> kc,
                         origin |-> response.origin, raw |-> response.raw]
                   ELSE cached
  BY DEF Pass
<1>2. /\ response.body \in Seq(Atoms) /\ s.held \in Seq(Atoms) /\ s.kept \in Seq(Atoms)
      /\ Tokenless(s.held) /\ Len(s.held) <= 2 /\ s.fits \in BOOLEAN /\ Len(s.kept) <= MaxCached
  BY DEF ResponseIs, StreamIs
<1>3. Joined(response.body, s.held) = Nonced(sent, served)
  BY DEF Carried
<1>4. /\ body = Nonced(sent \o chunk, served)
      /\ (response.body \o rep.out) \in Seq(Atoms) /\ rep.tail \in Seq(Atoms)
  <2> DEFINE b == response.body
             h == s.held
             re == Replace(h, chunk, served)
  <2>1. /\ b \in Seq(Atoms) /\ h \in Seq(Atoms) /\ Tokenless(h) /\ Len(h) <= 2
        /\ Joined(b, h) = Nonced(sent, served)
    BY <1>2, <1>3
  <2> HIDE DEF b, h
  <2>2. /\ Around(b, re.out, re.tail) = Nonced(sent \o chunk, served)
        /\ (b \o re.out) \in Seq(Atoms) /\ re.tail \in Seq(Atoms)
        /\ Tokenless(re.tail) /\ Len(re.tail) <= 2
    BY <2>1, ReplacedOn
  <2> HIDE DEF Replace
  <2> QED
    BY <2>2 DEF b, h, Around
<1> HIDE DEF rep
<1>5. body \in Seq(Atoms)
  <2> DEFINE a == response.body \o rep.out
  <2>1. a \in Seq(Atoms) /\ body = a \o rep.tail
    BY <1>4
  <2> HIDE DEF a, body
  <2> QED
    BY <1>4, <2>1, AtomsAssociate
<1> HIDE DEF body
<1>6. /\ ResponseIs(response')
      /\ response'.how = response.how /\ response'.request = response.request
      /\ response'.origin = response.origin /\ response'.raw = response.raw
      /\ response'.headers = response.headers /\ response'.complete = TRUE
      /\ response'.body = body
  BY <1>1, <1>5 DEF ResponseIs
<1>7. ASSUME fits, kc # <<>>
      PROVE  /\ kc = sent \o chunk /\ Len(kc) \in 1..MaxCached
             /\ ResponseEligible(response.request, response.origin, config)
  <2>1. s.kept = sent /\ ResponseEligible(response.request, response.origin, config)
    BY <1>7 DEF Carried
  <2>2. kc \in Seq(Atoms) /\ Len(kc) = Len(s.kept) + Len(chunk)
    BY <1>2, AtomsJoined
  <2>3. kc = sent \o chunk /\ kc # <<>> /\ Len(s.kept) + Len(chunk) <= MaxCached
    BY <1>7, <2>1
  <2> HIDE DEF kc
  <2>4. Len(kc) # 0 /\ Len(kc) \in Nat
    BY <2>2, <2>3, EmptySeq
  <2>5. Len(kc) \in 1..MaxCached
    BY <2>2, <2>3, <2>4, SizeAssumption
  <2> QED
    BY <2>1, <2>3, <2>5
<1> HIDE DEF kc, fits
<1>8. CASE fits /\ kc # <<>>
  BY <1>1, <1>4, <1>6, <1>7, <1>8
<1>9. CASE ~(fits /\ kc # <<>>)
  BY <1>1, <1>4, <1>6, <1>9
<1> QED
  BY <1>8, <1>9

-----------------------------------------------------------------------------
\* The headers are the origin's, or the cached ones, with the nonce of the response.
HeadersFit(r, n) ==
    IF r.how = "miss"
    THEN r.headers = IF IsHtml(r.origin) THEN HtmlHeaders(r.request, r.origin, n)
                     ELSE Headers(r.request, r.origin)
    ELSE \E q \in Requests :
            /\ ResponseEligible(q, r.origin, config)
            /\ r.headers = [CacheCopy(q, r.origin) EXCEPT !.policy = MergeNonce(@, n),
                                                          !.reportOnly = MergeNonce(@, n),
                                                          !.cache = "hit"]

\* A complete body is the page as it is sent for some request, with the nonce.
Rendered(r, n) ==
    r.complete =>
        \E q \in Requests, s \in Seq(Atoms) :
           /\ Shown(r.origin.page, q, r.raw, s) /\ r.body = Nonced(s, n)
           /\ r.how = "miss" => q = r.request

\* The cache keeps headers and body of one response.
CopyIs(c) ==
    /\ c \in [headers : {c.headers}, body : Seq(Atoms), origin : Responses, raw : BOOLEAN]
    /\ Len(c.body) \in 1..MaxCached
    /\ \E q \in Requests :
          /\ ResponseEligible(q, c.origin, config)
          /\ c.headers = CacheCopy(q, c.origin) /\ Shown(c.origin.page, q, c.raw, c.body)

\* The page that is passing through, and what has been sent of it.
Underway(r, s, n) ==
    /\ StreamIs(s) /\ r.complete = FALSE
    /\ \E sent \in Seq(Atoms) :
          Passing(r.origin.page, r.request, r.raw, s, sent) /\ Carried(r, s, sent, n)

\* The inductive invariant.
PageIInv ==
    /\ config \in Configs
    /\ served \in 0..MaxServed
    /\ stream # None \/ response # None => ResponseIs(response) /\ HeadersFit(response, served)
    /\ response # None => Rendered(response, served)
    /\ stream # None => Underway(response, stream, served)
    /\ cached # None => CopyIs(cached)

\* The configuration is all of the state that these speak of.
LEMMA Unchanging ==
    ASSUME config' = config
    PROVE  /\ \A r : ResponseIs(r)' <=> ResponseIs(r)
           /\ \A r, n : HeadersFit(r, n)' <=> HeadersFit(r, n)
           /\ \A r, n : Rendered(r, n)' <=> Rendered(r, n)
           /\ \A r, s, n : Underway(r, s, n)' <=> Underway(r, s, n)
           /\ \A c : CopyIs(c)' <=> CopyIs(c)
<1>1. \A b, a : Block(b, a)' = Block(b, a)
  BY DEF Block, BlockAtom
<1>2. \A b, a : Injections(b, a)' = Injections(b, a)
  BY DEF Injections
<1>3. \A q, r : Headers(q, r)' = Headers(q, r)
  BY DEF Headers
<1>4. \A q, r, n : HtmlHeaders(q, r, n)' = HtmlHeaders(q, r, n)
  BY <1>3 DEF HtmlHeaders
<1>5. \A q, r : CacheCopy(q, r)' = CacheCopy(q, r)
  BY <1>3 DEF CacheCopy
<1>6. Stopped' = Stopped /\ Openable' = Openable /\ \A q : SentAtoms(q)' = SentAtoms(q)
  BY DEF Stopped, Openable, SentAtoms
<1>7. \A p, q, raw, s : Shown(p, q, raw, s)' <=> Shown(p, q, raw, s)
  BY <1>1, <1>2, <1>6 DEF Shown
<1>8. \A p, q, r, t, d, x : Entered(p, q, r, t, d, x)' <=> Entered(p, q, r, t, d, x)
  BY <1>2 DEF Entered, Injected
<1>9. \A p, q, raw, s, z : Passing(p, q, raw, s, z)' <=> Passing(p, q, raw, s, z)
  BY <1>1, <1>6, <1>8 DEF Passing
<1>10. \A r, s, z, n : Carried(r, s, z, n)' <=> Carried(r, s, z, n)
  BY DEF Carried
<1>11. \A s : StreamIs(s)' <=> StreamIs(s)
  BY <1>6 DEF StreamIs
<1>12. \A r : ResponseIs(r)' <=> ResponseIs(r)
  BY DEF ResponseIs
<1>13. \A r, n : HeadersFit(r, n)' <=> HeadersFit(r, n)
  BY <1>3, <1>4, <1>5 DEF HeadersFit
<1>14. \A r, n : Rendered(r, n)' <=> Rendered(r, n)
  BY <1>7 DEF Rendered
<1>15. \A r, s, n : Underway(r, s, n)' <=> Underway(r, s, n)
  BY <1>9, <1>10, <1>11 DEF Underway
<1>16. \A c : CopyIs(c)' <=> CopyIs(c)
  BY <1>5, <1>7 DEF CopyIs
<1> QED
  BY <1>12, <1>13, <1>14, <1>15, <1>16

LEMMA NextState ==
    ASSUME config' = config, config \in Configs, served' \in 0..MaxServed,
           stream' # None \/ response' # None => ResponseIs(response') /\ HeadersFit(response', served'),
           response' # None => Rendered(response', served'),
           stream' # None => Underway(response', stream', served'),
           cached' # None => CopyIs(cached')
    PROVE  PageIInv'
<1>1. /\ ResponseIs(response)' <=> ResponseIs(response')
      /\ HeadersFit(response, served)' <=> HeadersFit(response', served')
      /\ Rendered(response, served)' <=> Rendered(response', served')
      /\ Underway(response, stream, served)' <=> Underway(response', stream', served')
      /\ CopyIs(cached)' <=> CopyIs(cached')
  BY Unchanging
<1> QED
  BY <1>1 DEF PageIInv

LEMMA PageInit == Init => PageIInv
BY SizeAssumption DEF Init, PageIInv

LEMMA PassingSame ==
    ASSUME NEW p, NEW q, NEW raw, NEW s, NEW z, NEW sent, Passing(p, q, raw, s, sent),
           z.rest = s.rest, z.tail = s.tail, z.done = s.done, z.open = s.open
    PROVE  Passing(p, q, raw, z, sent)
BY DEF Passing

LEMMA MissStep ==
    ASSUME PageIInv, NEW q \in Requests, NEW r \in Responses, Miss(q, r)
    PROVE  PageIInv'
<1> DEFINE page == r.page
<1>1. config \in Configs /\ served \in 0..MaxServed /\ (cached # None => CopyIs(cached))
  BY DEF PageIInv
<1>2. /\ served' = served + 1 /\ served < MaxServed /\ config' = config /\ cached' = cached
      /\ response' = [how |-> "miss", request |-> q, origin |-> r, raw |-> q.skips \/ ~IsHtml(r),
                      headers |-> IF IsHtml(r) THEN HtmlHeaders(q, r, served') ELSE Headers(q, r),
                      body |-> <<>>, complete |-> FALSE]
      /\ stream' = [rest |-> page, tail |-> <<>>, done |-> ~config.bootstrapper, open |-> 0,
                    held |-> <<>>, kept |-> <<>>, fits |-> ResponseEligible(q, r, config)]
  BY DEF Miss
<1>3. served' \in 0..MaxServed
  BY <1>1, <1>2, SizeAssumption
<1>4. page \in Seq(OriginAtoms)
  BY ResponseAssumption
<1>5. config.bootstrapper \in BOOLEAN
  BY <1>1, ConfigAssumption
<1>6. /\ <<>> \in Seq(OriginAtoms) /\ <<>> \in Seq(Atoms) /\ Tokenless(<<>>) /\ 0 \in Openable
      /\ Len(<<>>) <= TailSize /\ Len(<<>>) <= 2 /\ Len(<<>>) <= MaxCached
  BY SizeAssumption DEF Tokenless, Openable
<1>7. ResponseIs(response')
  BY <1>2, <1>6 DEF ResponseIs
<1>8. HeadersFit(response', served')
  BY <1>2 DEF HeadersFit
<1>9. Rendered(response', served')
  BY <1>2 DEF Rendered
<1>10. StreamIs(stream')
  <2>1. ResponseEligible(q, r, config) \in BOOLEAN
    BY DEF ResponseEligible
  <2> QED
    BY <1>2, <1>4, <1>5, <1>6, <2>1 DEF StreamIs
<1>11. Passing(page, q, response'.raw, stream', <<>>)
  <2>1. /\ stream'.rest = page /\ stream'.tail = <<>> /\ stream'.done = ~config.bootstrapper
        /\ stream'.open = 0
    BY <1>2
  <2>2. <<>> \in Seq(SentAtoms(q)) /\ Whole(<<>>) /\ <<>> \in Seq(Fed(q))
    BY WholePieces
  <2>3. page = <<>> \o page
    BY <1>4, ConcatEmptySeq
  <2>4. Block(0, <<>>).open = 0 /\ Block(0, <<>>).out = <<>>
    BY BlockEmpty
  <2>5. Entered(page, q, page, <<>>, ~config.bootstrapper, <<>>)
    BY <1>1, <1>4, EnteredFirst
  <2>6. Entered(page, q, stream'.rest, stream'.tail, stream'.done, <<>>)
    BY <2>1, <2>5
  <2> QED
    BY <2>1, <2>2, <2>3, <2>4, <2>6 DEF Passing
<1>12. Carried(response', stream', <<>>, served')
  <2>1. Joined(<<>>, <<>>) = <<>>
    BY <1>6, ConcatEmptySeq DEF Joined
  <2>2. Nonced(<<>>, served') = <<>>
    BY DEF Nonced
  <2> QED
    BY <1>2, <2>1, <2>2 DEF Carried
<1>13. Underway(response', stream', served')
  <2>1. response'.origin.page = page /\ response'.request = q /\ response'.complete = FALSE
    BY <1>2
  <2> QED
    BY <1>6, <1>10, <1>11, <1>12, <2>1 DEF Underway
<1> QED
  BY <1>1, <1>2, <1>3, <1>7, <1>8, <1>9, <1>13, NextState

LEMMA HitStep ==
    ASSUME PageIInv, NEW q \in Requests, Hit(q)
    PROVE  PageIInv'
<1> DEFINE rep == Replace(<<>>, cached.body, served')
           h == [cached.headers EXCEPT !.policy = MergeNonce(@, served'),
                                       !.reportOnly = MergeNonce(@, served'), !.cache = "hit"]
<1>1. config \in Configs /\ served \in 0..MaxServed /\ cached # None /\ CopyIs(cached)
  BY DEF PageIInv, Hit, Readable
<1>2. /\ served' = served + 1 /\ served < MaxServed /\ config' = config /\ cached' = cached
      /\ stream' = None
      /\ response' = [how |-> "hit", request |-> q, origin |-> cached.origin, raw |-> cached.raw,
                      headers |-> h, body |-> rep.out \o rep.tail, complete |-> TRUE]
  BY DEF Hit
<1>3. served' \in 0..MaxServed /\ served' \in Nat
  BY <1>1, <1>2, SizeAssumption
<1>4. /\ cached.body \in Seq(Atoms) /\ cached.origin \in Responses /\ cached.raw \in BOOLEAN
  BY <1>1 DEF CopyIs
<1>5. PICK m \in Requests : /\ ResponseEligible(m, cached.origin, config)
                            /\ cached.headers = CacheCopy(m, cached.origin)
                            /\ Shown(cached.origin.page, m, cached.raw, cached.body)
  BY <1>1 DEF CopyIs
<1>6. rep.out \o rep.tail = Nonced(cached.body, served') /\ rep.out \o rep.tail \in Seq(Atoms)
  <2> DEFINE b == cached.body
             n == served'
             re == Replace(<<>>, b, n)
  <2>1. b \in Seq(Atoms) /\ n \in Nat /\ Whole(b) /\ <<>> \in Seq(Atoms) /\ Tokenless(<<>>) /\ Len(<<>>) <= 2
    BY <1>3, <1>4, <1>5 DEF Shown, Tokenless
  <2> HIDE DEF b, n
  <2>2. <<>> \o b = b
    BY <2>1, ConcatEmptySeq
  <2>3. re.out \o re.tail = Nonced(<<>> \o b, n)
    BY <2>1, ReplaceIs
  <2>4. Nonced(b, n) \in Seq(Atoms)
    BY <2>1, NoncedIs
  <2> HIDE DEF re
  <2> QED
    BY <2>2, <2>3, <2>4 DEF re, b, n
<1> HIDE DEF rep, h
<1>7. ResponseIs(response')
  BY <1>2, <1>4, <1>6 DEF ResponseIs
<1>8. HeadersFit(response', served')
  <2>1. /\ response'.how = "hit" /\ response'.origin = cached.origin /\ response'.headers = h
    BY <1>2
  <2>2. h = [CacheCopy(m, cached.origin) EXCEPT !.policy = MergeNonce(@, served'),
                                                !.reportOnly = MergeNonce(@, served'), !.cache = "hit"]
    BY <1>5 DEF h
  <2> QED
    BY <1>5, <2>1, <2>2 DEF HeadersFit
<1>9. Rendered(response', served')
  <2>1. /\ response'.how = "hit" /\ response'.origin = cached.origin /\ response'.raw = cached.raw
        /\ response'.body = rep.out \o rep.tail
    BY <1>2
  <2> QED
    BY <1>4, <1>5, <1>6, <2>1 DEF Rendered
<1> QED
  BY <1>1, <1>2, <1>3, <1>7, <1>8, <1>9, NextState

LEMMA ChunkStep ==
    ASSUME PageIInv, NEW n, Chunk(n)
    PROVE  PageIInv'
<1> DEFINE page == response.origin.page
           q == response.request
           chunk == SubSeq(stream.rest, 1, n)
           step == Stepped(stream.rest, stream.tail, stream.done, n, q)
           b == Block(stream.open, step.out)
           left == [stream EXCEPT !.rest = SubSeq(@, n + 1, Len(@))]
           full == [left EXCEPT !.tail = step.tail, !.done = step.done, !.open = b.open]
<1>1. /\ config \in Configs /\ served \in 0..MaxServed /\ (cached # None => CopyIs(cached))
      /\ stream # None /\ ResponseIs(response) /\ HeadersFit(response, served)
      /\ Underway(response, stream, served)
  BY DEF PageIInv, Chunk
<1>2. /\ n \in 1..Len(stream.rest)
      /\ response.raw => Pass(left, chunk, FALSE)
      /\ ~response.raw => Pass(full, b.out, FALSE)
  BY DEF Chunk, Stepped
<1>3. StreamIs(stream)
  BY <1>1 DEF Underway
<1>4. PICK sent \in Seq(Atoms) :
             Passing(page, q, response.raw, stream, sent) /\ Carried(response, stream, sent, served)
  BY <1>1 DEF Underway
<1>5. q \in Requests /\ page \in Seq(OriginAtoms) /\ response.raw \in BOOLEAN /\ served \in Nat
  BY <1>1, ResponseAssumption, SizeAssumption DEF ResponseIs
<1>6. /\ stream.rest \in Seq(OriginAtoms) /\ stream.done \in BOOLEAN /\ stream.open \in Openable
  BY <1>3 DEF StreamIs
<1>7. ASSUME NEW z, StreamIs(z), Carried(response, z, sent, served), NEW c \in Seq(Atoms), Whole(c),
             Passing(page, q, response.raw, z, sent \o c), Pass(z, c, FALSE)
      PROVE  PageIInv'
  <2> HIDE DEF page, q
  <2>1. /\ UNCHANGED <<config, served, cached>>
        /\ ResponseIs(response')
        /\ response'.how = response.how /\ response'.request = response.request
        /\ response'.origin = response.origin /\ response'.raw = response.raw
        /\ response'.headers = response.headers /\ response'.complete = FALSE
        /\ StreamIs(stream')
        /\ stream'.rest = z.rest /\ stream'.tail = z.tail
        /\ stream'.done = z.done /\ stream'.open = z.open
        /\ Carried(response', stream', sent \o c, served)
    BY <1>1, <1>5, <1>7, PassOn
  <2>2. Passing(page, q, response'.raw, stream', sent \o c)
    BY <1>7, <2>1, PassingSame
  <2>3. page = response'.origin.page /\ q = response'.request
    BY <2>1 DEF page, q
  <2>4. sent \o c \in Seq(Atoms)
    BY AtomsAssociate
  <2>5. Underway(response', stream', served')
    BY <2>1, <2>2, <2>3, <2>4 DEF Underway
  <2>6. HeadersFit(response', served')
    BY <1>1, <2>1 DEF HeadersFit
  <2>7. Rendered(response', served')
    BY <2>1 DEF Rendered
  <2> QED
    BY <1>1, <2>1, <2>5, <2>6, <2>7, NextState
<1>8. CASE response.raw
  <2>1. left.rest = SubSeq(stream.rest, n + 1, Len(stream.rest))
    BY <1>3 DEF StreamIs
  <2>2. response.raw = TRUE
    BY <1>5, <1>8
  <2> HIDE DEF page, q, left
  <2>3. /\ Passing(page, q, TRUE, left, sent \o chunk)
        /\ chunk \in Seq(Atoms) /\ Whole(chunk) /\ left.rest \in Seq(OriginAtoms)
    <3>1. Passing(page, q, TRUE, stream, sent)
      BY <1>4, <2>2
    <3>2. n \in 1..Len(stream.rest)
      BY <1>2
    <3> QED
      BY <1>5, <1>6, <2>1, <3>1, <3>2, PassingRaw
  <2>4. StreamIs(left)
    BY <1>3, <2>1, <2>3 DEF StreamIs, left
  <2>5. Carried(response, left, sent, served)
    BY <1>3, <1>4 DEF Carried, StreamIs, left
  <2> HIDE DEF chunk
  <2> QED
    BY <1>2, <1>7, <1>8, <2>2, <2>3, <2>4, <2>5
<1>9. CASE ~response.raw
  <2>1. /\ full.rest = SubSeq(stream.rest, n + 1, Len(stream.rest)) /\ full.tail = step.tail
        /\ full.done = step.done /\ full.open = b.open
    BY <1>3 DEF StreamIs
  <2>2. response.raw = FALSE
    BY <1>5, <1>9
  <2> HIDE DEF page, q, full
  <2>4. /\ Passing(page, q, FALSE, full, sent \o b.out)
        /\ b.out \in Seq(Atoms) /\ Whole(b.out)
        /\ full.rest \in Seq(OriginAtoms) /\ full.tail \in Seq(OriginAtoms) /\ full.done \in BOOLEAN
        /\ full.open \in Openable
        /\ Len(full.tail) =< TailSize /\ (full.done => full.tail = <<>>)
    <3>1. Passing(page, q, FALSE, stream, sent)
      BY <1>4, <2>2
    <3>2. n \in 1..Len(stream.rest)
      BY <1>2
    <3> QED
      BY <1>5, <1>6, <2>1, <3>1, <3>2, PassingStep
  <2> HIDE DEF b, step
  <2>5. /\ full \in [rest : Seq(OriginAtoms), tail : Seq(OriginAtoms), done : BOOLEAN, open : Openable,
                     held : Seq(Atoms), kept : Seq(Atoms), fits : BOOLEAN]
        /\ full.held = stream.held /\ full.kept = stream.kept /\ full.fits = stream.fits
    BY <1>3, <2>1, <2>4 DEF StreamIs, full
  <2>6. StreamIs(full)
    BY <1>3, <2>4, <2>5 DEF StreamIs
  <2>7. Carried(response, full, sent, served)
    BY <1>4, <2>5 DEF Carried
  <2> QED
    BY <1>2, <1>7, <1>9, <2>2, <2>4, <2>6, <2>7
<1> QED
  BY <1>5, <1>8, <1>9

LEMMA EndStep ==
    ASSUME PageIInv, End
    PROVE  PageIInv'
<1> DEFINE page == response.origin.page
           q == response.request
           raw == response.raw
           last == IF stream.done THEN <<>> ELSE Encoded(stream.tail) \o Tag(q)
           c == IF raw THEN <<>> ELSE Block(stream.open, last).out
<1>1. /\ config \in Configs /\ served \in 0..MaxServed /\ (cached # None => CopyIs(cached))
      /\ stream # None /\ ResponseIs(response) /\ HeadersFit(response, served)
      /\ Underway(response, stream, served)
  BY DEF PageIInv, End
<1>2. stream.rest = <<>> /\ Pass(stream, c, TRUE)
  BY DEF End
<1>3. StreamIs(stream)
  BY <1>1 DEF Underway
<1>4. PICK sent \in Seq(Atoms) :
             Passing(page, q, raw, stream, sent) /\ Carried(response, stream, sent, served)
  BY <1>1 DEF Underway
<1>5. /\ q \in Requests /\ page \in Seq(OriginAtoms) /\ raw \in BOOLEAN /\ served \in Nat
      /\ response.origin \in Responses
  BY <1>1, ResponseAssumption, SizeAssumption DEF ResponseIs
<1>6. /\ stream.tail \in Seq(OriginAtoms) /\ stream.done \in BOOLEAN /\ stream.open \in Openable
  BY <1>3 DEF StreamIs
<1> HIDE DEF page, q, raw
<1>7. Shown(page, q, raw, sent \o c) /\ c \in Seq(Atoms) /\ Whole(c)
  BY <1>1, <1>2, <1>4, <1>5, <1>6, PassingLast
<1> HIDE DEF c, last
<1>8. /\ UNCHANGED <<config, served>> /\ stream' = None
      /\ ResponseIs(response')
      /\ response'.how = response.how /\ response'.request = response.request
      /\ response'.origin = response.origin /\ response'.raw = response.raw
      /\ response'.headers = response.headers /\ response'.complete = TRUE
      /\ response'.body = Nonced(sent \o c, served)
      /\ \/ cached' = cached
         \/ /\ cached' = [headers |-> CacheCopy(response.request, response.origin),
                          body |-> sent \o c,
                          origin |-> response.origin, raw |-> response.raw]
            /\ ResponseEligible(response.request, response.origin, config)
            /\ Len(sent \o c) \in 1..MaxCached
  BY <1>1, <1>2, <1>3, <1>4, <1>5, <1>7, PassLast
<1> DEFINE body == sent \o c
<1>9. body \in Seq(Atoms)
  BY <1>7, AtomsAssociate
<1> HIDE DEF body
<1>10. Rendered(response', served')
  <2>1. /\ response'.origin.page = page /\ response'.request = q /\ response'.raw = raw
        /\ response'.body = Nonced(body, served') /\ Shown(page, q, raw, body)
    BY <1>7, <1>8 DEF page, q, raw, body
  <2> QED
    BY <1>5, <1>9, <2>1 DEF Rendered
<1>11. HeadersFit(response', served')
  BY <1>1, <1>8 DEF HeadersFit
<1>12. cached' # None => CopyIs(cached')
  <2>1. CASE cached' = cached
    BY <1>1, <2>1
  <2>2. CASE /\ cached' = [headers |-> CacheCopy(q, response.origin), body |-> body,
                           origin |-> response.origin, raw |-> raw]
             /\ ResponseEligible(q, response.origin, config)
             /\ Len(body) \in 1..MaxCached
    <3>1. /\ cached'.headers = CacheCopy(q, response.origin) /\ cached'.body = body
          /\ cached'.origin = response.origin /\ cached'.raw = raw
          /\ cached' \in [headers : {cached'.headers}, body : Seq(Atoms), origin : Responses, raw : BOOLEAN]
      BY <1>5, <1>9, <2>2
    <3>2. Shown(cached'.origin.page, q, cached'.raw, cached'.body)
      BY <1>7, <3>1 DEF page, body
    <3> QED
      BY <1>5, <2>2, <3>1, <3>2 DEF CopyIs
  <2> QED
    BY <1>8, <2>1, <2>2 DEF q, raw, body
<1> QED
  BY <1>1, <1>8, <1>10, <1>11, <1>12, NextState

LEMMA PageStep == PageIInv /\ [Next]_vars => PageIInv'
<1> SUFFICES ASSUME PageIInv, [Next]_vars PROVE PageIInv'
  OBVIOUS
<1>1. ASSUME NEW q \in Requests, Hit(q) PROVE PageIInv'
  BY <1>1, HitStep
<1>2. ASSUME NEW q \in Requests, NEW r \in Responses, Miss(q, r) PROVE PageIInv'
  BY <1>2, MissStep
<1>3. ASSUME NEW n, Chunk(n) PROVE PageIInv'
  BY <1>3, ChunkStep
<1>4. CASE End
  BY <1>4, EndStep
<1>5. ASSUME config' = config, served' = served, response' = response,
             stream' = stream \/ stream' = None, cached' = cached \/ cached' = None
      PROVE  PageIInv'
  BY <1>5, NextState DEF PageIInv
<1>6. CASE BreakOff
  BY <1>5, <1>6 DEF BreakOff
<1>7. CASE Expire
  BY <1>5, <1>7 DEF Expire
<1>8. CASE UNCHANGED vars
  BY <1>5, <1>8 DEF vars
<1> QED
  BY <1>1, <1>2, <1>3, <1>4, <1>6, <1>7, <1>8 DEF Next

LEMMA PageInductive == Spec => []PageIInv
BY PageInit, PageStep, PTL DEF Spec

-----------------------------------------------------------------------------
LEMMA PageTypes == PageIInv => TypeOK
<1> SUFFICES ASSUME PageIInv PROVE TypeOK
  OBVIOUS
<1>1. config \in Configs /\ served \in 0..MaxServed
  BY DEF PageIInv
<1>2. ASSUME stream # None
      PROVE  /\ stream.done \in BOOLEAN /\ stream.fits \in BOOLEAN
             /\ Len(stream.tail) <= TailSize /\ (stream.done => stream.tail = <<>>)
             /\ Len(stream.held) <= 2 /\ Len(stream.kept) <= MaxCached
             /\ stream.open \in 0..Len(Elements)
  <2>1. StreamIs(stream)
    BY <1>2 DEF PageIInv, Underway
  <2>2. Openable \subseteq 0..Len(Elements)
    <3>1. Len(Elements) \in Nat /\ DOMAIN Elements = 1..Len(Elements)
      BY ElementAssumption, LenProperties
    <3> QED
      BY <3>1 DEF Openable, Stopped
  <2> QED
    BY <2>1, <2>2 DEF StreamIs
<1>3. ASSUME response # None
      PROVE  /\ response.complete \in BOOLEAN /\ response.raw \in BOOLEAN
             /\ \A i \in DOMAIN response.body : response.body[i] \in Atoms
  <2>1. response.complete \in BOOLEAN /\ response.raw \in BOOLEAN /\ response.body \in Seq(Atoms)
    BY <1>3 DEF PageIInv, ResponseIs
  <2>2. \A i \in DOMAIN response.body : response.body[i] \in Atoms
    BY <2>1
  <2> QED
    BY <2>1, <2>2
<1>4. cached # None => Len(cached.body) \in 1..MaxCached
  BY DEF PageIInv, CopyIs
<1> QED
  BY <1>1, <1>2, <1>3, <1>4 DEF TypeOK

\* The stages of a page hold back no more than their tails, whatever its chunks.
THEOREM PageTypeCorrect == Spec => []TypeOK
BY PageInductive, PageTypes, PTL

-----------------------------------------------------------------------------
\* Sources of a policy that are nonces are the given one.
NoncesOf(policy, n) == \A d \in DOMAIN policy : \A s \in policy[d] : s[1] = "nonce" => s[2] = n

LEMMA WidenedNonces ==
    ASSUME NEW policy, NEW n, NEW d, NEW sources, NoncesOf(policy, n),
           d \in DOMAIN policy \/ "default-src" \in DOMAIN policy,
           \A s \in sources : s[1] = "nonce" => s[2] = n
    PROVE  NoncesOf(Widened(policy, d, sources), n)
<1> DEFINE base == IF d \in DOMAIN policy THEN d ELSE "default-src"
           w == Widened(policy, d, sources)
<1>1. base \in DOMAIN policy
  OBVIOUS
<1>2. w = [e \in DOMAIN policy \cup {d} |-> IF e = d THEN policy[base] \cup sources ELSE policy[e]]
  BY DEF Widened
<1> HIDE DEF w, base
<1>3. /\ DOMAIN w = DOMAIN policy \cup {d} /\ w[d] = policy[base] \cup sources
      /\ \A e \in DOMAIN policy : e # d => w[e] = policy[e]
  BY <1>2
<1> QED
  BY <1>1, <1>3 DEF NoncesOf, w

LEMMA MergedNonces ==
    ASSUME NEW policy, NEW n, NoncesOf(policy, n)
    PROVE  NoncesOf(MergeNonce(policy, n), n)
<1>1. Nonce(n)[1] = "nonce" /\ Nonce(n)[2] = n
  BY DEF Nonce
<1>2. \A s \in {Nonce(n)} : s[1] = "nonce" => s[2] = n
  BY <1>1
<1>3. CASE "script-src-elem" \in DOMAIN policy
  BY <1>2, <1>3, WidenedNonces DEF MergeNonce
<1>4. CASE /\ "script-src-elem" \notin DOMAIN policy
           /\ DOMAIN policy \cap {"script-src", "default-src"} # {}
  <2>1. MergeNonce(policy, n) = Widened(policy, "script-src", {Nonce(n)})
    BY <1>4 DEF MergeNonce
  <2>2. "script-src" \in DOMAIN policy \/ "default-src" \in DOMAIN policy
    BY <1>4
  <2> QED
    BY <1>2, <2>1, <2>2, WidenedNonces
<1>5. CASE /\ "script-src-elem" \notin DOMAIN policy
           /\ DOMAIN policy \cap {"script-src", "default-src"} = {}
  BY <1>5 DEF MergeNonce
<1> QED
  BY <1>3, <1>4, <1>5

LEMMA OpenedNonces ==
    ASSUME NEW policy, NEW n, NoncesOf(policy, n)
    PROVE  NoncesOf(MergeConnectSrc(policy), n)
<1>1. \A s \in {Api} : s[1] = "nonce" => s[2] = n
  BY DEF Api
<1>2. CASE DOMAIN policy \cap {"connect-src", "default-src"} # {}
  <2>1. MergeConnectSrc(policy) = Widened(policy, "connect-src", {Api})
    BY <1>2 DEF MergeConnectSrc
  <2>2. "connect-src" \in DOMAIN policy \/ "default-src" \in DOMAIN policy
    BY <1>2
  <2> QED
    BY <1>1, <2>1, <2>2, WidenedNonces
<1>3. CASE DOMAIN policy \cap {"connect-src", "default-src"} = {}
  BY <1>3 DEF MergeConnectSrc
<1> QED
  BY <1>2, <1>3

\* What the headers of a page of HTML say, if it is a miss and if it is a hit.
LEMMA MissHeaders ==
    ASSUME NEW q \in Requests, NEW r \in Responses, NEW n
    PROVE  LET h == HtmlHeaders(q, r, n)
           IN  /\ AdmitsScript(h.policy, n) /\ AdmitsScript(h.reportOnly, n)
               /\ NoncesOf(h.policy, n) /\ h.encoded = FALSE
               /\ config.api => AdmitsApi(h.policy)
<1> DEFINE nonced == MergeNonce(r.policy, n)
           h == HtmlHeaders(q, r, n)
<1>1. /\ h.policy = IF config.api THEN MergeConnectSrc(nonced) ELSE nonced
      /\ h.reportOnly = MergeNonce(r.reportOnly, n) /\ h.encoded = FALSE
  BY DEF HtmlHeaders, Headers
<1>2. NoncesOf(r.policy, n)
  BY ResponseAssumption DEF NoncesOf
<1>3. NoncesOf(nonced, n)
  BY <1>2, MergedNonces
<1>4. AdmitsScript(nonced, n) /\ AdmitsScript(MergeNonce(r.reportOnly, n), n)
  BY NonceMerged
<1>5. AdmitsScript(MergeConnectSrc(nonced), n) /\ AdmitsApi(MergeConnectSrc(nonced))
  BY BothMerged
<1> HIDE DEF nonced, h
<1>6. NoncesOf(MergeConnectSrc(nonced), n)
  BY <1>3, OpenedNonces
<1> QED
  BY <1>1, <1>3, <1>4, <1>5, <1>6 DEF h

LEMMA HitHeaders ==
    ASSUME NEW q, NEW r \in Responses, NEW n
    PROVE  LET h == [CacheCopy(q, r) EXCEPT !.policy = MergeNonce(@, n),
                                            !.reportOnly = MergeNonce(@, n), !.cache = "hit"]
           IN  /\ AdmitsScript(h.policy, n) /\ AdmitsScript(h.reportOnly, n)
               /\ NoncesOf(h.policy, n) /\ h.encoded = r.encoded /\ h.setCookie = {}
<1> DEFINE h == [CacheCopy(q, r) EXCEPT !.policy = MergeNonce(@, n),
                                        !.reportOnly = MergeNonce(@, n), !.cache = "hit"]
<1>1. /\ h.policy = MergeNonce(r.policy, n) /\ h.reportOnly = MergeNonce(r.reportOnly, n)
      /\ h.encoded = r.encoded /\ h.setCookie = {}
  BY DEF CacheCopy, Headers
<1> HIDE DEF h
<1>2. NoncesOf(r.policy, n)
  BY ResponseAssumption DEF NoncesOf
<1>3. NoncesOf(MergeNonce(r.policy, n), n)
  BY <1>2, MergedNonces
<1>4. AdmitsScript(MergeNonce(r.policy, n), n) /\ AdmitsScript(MergeNonce(r.reportOnly, n), n)
  BY NonceMerged
<1> QED
  BY <1>1, <1>3, <1>4 DEF h

\* The kinds of the atoms of a body that is sent.
LEMMA BodyKinds ==
    ASSUME NEW q \in Requests, NEW s \in Seq(SentAtoms(q)), NEW n \in Nat
    PROVE  /\ DOMAIN Nonced(s, n) = 1..Len(s)
           /\ \A i \in 1..Len(s) :
                 LET a == Nonced(s, n)[i]
                 IN  /\ a[1] # "token" /\ (a[1] = "nonce" => a[2] = n)
                     /\ a[1] = "manager" => a[2] = q.gpc
<1>1. s \in Seq(Atoms)
  BY SentIs
<1>2. /\ Nonced(s, n) \in Seq(Atoms) /\ Len(Nonced(s, n)) = Len(s)
      /\ \A i \in 1..Len(s) : Nonced(s, n)[i] = IF s[i][1] = "token" THEN <<"nonce", n>> ELSE s[i]
  BY <1>1, NoncedIs
<1>3. DOMAIN Nonced(s, n) = 1..Len(s)
  BY <1>1 DEF Nonced
<1>4. ASSUME NEW a \in SentAtoms(q)
      PROVE  a[1] # "nonce" /\ (a[1] = "manager" => a[2] = q.gpc)
  <2>1. \/ a \in OriginAtoms \/ a \in {"manager"} \X {q.gpc} \/ a \in {"token"} \X {1, 2, 3}
        \/ a \in {"loaded"} \X {0} \/ a \in {"blocked", "frame"} \X Stopped
    BY DEF SentAtoms, Fed
  <2>2. CASE a \in OriginAtoms
    BY <2>2, OriginIs
  <2>3. CASE a \in {"manager"} \X {q.gpc}
    BY <2>3
  <2>4. CASE a \in {"token"} \X {1, 2, 3} \/ a \in {"loaded"} \X {0}
    BY <2>4
  <2>5. CASE a \in {"blocked", "frame"} \X Stopped
    BY <2>5
  <2> QED
    BY <2>1, <2>2, <2>3, <2>4, <2>5
<1>5. \A i \in 1..Len(s) : s[i] \in SentAtoms(q)
  BY ElementOfSeq
<1>6. ASSUME NEW i \in 1..Len(s)
      PROVE  LET a == Nonced(s, n)[i]
             IN  /\ a[1] # "token" /\ (a[1] = "nonce" => a[2] = n)
                 /\ a[1] = "manager" => a[2] = q.gpc
  <2> DEFINE a == Nonced(s, n)[i]
  <2>1. a = IF s[i][1] = "token" THEN <<"nonce", n>> ELSE s[i]
    BY <1>2
  <2>2. s[i][1] # "nonce" /\ (s[i][1] = "manager" => s[i][2] = q.gpc)
    BY <1>4, <1>5
  <2> HIDE DEF a
  <2>3. /\ a[1] # "token" /\ (a[1] = "nonce" => a[2] = n)
        /\ a[1] = "manager" => a[2] = q.gpc
    BY <2>1, <2>2
  <2> QED
    BY <2>3 DEF a
<1> QED
  BY <1>3, <1>6

LEMMA PageFits == PageIInv => ResponseFits
<1> SUFFICES ASSUME PageIInv, Done, IsHtml(response.origin) PROVE ResponseFits
  BY DEF ResponseFits
<1> DEFINE Of(kind) == {response.body[i][2] : i \in {j \in DOMAIN response.body :
                                                         response.body[j][1] = kind}}
           miss == response.how = "miss"
           named == UNION {response.headers.policy[d] : d \in DOMAIN response.headers.policy}
           h == response.headers
<1>1. /\ response # None /\ response.complete /\ ResponseIs(response)
      /\ HeadersFit(response, served) /\ Rendered(response, served) /\ served \in Nat
  BY SizeAssumption DEF Done, PageIInv
<1>2. /\ response.request \in Requests /\ response.origin \in Responses
      /\ response.how \in {"miss", "hit"}
  BY <1>1 DEF ResponseIs
<1>3. PICK q \in Requests, s \in Seq(Atoms) :
             /\ Shown(response.origin.page, q, response.raw, s) /\ response.body = Nonced(s, served)
             /\ miss => q = response.request
  BY <1>1 DEF Rendered
<1>4. s \in Seq(SentAtoms(q))
  BY <1>3 DEF Shown
<1>5. /\ DOMAIN response.body = 1..Len(s)
      /\ \A i \in 1..Len(s) :
            /\ response.body[i][1] # "token" /\ (response.body[i][1] = "nonce" => response.body[i][2] = served)
            /\ response.body[i][1] = "manager" => response.body[i][2] = q.gpc
  BY <1>1, <1>3, <1>4, BodyKinds
<1>6. Of("token") = {} /\ Of("nonce") \subseteq {served} /\ Of("manager") \subseteq {q.gpc}
  BY <1>5
<1> HIDE DEF Of
<1>7. /\ AdmitsScript(h.policy, served) /\ AdmitsScript(h.reportOnly, served)
      /\ NoncesOf(h.policy, served)
      /\ ~miss => /\ h.setCookie = {} /\ response.origin.setCookie \subseteq HarmlessCookies
      /\ miss => (config.api => AdmitsApi(h.policy))
      /\ h.encoded => ~miss /\ response.origin.encoded
  <2>1. CASE miss
    <3>1. h = HtmlHeaders(response.request, response.origin, served)
      BY <1>1, <2>1 DEF HeadersFit
    <3> HIDE DEF h
    <3> QED
      BY <1>2, <2>1, <3>1, MissHeaders
  <2>2. CASE ~miss
    <3>1. PICK m \in Requests :
                 /\ ResponseEligible(m, response.origin, config)
                 /\ h = [CacheCopy(m, response.origin) EXCEPT !.policy = MergeNonce(@, served),
                                                              !.reportOnly = MergeNonce(@, served),
                                                              !.cache = "hit"]
      BY <1>1, <2>2 DEF HeadersFit
    <3>2. response.origin.setCookie \subseteq HarmlessCookies
      BY <3>1 DEF ResponseEligible
    <3> DEFINE hit == [CacheCopy(m, response.origin) EXCEPT !.policy = MergeNonce(@, served),
                                                            !.reportOnly = MergeNonce(@, served),
                                                            !.cache = "hit"]
    <3>4. /\ AdmitsScript(hit.policy, served) /\ AdmitsScript(hit.reportOnly, served)
          /\ NoncesOf(hit.policy, served) /\ hit.encoded = response.origin.encoded
          /\ hit.setCookie = {}
      BY <1>2, HitHeaders
    <3>5. h = hit
      BY <3>1
    <3> HIDE DEF h, hit
    <3>3. /\ AdmitsScript(h.policy, served) /\ AdmitsScript(h.reportOnly, served)
          /\ NoncesOf(h.policy, served) /\ h.encoded = response.origin.encoded /\ h.setCookie = {}
      BY <3>4, <3>5
    <3> QED
      BY <2>2, <3>2, <3>3
  <2> QED
    BY <2>1, <2>2
<1>8. \A s0 \in named : s0[1] = "nonce" => s0[2] = served
  BY <1>7 DEF NoncesOf
<1>9. \A n \in Of("nonce") : AdmitsScript(h.policy, n) /\ AdmitsScript(h.reportOnly, n)
  BY <1>6, <1>7
<1>10. miss => Of("manager") \subseteq {response.request.gpc}
  BY <1>3, <1>6
<1> HIDE DEF named
<1> QED
  BY <1>6, <1>7, <1>8, <1>9, <1>10 DEF ResponseFits, Of, named

\* Header and body of a response belong together, however the page was cut into
\* chunks and whatever the cache has kept: one nonce, whose scripts the policy lets
\* run, and nobody else's cookies.
THEOREM ResponsesAlwaysFit == Spec => []ResponseFits
BY PageInductive, PageFits, PTL

-----------------------------------------------------------------------------
LEMMA NoncedBlurred ==
    ASSUME NEW s \in Seq(Atoms), NEW n \in Nat
    PROVE  Blurred(Nonced(s, n)) = Blurred(s)
<1> DEFINE z == Nonced(s, n)
<1>1. /\ z \in Seq(Atoms) /\ Len(z) = Len(s)
      /\ \A i \in 1..Len(s) : z[i] = IF s[i][1] = "token" THEN <<"nonce", n>> ELSE s[i]
  BY NoncedIs
<1> HIDE DEF z
<1>2. /\ Blurred(z) \in Seq(Atoms) /\ Len(Blurred(z)) = Len(s)
      /\ \A i \in 1..Len(s) : Blurred(z)[i] = BlurredAtom(z[i])
  BY <1>1, BlurredIs
<1>3. /\ Blurred(s) \in Seq(Atoms) /\ Len(Blurred(s)) = Len(s)
      /\ \A i \in 1..Len(s) : Blurred(s)[i] = BlurredAtom(s[i])
  BY BlurredIs
<1>4. \A a, b : a[1] = "token" /\ b[1] = "nonce" => BlurredAtom(a) = BlurredAtom(b)
  BY DEF BlurredAtom
<1>5. <<"nonce", n>>[1] = "nonce"
  OBVIOUS
<1>6. \A i \in 1..Len(s) : BlurredAtom(z[i]) = BlurredAtom(s[i])
  BY <1>1, <1>4, <1>5
<1>7. Blurred(z) = Blurred(s)
  BY <1>2, <1>3, <1>6, AtomsEqual
<1> QED
  BY <1>7 DEF z

\* What is sent raw has no token.
LEMMA RawIs ==
    ASSUME NEW page \in Seq(OriginAtoms), NEW n \in Nat
    PROVE  Nonced(page, n) = page
<1> DEFINE z == Nonced(page, n)
<1>1. page \in Seq(Atoms)
  BY OriginIs
<1>2. /\ z \in Seq(Atoms) /\ Len(z) = Len(page)
      /\ \A i \in 1..Len(page) : z[i] = IF page[i][1] = "token" THEN <<"nonce", n>> ELSE page[i]
  BY <1>1, NoncedIs
<1>3. \A i \in 1..Len(page) : page[i][1] # "token"
  <2>1. \A i \in 1..Len(page) : page[i] \in OriginAtoms
    BY ElementOfSeq
  <2> QED
    BY <2>1, OriginIs
<1> HIDE DEF z
<1>4. z = page
  BY <1>1, <1>2, <1>3, AtomsEqual
<1> QED
  BY <1>4 DEF z

LEMMA PageFaithful == PageIInv => Faithful
<1> SUFFICES ASSUME PageIInv, Done PROVE Faithful
  BY DEF Faithful
<1> DEFINE page == response.origin.page
           q == response.request
           body == response.body
<1>1. /\ response # None /\ response.complete /\ ResponseIs(response) /\ Rendered(response, served)
      /\ served \in Nat /\ config \in Configs
  BY SizeAssumption DEF Done, PageIInv
<1>2. q \in Requests /\ page \in Seq(OriginAtoms) /\ response.raw \in BOOLEAN
  BY <1>1, ResponseAssumption DEF ResponseIs
<1>3. PICK m \in Requests, s \in Seq(Atoms) :
             Shown(page, m, response.raw, s) /\ body = Nonced(s, served)
  BY <1>1 DEF Rendered
<1> HIDE DEF page, q, body
<1>4. page \in Seq(Atoms)
  BY <1>2, OriginIs
<1>5. CASE response.raw
  <2>1. body = page
    BY <1>1, <1>2, <1>3, <1>5, RawIs DEF Shown
  <2> QED
    BY <1>5, <2>1 DEF Faithful, body, page
<1>6. CASE ~response.raw
  <2>1. PICK P \in Injections(page, m) : Blurred(s) = Blurred(Block(0, P).out)
    BY <1>3, <1>6 DEF Shown
  <2>2. P \in Seq(Atoms)
    BY <1>1, <1>4, <1>2, InjectionsAlike
  <2>3. PICK R \in Injections(page, q) : R \in Seq(Atoms) /\ Blurred(R) = Blurred(P)
    BY <1>1, <1>2, <1>4, InjectionsAlike
  <2>4. Blurred(Block(0, R).out) = Blurred(Block(0, P).out)
    BY <2>2, <2>3, BlockAlike
  <2>5. Blurred(body) = Blurred(s)
    BY <1>1, <1>3, NoncedBlurred
  <2>6. Blurred(body) = Blurred(Block(0, R).out)
    BY <2>1, <2>4, <2>5
  <2>7. Blurred(body) \in {Blurred(Block(0, p).out) : p \in Injections(page, q)}
    BY <2>6
  <2> QED
    BY <1>6, <2>7 DEF Faithful, body, page, q
<1> QED
  BY <1>2, <1>5, <1>6

\* However a page is cut into chunks, what is sent is the page as a whole with the
\* scripts injected and the elements blocked; and so is what the cache sends later.
THEOREM AlwaysFaithful == Spec => []Faithful
BY PageInductive, PageFaithful, PTL

-----------------------------------------------------------------------------
\* The kinds of atoms that consent is about.
Elemental == {"tag", "blocked", "frame"}

LEMMA ElementsAlike ==
    ASSUME NEW s \in Seq(Atoms), NEW t \in Seq(Atoms), Blurred(s) = Blurred(t)
    PROVE  /\ Len(s) = Len(t)
           /\ \A i \in 1..Len(t) : s[i][1] \in Elemental \/ t[i][1] \in Elemental => s[i] = t[i]
<1>1. Len(Blurred(s)) = Len(s) /\ \A i \in 1..Len(s) : Blurred(s)[i] = BlurredAtom(s[i])
  BY BlurredIs
<1>2. Len(Blurred(t)) = Len(t) /\ \A i \in 1..Len(t) : Blurred(t)[i] = BlurredAtom(t[i])
  BY BlurredIs
<1>3. ASSUME NEW a \in Atoms, NEW b \in Atoms, BlurredAtom(a) = BlurredAtom(b), a[1] \in Elemental
      PROVE  a = b
  <2>1. a[1] \notin Vague
    BY <1>3 DEF Elemental, Vague
  <2>2. BlurredAtom(a) = a
    BY <2>1, BlurredAtomIs
  <2>3. b[1] \notin Vague
    <3>1. b[1] \in Vague => BlurredAtom(b)[1] \in {"bad", "manager", "token"}
      BY BlurredAtomIs
    <3> QED
      BY <1>3, <2>2, <3>1 DEF Elemental
  <2>4. BlurredAtom(b) = b
    BY <2>3, BlurredAtomIs
  <2> QED
    BY <1>3, <2>2, <2>4
<1>4. Len(s) = Len(t)
  BY <1>1, <1>2
<1>5. /\ \A i \in 1..Len(s) : s[i] \in Atoms
      /\ \A i \in 1..Len(t) : t[i] \in Atoms
  BY ElementOfSeq
<1> QED
  BY <1>1, <1>2, <1>3, <1>4, <1>5

LEMMA AroundAt ==
    ASSUME NEW u \in Seq(Atoms), NEW t \in Seq(Atoms), NEW v \in Seq(Atoms)
    PROVE  LET P == Around(u, t, v)
           IN  /\ P \in Seq(Atoms) /\ Len(P) = Len(u) + Len(t) + Len(v)
               /\ \A i \in 1..Len(u) : P[i] = u[i]
               /\ \A i \in 1..Len(t) : P[i + Len(u)] = t[i]
               /\ \A i \in 1..Len(v) : P[i + Len(u) + Len(t)] = v[i]
<1> DEFINE ut == u \o t
           P == Around(u, t, v)
<1>1. /\ ut \in Seq(Atoms) /\ Len(ut) = Len(u) + Len(t) /\ Len(u) \in Nat /\ Len(t) \in Nat
      /\ \A i \in 1..Len(u) : ut[i] = u[i]
      /\ \A i \in 1..Len(t) : ut[i + Len(u)] = t[i]
  BY AtomsJoined, JoinedAt
<1>2. P = ut \o v
  BY DEF Around
<1> HIDE DEF ut, P
<1>3. /\ P \in Seq(Atoms) /\ Len(P) = Len(ut) + Len(v) /\ Len(v) \in Nat
      /\ \A i \in 1..Len(ut) : P[i] = ut[i]
      /\ \A i \in 1..Len(v) : P[i + Len(ut)] = v[i]
  BY <1>1, <1>2, AtomsJoined, JoinedAt
<1>4. \A i \in 1..Len(u) : P[i] = u[i]
  BY <1>1, <1>3
<1>5. \A i \in 1..Len(t) : P[i + Len(u)] = t[i]
  BY <1>1, <1>3
<1>6. \A i \in 1..Len(v) : P[i + Len(u) + Len(t)] = v[i]
  <2>1. \A i \in 1..Len(v) : i + Len(u) + Len(t) = i + Len(ut)
    BY <1>1
  <2> QED
    BY <1>3, <2>1
<1>7. P \in Seq(Atoms) /\ Len(P) = Len(u) + Len(t) + Len(v)
  BY <1>1, <1>3
<1> QED
  BY <1>4, <1>5, <1>6, <1>7 DEF P

\* The scripts come between two atoms of the page and have no tag of an element.
LEMMA NestedAround ==
    ASSUME NEW q \in Requests, NEW u \in Seq(Atoms), NEW v \in Seq(Atoms), Nested(u \o v)
    PROVE  LET P == Around(u, Tag(q), v)
               page == u \o v
           IN  /\ P \in Seq(Atoms) /\ Nested(P)
               /\ \A i \in 1..Len(page) : \E g \in 1..Len(P) :
                     P[g] = page[i] /\ \A j \in i..Len(page) : \E h \in g..Len(P) : P[h] = page[j]
<1> DEFINE t == Tag(q)
           P == Around(u, t, v)
           page == u \o v
           U == Len(u)
           V == Len(v)
           Out(i) == IF i <= U THEN i ELSE i + 5
           In(i) == IF i <= U THEN i ELSE i - 5
<1>0. t \in Seq(Atoms) /\ Len(t) = 5 /\ \A i \in 1..5 : t[i][1] \notin {"tag", "end"}
  <2>1. t \in Seq(Atoms) /\ Len(t) = 5 /\ t \in Seq({a \in Atoms : a[1] \notin {"tag", "end"}})
    BY TagIs
  <2> HIDE DEF t
  <2>2. \A i \in 1..Len(t) : t[i] \in {a \in Atoms : a[1] \notin {"tag", "end"}}
    BY <2>1, ElementOfSeq
  <2> QED
    BY <2>1, <2>2
<1>1. /\ page \in Seq(Atoms) /\ Len(page) = U + V /\ U \in Nat /\ V \in Nat
      /\ \A i \in 1..U : page[i] = u[i]
      /\ \A i \in 1..V : page[i + U] = v[i]
  BY AtomsJoined, JoinedAt
<1> HIDE DEF t
<1>2. /\ P \in Seq(Atoms) /\ Len(P) = U + 5 + V
      /\ \A i \in 1..U : P[i] = u[i]
      /\ \A i \in 1..5 : P[i + U] = t[i]
      /\ \A i \in 1..V : P[i + U + 5] = v[i]
  <2>1. /\ P \in Seq(Atoms) /\ Len(P) = U + Len(t) + V
        /\ \A i \in 1..U : P[i] = u[i]
        /\ \A i \in 1..Len(t) : P[i + U] = t[i]
        /\ \A i \in 1..V : P[i + U + Len(t)] = v[i]
    BY <1>0, AroundAt
  <2> HIDE DEF P, U, V
  <2> QED
    BY <1>0, <2>1
<1>3. Nested(page)
  OBVIOUS
<1> HIDE DEF P, page, U, V
<1>4. \A i \in 1..U + V : Out(i) \in 1..U + 5 + V /\ P[Out(i)] = page[i]
  <2> SUFFICES ASSUME NEW i \in 1..U + V PROVE Out(i) \in 1..U + 5 + V /\ P[Out(i)] = page[i]
    OBVIOUS
  <2>1. CASE i <= U
    BY <1>1, <1>2, <2>1
  <2>2. CASE i > U
    <3>1. i - U \in 1..V /\ i - U + U = i /\ i - U + U + 5 = i + 5
      BY <1>1, <2>2
    <3>2. page[i] = v[i - U] /\ P[i + 5] = v[i - U]
      BY <1>1, <1>2, <3>1
    <3> QED
      BY <1>1, <2>2, <3>2
  <2> QED
    BY <1>1, <2>1, <2>2
<1>5. ASSUME NEW i \in 1..U + 5 + V, P[i][1] = "tag"
      PROVE  In(i) \in 1..U + V /\ page[In(i)] = P[i] /\ (i <= U \/ i > U + 5)
  <2>1. i <= U \/ i > U + 5
    <3> SUFFICES ASSUME i > U, i <= U + 5 PROVE FALSE
      BY <1>1
    <3>1. i - U \in 1..5 /\ i - U + U = i
      BY <1>1
    <3>2. P[i] = t[i - U]
      BY <1>2, <3>1
    <3> QED
      BY <1>0, <1>5, <3>1, <3>2
  <2>2. CASE i <= U
    BY <1>1, <1>2, <2>2
  <2>3. CASE i > U + 5
    <3>1. i - 5 - U \in 1..V /\ i - 5 - U + U = i - 5 /\ i - 5 - U + U + 5 = i
      BY <1>1, <2>3
    <3>2. page[i - 5] = v[i - 5 - U] /\ P[i] = v[i - 5 - U]
      BY <1>1, <1>2, <3>1
    <3> QED
      BY <1>1, <2>3, <3>2
  <2> QED
    BY <2>1, <2>2, <2>3
<1>6. DOMAIN P = 1..U + 5 + V /\ DOMAIN page = 1..U + V
  BY <1>1, <1>2, LenProperties
<1>7. ASSUME NEW i \in 1..U + 5 + V, NEW j \in 1..U + 5 + V, i < j, Opens(P[i]), P[j][1] = "tag"
      PROVE  \E k \in i..j : P[k][1] = "end"
  <2>1. P[i][1] = "tag"
    BY <1>7 DEF Opens
  <2>2. In(i) \in 1..U + V /\ page[In(i)] = P[i] /\ (i <= U \/ i > U + 5)
    BY <1>5, <2>1
  <2>3. In(j) \in 1..U + V /\ page[In(j)] = P[j] /\ (j <= U \/ j > U + 5)
    BY <1>5, <1>7
  <2>4. In(i) < In(j)
    BY <1>1, <1>7, <2>2, <2>3
  <2>5. Opens(page[In(i)]) /\ page[In(j)][1] = "tag"
    BY <1>7, <2>2, <2>3
  <2>6. PICK k \in In(i)..In(j) : page[k][1] = "end"
    <3> DEFINE ii == In(i)
               jj == In(j)
    <3>1. ii \in DOMAIN page /\ jj \in DOMAIN page /\ ii < jj /\ Opens(page[ii]) /\ page[jj][1] = "tag"
      BY <1>6, <2>2, <2>3, <2>4, <2>5
    <3> HIDE DEF ii, jj
    <3>2. \E k \in ii..jj : page[k][1] = "end"
      BY <1>3, <3>1 DEF Nested
    <3> QED
      BY <3>2 DEF ii, jj
  <2>7. k \in 1..U + V
    BY <1>1, <2>2, <2>3
  <2>8. Out(k) \in i..j
    BY <1>1, <2>2, <2>3, <2>7
  <2>9. P[Out(k)] = page[k]
    BY <1>4, <2>7
  <2> QED
    BY <2>6, <2>8, <2>9
<1>8. Nested(P)
  BY <1>6, <1>7 DEF Nested
<1>9. ASSUME NEW i \in 1..U + V
      PROVE  \E g \in 1..U + 5 + V :
                P[g] = page[i] /\ \A j \in i..U + V : \E h \in g..U + 5 + V : P[h] = page[j]
  <2>1. Out(i) \in 1..U + 5 + V /\ P[Out(i)] = page[i]
    BY <1>4
  <2>2. ASSUME NEW j \in i..U + V
        PROVE  \E h \in Out(i)..U + 5 + V : P[h] = page[j]
    <3>1. j \in 1..U + V
      BY <1>1
    <3>2. Out(j) \in 1..U + 5 + V /\ P[Out(j)] = page[j]
      BY <1>4, <3>1
    <3>3. Out(j) \in Out(i)..U + 5 + V
      BY <1>1, <3>1, <3>2
    <3> QED
      BY <3>2, <3>3
  <2> QED
    BY <2>1, <2>2
<1>10. /\ P \in Seq(Atoms) /\ Nested(P)
       /\ \A i \in 1..Len(page) : \E g \in 1..Len(P) :
             P[g] = page[i] /\ \A j \in i..Len(page) : \E h \in g..Len(P) : P[h] = page[j]
  <2>1. Len(P) = U + 5 + V /\ Len(page) = U + V
    BY <1>1, <1>2
  <2>2. \A i \in 1..U + V : \E g \in 1..U + 5 + V :
           P[g] = page[i] /\ \A j \in i..U + V : \E h \in g..U + 5 + V : P[h] = page[j]
    BY <1>9
  <2>3. \A i \in 1..Len(page) : \E g \in 1..Len(P) :
           P[g] = page[i] /\ \A j \in i..Len(page) : \E h \in g..Len(P) : P[h] = page[j]
    <3> DEFINE l == U + 5 + V
               m == U + V
    <3>1. Len(P) = l /\ Len(page) = m
      BY <2>1
    <3>2. \A i \in 1..m : \E g \in 1..l :
             P[g] = page[i] /\ \A j \in i..m : \E h \in g..l : P[h] = page[j]
      BY <2>2
    <3> HIDE DEF l, m
    <3> QED
      BY <3>1, <3>2
  <2> QED
    BY <1>2, <1>8, <2>3
<1> QED
  BY <1>10 DEF P, page, t

\* What runs of what the blocker has passed on is concerned by the consent.
LEMMA ConsentLimits ==
    ASSUME config \in Configs, NEW q \in Requests, NEW o \in Seq(Passed(Fed(q))),
           NEW body \in Seq(Atoms), Blurred(body) = Blurred(o),
           NEW granted \in SUBSET Names, NEW x \in Live(body, granted), Covered(Elements[x], config)
    PROVE  KeysOf(Elements[x], config) \cap (granted \cup config.required) # {}
<1>1. WellFormed(config)
  BY ConfigAssumption
<1>2. Fed(q) \subseteq Sendable
  BY FedIs
<1>3. o \in Seq(Atoms)
  BY <1>2, PassedIs
<1>4. PICK i \in DOMAIN body :
             /\ x = body[i][2]
             /\ \/ body[i][1] = "tag"
                \/ body[i][1] \in {"blocked", "frame"} /\ MayUnblock(Elements[x], granted, config)
  BY DEF Live
<1>5. body[i] = o[i] /\ i \in 1..Len(o)
  <2>1. DOMAIN body = 1..Len(body) /\ Len(body) = Len(o)
    BY <1>3, ElementsAlike, LenProperties
  <2>2. body[i][1] \in Elemental
    BY <1>4 DEF Elemental
  <2> QED
    BY <1>3, <2>1, <2>2, ElementsAlike
<1>6. o[i] \in Passed(Fed(q))
  BY <1>5, ElementOfSeq
<1>7. \/ o[i] \in Sendable /\ ~Blocked(o[i])
      \/ o[i][1] \in {"blocked", "frame"} /\ o[i][2] \in Stopped
  BY <1>2, <1>6, PassedIs
<1>8. CASE body[i][1] = "tag"
  <2>1. o[i] \in Sendable /\ ~Blocked(o[i]) /\ o[i][1] = "tag" /\ x = o[i][2]
    BY <1>4, <1>5, <1>7, <1>8
  <2>2. x \in DOMAIN Elements /\ Decide(Elements[x], config) = None
    BY <2>1 DEF Sendable, Blocked
  <2>3. Elements[x] \in Element
    BY <2>2, ElementsAre
  <2>4. ~Covered(Elements[x], config)
    BY <1>1, <2>2, <2>3, BlockedIffCovered
  <2> QED
    BY <2>4
<1>9. CASE body[i][1] \in {"blocked", "frame"}
  <2>1. x \in Stopped /\ MayUnblock(Elements[x], granted, config)
    BY <1>4, <1>5, <1>7, <1>9 DEF Sendable
  <2>2. Elements[x] \in Element
    BY <2>1, ElementsAre DEF Stopped
  <2> QED
    BY <1>1, <2>1, <2>2, ConsentConcerns
<1> QED
  BY <1>4, <1>8, <1>9

\* What the origin has sent runs under full consent.
LEMMA ConsentGives ==
    ASSUME config \in Configs, NEW q \in Requests, NEW P \in Seq(Atoms), Nested(P),
           Block(0, P).out \in Seq(Passed(Fed(q))),
           NEW body \in Seq(Atoms), Blurred(body) = Blurred(Block(0, P).out),
           NEW g \in 1..Len(P), P[g][1] = "tag", P[g][2] \in DOMAIN Elements,
           Opens(P[g]) => \E h \in g..Len(P) : P[h][1] = "end",
           Decide(Elements[P[g][2]], config) # None =>
              ~Orphaned(Decide(Elements[P[g][2]], config), config)
    PROVE  P[g][2] \in Live(body, FullConsent(config))
<1> DEFINE o == Block(0, P).out
           x == P[g][2]
<1>1. WellFormed(config) /\ Fed(q) \subseteq Sendable
  BY ConfigAssumption, FedIs
<1>2. o \in Seq(Passed(Fed(q))) /\ o \in Seq(Atoms) /\ Blurred(body) = Blurred(o)
  BY <1>1, PassedIs
<1>3. PICK k \in {"tag", "blocked", "frame"} : Shows(o, k, x)
  BY ElementShows
<1>4. /\ x \in DOMAIN Elements
      /\ Decide(Elements[x], config) # None => ~Orphaned(Decide(Elements[x], config), config)
  OBVIOUS
<1> HIDE DEF o, x
<1>5. PICK i \in 1..Len(o) : o[i] = <<k, x>>
  BY <1>3 DEF Shows
<1>6. o[i][1] = k /\ o[i][2] = x
  BY <1>5
<1>7. i \in DOMAIN body /\ body[i] = o[i]
  <2>1. Len(body) = Len(o) /\ DOMAIN body = 1..Len(body)
    BY <1>2, ElementsAlike, LenProperties
  <2>2. o[i][1] \in Elemental
    BY <1>6 DEF Elemental
  <2> QED
    BY <1>2, <2>1, <2>2, ElementsAlike
<1>8. k = "tag" \/ MayUnblock(Elements[x], FullConsent(config), config)
  <2> SUFFICES ASSUME k # "tag" PROVE MayUnblock(Elements[x], FullConsent(config), config)
    OBVIOUS
  <2>1. o[i] \in Passed(Fed(q))
    BY <1>2, ElementOfSeq
  <2>2. \/ o[i] \in Sendable
        \/ o[i][2] \in Stopped
    BY <1>1, <2>1, PassedIs
  <2>3. x \in Stopped
    BY <1>6, <2>2 DEF Sendable
  <2>4. Elements[x] \in Element /\ Decide(Elements[x], config) # None
    BY <2>3, ElementsAre DEF Stopped
  <2>5. Covered(Elements[x], config)
    BY <1>1, <2>4, BlockedIffCovered
  <2> QED
    BY <1>1, <1>4, <2>4, <2>5, FullConsentGives
<1>9. /\ body[i][1] = k /\ body[i][2] = x
  BY <1>6, <1>7
<1>10. x \in Live(body, FullConsent(config))
  BY <1>7, <1>8, <1>9 DEF Live
<1> QED
  BY <1>10 DEF x

\* An injected page keeps the page's tags in their order.
LEMMA InjectedNests ==
    ASSUME config \in Configs, NEW page \in Seq(OriginAtoms), Nested(page), NEW q \in Requests,
           NEW P \in Injections(page, q)
    PROVE  /\ P \in Seq(Atoms) /\ Nested(P) /\ Block(0, P).out \in Seq(Passed(Fed(q)))
           /\ \A i \in 1..Len(page) : \E g \in 1..Len(P) :
                 P[g] = page[i] /\ \A j \in i..Len(page) : \E h \in g..Len(P) : P[h] = page[j]
<1>0. page \in Seq(Atoms) /\ Tag(q) \in Seq(Atoms)
  BY OriginIs, TagIs
<1>1. CASE P = page
  <2>1. Delivery(P, q)
    BY <1>1 DEF Delivery
  <2>2. 0 \in Openable
    BY DEF Openable
  <2>3. P \in Seq(Atoms) /\ Block(0, P).out \in Seq(Passed(Fed(q)))
    BY <2>1, <2>2, DeliveryPasses
  <2>4. ASSUME NEW i \in 1..Len(page)
        PROVE  P[i] = page[i] /\ \A j \in i..Len(page) : \E h \in i..Len(P) : P[h] = page[j]
    BY <1>1
  <2> QED
    BY <1>1, <2>3, <2>4
<1>2. ASSUME NEW u \in Seq(OriginAtoms), NEW v \in Seq(OriginAtoms),
             page = u \o v, P = Around(u, Tag(q), v)
      PROVE  /\ P \in Seq(Atoms) /\ Nested(P) /\ Block(0, P).out \in Seq(Passed(Fed(q)))
             /\ \A i \in 1..Len(page) : \E g \in 1..Len(P) :
                   P[g] = page[i] /\ \A j \in i..Len(page) : \E h \in g..Len(P) : P[h] = page[j]
  <2>1. u \in Seq(Atoms) /\ v \in Seq(Atoms)
    BY OriginIs
  <2>2. P = u \o (Tag(q) \o v)
    BY <1>0, <1>2, <2>1, AtomsAssociate DEF Around
  <2>3. Delivery(P, q)
    BY <2>2 DEF Delivery
  <2>4. 0 \in Openable
    BY DEF Openable
  <2>5. P \in Seq(Atoms) /\ Block(0, P).out \in Seq(Passed(Fed(q)))
    BY <2>3, <2>4, DeliveryPasses
  <2> DEFINE R == Around(u, Tag(q), v)
             w == u \o v
  <2>6. P = R /\ page = w /\ Nested(w)
    BY <1>2
  <2>7. /\ Nested(R)
        /\ \A i \in 1..Len(w) : \E g \in 1..Len(R) :
              R[g] = w[i] /\ \A j \in i..Len(w) : \E h \in g..Len(R) : R[h] = w[j]
    BY <2>1, <2>6, NestedAround
  <2> HIDE DEF R, w
  <2> QED
    BY <2>5, <2>6, <2>7
<1> QED
  BY <1>1, <1>2, InjectionIs

LEMMA PageConsent == PageIInv => ConsentGoverns
<1> SUFFICES ASSUME PageIInv, Transformed PROVE ConsentGoverns
  BY DEF ConsentGoverns
<1> DEFINE sent == response.origin.page
           body == response.body
           full == FullConsent(config)
           Orphan(e) == Decide(e, config) # None /\ Orphaned(Decide(e, config), config)
<1>1. /\ response # None /\ response.complete /\ ~response.raw
      /\ ResponseIs(response) /\ Rendered(response, served)
      /\ served \in Nat /\ config \in Configs
  BY SizeAssumption DEF Transformed, Done, PageIInv
<1>2. /\ sent \in Seq(OriginAtoms) /\ Nested(sent) /\ response.raw \in BOOLEAN
      /\ body \in Seq(Atoms)
  BY <1>1, ResponseAssumption DEF ResponseIs
<1>3. PICK q \in Requests, s \in Seq(Atoms) :
             Shown(sent, q, response.raw, s) /\ body = Nonced(s, served)
  BY <1>1 DEF Rendered
<1> HIDE DEF sent, body
<1>4. PICK P \in Injections(sent, q) : Blurred(s) = Blurred(Block(0, P).out)
  BY <1>1, <1>3 DEF Shown
<1> DEFINE o == Block(0, P).out
<1>5. /\ P \in Seq(Atoms) /\ Nested(P) /\ o \in Seq(Passed(Fed(q)))
      /\ \A i \in 1..Len(sent) : \E g \in 1..Len(P) :
            P[g] = sent[i] /\ \A j \in i..Len(sent) : \E h \in g..Len(P) : P[h] = sent[j]
  BY <1>1, <1>2, InjectedNests
<1>6. Blurred(body) = Blurred(o)
  BY <1>1, <1>3, <1>4, NoncedBlurred
<1>7. full \cup {"discovered"} \subseteq Names
  BY <1>1, ConfigAssumption, NameAssumption DEF FullConsent, WellFormed
<1>8. \A granted \in SUBSET (full \cup {"discovered"}) : \A x \in Live(body, granted) :
         Covered(Elements[x], config) =>
            KeysOf(Elements[x], config) \cap (granted \cup config.required) # {}
  <2> HIDE DEF o, full
  <2> SUFFICES ASSUME NEW granted \in SUBSET (full \cup {"discovered"}), NEW x \in Live(body, granted),
                      Covered(Elements[x], config)
               PROVE  KeysOf(Elements[x], config) \cap (granted \cup config.required) # {}
    OBVIOUS
  <2>1. granted \in SUBSET Names
    BY <1>7
  <2> QED
    BY <1>1, <1>2, <1>5, <1>6, <2>1, ConsentLimits
<1>9. ASSUME NEW i \in DOMAIN sent, sent[i][1] = "tag", ~Orphan(Elements[sent[i][2]]),
             Opens(sent[i]) => \E j \in i..Len(sent) : sent[j][1] = "end"
      PROVE  sent[i][2] \in Live(body, full)
  <2>1. i \in 1..Len(sent) /\ sent[i] \in OriginAtoms
    BY <1>2, LenProperties, ElementOfSeq
  <2>2. PICK g \in 1..Len(P) :
               P[g] = sent[i] /\ \A j \in i..Len(sent) : \E h \in g..Len(P) : P[h] = sent[j]
    BY <1>5, <2>1
  <2>3. Opens(P[g]) => \E h \in g..Len(P) : P[h][1] = "end"
    BY <1>9, <2>2
  <2>4. sent[i][2] \in DOMAIN Elements
    BY <1>9, <2>1, OriginIs DEF Sendable
  <2>5. P[g][1] = "tag" /\ P[g][2] \in DOMAIN Elements /\ ~Orphan(Elements[P[g][2]])
    BY <1>9, <2>2, <2>4
  <2>6. P[g][2] \in Live(body, full)
    <3>1. Decide(Elements[P[g][2]], config) # None =>
             ~Orphaned(Decide(Elements[P[g][2]], config), config)
      BY <2>5
    <3> QED
      BY <1>1, <1>2, <1>5, <1>6, <2>3, <2>5, <3>1, ConsentGives
  <2> QED
    BY <2>2, <2>6
<1> QED
  BY <1>8, <1>9 DEF ConsentGoverns, sent, body

\* In a page that is sent, or that the cache sends, what the configuration covers
\* runs only with a consent that concerns it, and with full consent everything runs
\* that the origin has sent, but what is blocked for a service or group that is gone.
THEOREM ConsentAlwaysGoverns == Spec => []ConsentGoverns
BY PageInductive, PageConsent, PTL
=============================================================================
