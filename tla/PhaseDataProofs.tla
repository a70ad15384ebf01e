------------------------- MODULE PhaseDataProofs --------------------------
(***************************************************************************)
(* What a run's verdict, its evidence and its review rest on, proved for   *)
(* any requests, routes, scan results and faults.  The argument:           *)
(*   - the loop goes through a plan whose ranks ascend, so when a phase    *)
(*     has begun no earlier one is awaited or begins (LoopInv), and what   *)
(*     still runs of one belongs to a phase recorded as failed;            *)
(*   - each receipt answers one attack and each attack has its receipt,    *)
(*     published, still held by its thread, or lost in a way that can be   *)
(*     named (SwarmInv, LostInv); each finding of a scanner likewise       *)
(*     (ScanInv);                                                          *)
(*   - the review, the attestation and the bundle each read the list of    *)
(*     receipts when it had got somewhere; what is appended afterwards     *)
(*     comes from failed phases (ReviewInv, VerdictInv, BundleInv).        *)
(***************************************************************************)
EXTENDS PhaseData, FiniteSetTheorems, WellFoundedInduction, TLAPS
-----------------------------------------------------------------------------
(* The plan *)

Rank(p) ==
  CASE p = "init" -> 1 [] p = "ownership_verification" -> 2
    [] p = "environment_check" -> 3 [] p = "scoping" -> 4
    [] p = "cve_ingestion" -> 5 [] p = "mapping" -> 6
    [] p = "dependency_scan" -> 7 [] p = "pattern_scan" -> 8
    [] p = "threat_learning" -> 9 [] p = "auth_attack" -> 10
    [] p = "injection_attack" -> 11 [] p = "zero_day_hunting" -> 12
    [] p = "custom_exploit" -> 13 [] p = "hiddenlayer_scan" -> 14
    [] p = "openshell_audit" -> 15 [] p = "nim_analysis" -> 16
    [] p = "gpt_evidence_review" -> 17 [] p = "attestation" -> 18
    [] p = "complete" -> 19

Ascends(s, low, high) ==
  /\ s \in Seq(Phase)
  /\ \A i \in 1 .. Len(s) : low <= Rank(s[i]) /\ Rank(s[i]) <= high
  /\ \A i, j \in 1 .. Len(s) : i < j => Rank(s[i]) < Rank(s[j])

(* The phases, by name.                                                     *)
LEMMA PhaseNames ==
  Phase = { "init", "ownership_verification", "environment_check", "scoping",
            "cve_ingestion", "mapping", "dependency_scan", "pattern_scan",
            "threat_learning", "auth_attack", "injection_attack",
            "zero_day_hunting", "custom_exploit", "hiddenlayer_scan",
            "openshell_audit", "nim_analysis", "gpt_evidence_review",
            "attestation", "complete" }
<1>1. Len(PHASE_ORDER) = 19
  BY DEF PHASE_ORDER
<1>2. \A i \in 1 .. 19 : i \in {1, 2, 3, 4, 5, 6, 7, 8, 9, 10, 11, 12, 13, 14, 15,
                                 16, 17, 18, 19}
  OBVIOUS
<1>3. Phase = { PHASE_ORDER[i] : i \in {1, 2, 3, 4, 5, 6, 7, 8, 9, 10, 11, 12, 13,
                                       14, 15, 16, 17, 18, 19} }
  BY <1>1, <1>2 DEF Phase
<1>4. QED
  BY <1>3 DEF PHASE_ORDER

(* Ranks can be compared.                                                   *)
LEMMA RankIsNumber == \A p \in Phase : Rank(p) \in Nat
BY PhaseNames DEF Rank

(* Two ascending sequences, the second above the first.                     *)
LEMMA AscendsJoined ==
  ASSUME NEW s, NEW t, NEW a \in Nat, NEW b \in Nat, NEW c \in Nat, NEW d \in Nat,
         Ascends(s, a, b), Ascends(t, c, d), a <= b, b < c, c <= d
  PROVE  Ascends(s \o t, a, d)
<1>1. s \in Seq(Phase) /\ t \in Seq(Phase) /\ s \o t \in Seq(Phase)
  BY DEF Ascends
<1>2. /\ Len(s) \in Nat /\ Len(t) \in Nat /\ Len(s \o t) = Len(s) + Len(t)
      /\ \A i \in 1 .. Len(s) + Len(t) :
           (s \o t)[i] = IF i <= Len(s) THEN s[i] ELSE t[i - Len(s)]
  BY <1>1
<1>3. ASSUME NEW i \in 1 .. Len(s) + Len(t)
      PROVE  /\ a <= Rank((s \o t)[i]) /\ Rank((s \o t)[i]) <= d
             /\ i <= Len(s) => Rank((s \o t)[i]) <= b
             /\ i > Len(s) => c <= Rank((s \o t)[i])
             /\ Rank((s \o t)[i]) \in Nat
  <2>1. CASE i <= Len(s)
    <3>1. i \in 1 .. Len(s) /\ (s \o t)[i] = s[i] /\ s[i] \in Phase
      BY <2>1, <1>1, <1>2
    <3>2. a <= Rank(s[i]) /\ Rank(s[i]) <= b /\ Rank(s[i]) \in Nat
      BY <3>1, RankIsNumber DEF Ascends
    <3>3. QED
      BY <2>1, <3>1, <3>2, <1>2
  <2>2. CASE i > Len(s)
    <3>1. i - Len(s) \in 1 .. Len(t) /\ (s \o t)[i] = t[i - Len(s)]
          /\ t[i - Len(s)] \in Phase
      BY <2>2, <1>1, <1>2
    <3>2. c <= Rank(t[i - Len(s)]) /\ Rank(t[i - Len(s)]) <= d
          /\ Rank(t[i - Len(s)]) \in Nat
      BY <3>1, RankIsNumber DEF Ascends
    <3>3. QED
      BY <2>2, <3>1, <3>2, <1>2
  <2>3. QED
    BY <2>1, <2>2, <1>2
<1>4. ASSUME NEW i \in 1 .. Len(s) + Len(t), NEW j \in 1 .. Len(s) + Len(t), i < j
      PROVE  Rank((s \o t)[i]) < Rank((s \o t)[j])
  <2>1. CASE j <= Len(s)
    <3>1. i \in 1 .. Len(s) /\ j \in 1 .. Len(s) /\ (s \o t)[i] = s[i]
          /\ (s \o t)[j] = s[j]
      BY <2>1, <1>2, <1>4
    <3>2. QED
      BY <3>1, <1>4 DEF Ascends
  <2>2. CASE i > Len(s)
    <3>1. /\ i - Len(s) \in 1 .. Len(t) /\ j - Len(s) \in 1 .. Len(t)
          /\ i - Len(s) < j - Len(s)
          /\ (s \o t)[i] = t[i - Len(s)] /\ (s \o t)[j] = t[j - Len(s)]
      BY <2>2, <1>2, <1>4
    <3>2. QED
      BY <3>1 DEF Ascends
  <2>3. CASE i <= Len(s) /\ j > Len(s)
    BY <2>3, <1>3
  <2>4. QED
    BY <2>1, <2>2, <2>3, <1>2
<1>5. QED
  BY <1>1, <1>2, <1>3, <1>4 DEF Ascends

(* A phase of its rank, with or without a condition.                        *)
LEMMA AscendsOne ==
  ASSUME NEW p \in Phase, NEW condition
  PROVE  /\ Ascends(<<p>>, Rank(p), Rank(p))
         /\ Ascends(IF condition THEN <<p>> ELSE << >>, Rank(p), Rank(p))
<1>1. Rank(p) \in Nat
  BY RankIsNumber
<1>2. Ascends(<<p>>, Rank(p), Rank(p))
  BY <1>1 DEF Ascends
<1>3. Ascends(<< >>, Rank(p), Rank(p))
  BY DEF Ascends
<1>4. QED
  BY <1>2, <1>3

(* Whatever the mode switches on, the phases of a plan have ascending ranks. *)
LEMMA PlanAscends ==
  ASSUME NEW c
  PROVE  Ascends(PlanPhases(c), 1, 19)
<1> DEFINE When(condition, p) == IF condition THEN <<p>> ELSE << >>
           If(p) == When(p \in c.runs, p)
           p3 == <<"init">> \o When(c.ownership, "ownership_verification")
                 \o When(c.environment, "environment_check")
           p6 == p3 \o <<"scoping">> \o If("cve_ingestion") \o <<"mapping">>
           p9 == p6 \o If("dependency_scan") \o If("pattern_scan")
                 \o If("threat_learning")
           p13 == p9 \o If("auth_attack") \o If("injection_attack")
                  \o If("zero_day_hunting") \o If("custom_exploit")
           p16 == p13 \o If("hiddenlayer_scan") \o If("openshell_audit")
                  \o If("nim_analysis")
<1>p. PlanPhases(c) = p16 \o <<"gpt_evidence_review", "attestation", "complete">>
  BY DEF PlanPhases
<1>1. \A condition : \A p \in Phase :
        /\ Ascends(<<p>>, Rank(p), Rank(p))
        /\ Ascends(When(condition, p), Rank(p), Rank(p))
  BY AscendsOne
<1>2. \A s, t : \A i, j, k, l \in Nat :
        Ascends(s, i, j) /\ Ascends(t, k, l) /\ i <= j /\ j < k /\ k <= l
          => Ascends(s \o t, i, l)
  BY AscendsJoined
<1> HIDE DEF When
<1>3. Ascends(p3, 1, 3)
  <2>1. /\ Ascends(<<"init">>, 1, 1)
        /\ Ascends(When(c.ownership, "ownership_verification"), 2, 2)
        /\ Ascends(When(c.environment, "environment_check"), 3, 3)
    BY <1>1, PhaseNames DEF Rank
  <2>2. Ascends(<<"init">> \o When(c.ownership, "ownership_verification"), 1, 2)
    BY <2>1, <1>2
  <2>3. QED
    BY <2>1, <2>2, <1>2
<1> HIDE DEF p3
<1>4. Ascends(p6, 1, 6)
  <2>1. /\ Ascends(<<"scoping">>, 4, 4) /\ Ascends(If("cve_ingestion"), 5, 5)
        /\ Ascends(<<"mapping">>, 6, 6)
    BY <1>1, PhaseNames DEF Rank
  <2>2. Ascends(p3 \o <<"scoping">>, 1, 4)
    BY <2>1, <1>2, <1>3
  <2>3. Ascends(p3 \o <<"scoping">> \o If("cve_ingestion"), 1, 5)
    BY <2>1, <2>2, <1>2
  <2>4. QED
    BY <2>1, <2>3, <1>2
<1> HIDE DEF p6
<1>5. Ascends(p9, 1, 9)
  <2>1. /\ Ascends(If("dependency_scan"), 7, 7) /\ Ascends(If("pattern_scan"), 8, 8)
        /\ Ascends(If("threat_learning"), 9, 9)
    BY <1>1, PhaseNames DEF Rank
  <2>2. Ascends(p6 \o If("dependency_scan"), 1, 7)
    BY <2>1, <1>2, <1>4
  <2>3. Ascends(p6 \o If("dependency_scan") \o If("pattern_scan"), 1, 8)
    BY <2>1, <2>2, <1>2
  <2>4. QED
    BY <2>1, <2>3, <1>2
<1> HIDE DEF p9
<1>6. Ascends(p13, 1, 13)
  <2>1. /\ Ascends(If("auth_attack"), 10, 10)
        /\ Ascends(If("injection_attack"), 11, 11)
        /\ Ascends(If("zero_day_hunting"), 12, 12)
        /\ Ascends(If("custom_exploit"), 13, 13)
    BY <1>1, PhaseNames DEF Rank
  <2>2. Ascends(p9 \o If("auth_attack"), 1, 10)
    BY <2>1, <1>2, <1>5
  <2>3. Ascends(p9 \o If("auth_attack") \o If("injection_attack"), 1, 11)
    BY <2>1, <2>2, <1>2
  <2>4. Ascends(p9 \o If("auth_attack") \o If("injection_attack")
                \o If("zero_day_hunting"), 1, 12)
    BY <2>1, <2>3, <1>2
  <2>5. QED
    BY <2>1, <2>4, <1>2
<1> HIDE DEF p13
<1>7. Ascends(p16, 1, 16)
  <2>1. /\ Ascends(If("hiddenlayer_scan"), 14, 14)
        /\ Ascends(If("openshell_audit"), 15, 15)
        /\ Ascends(If("nim_analysis"), 16, 16)
    BY <1>1, PhaseNames DEF Rank
  <2>2. Ascends(p13 \o If("hiddenlayer_scan"), 1, 14)
    BY <2>1, <1>2, <1>6
  <2>3. Ascends(p13 \o If("hiddenlayer_scan") \o If("openshell_audit"), 1, 15)
    BY <2>1, <2>2, <1>2
  <2>4. QED
    BY <2>1, <2>3, <1>2
<1> HIDE DEF p16
<1>8. Ascends(<<"gpt_evidence_review", "attestation", "complete">>, 17, 19)
  <2> DEFINE s == <<"gpt_evidence_review", "attestation", "complete">>
  <2>1. Len(s) = 3 /\ s \in Seq(Phase)
    BY PhaseNames
  <2>2. s[1] = "gpt_evidence_review" /\ s[2] = "attestation" /\ s[3] = "complete"
    OBVIOUS
  <2> HIDE DEF s
  <2>3. Rank(s[1]) = 17 /\ Rank(s[2]) = 18 /\ Rank(s[3]) = 19
    BY <2>2 DEF Rank
  <2>4. \A i \in 1 .. Len(s) : i = 1 \/ i = 2 \/ i = 3
    BY <2>1
  <2>5. Ascends(s, 17, 19)
    BY <2>1, <2>3, <2>4 DEF Ascends
  <2>6. QED
    BY <2>5 DEF s
<1>9. QED
  BY <1>p, <1>7, <1>8, <1>2

(* The plan of the run: its phases follow the order of the ranks.           *)
LEMMA PlanFacts ==
  ASSUME TypeOK
  PROVE  /\ plan \in Seq(Phase) /\ Len(plan) \in Nat
         /\ \A i, j \in 1 .. Len(plan) : i < j => Rank(plan[i]) < Rank(plan[j])
         /\ \A i, j \in 1 .. Len(plan) : plan[i] = plan[j] => i = j
<1>1. request.mode \in Mode
  BY PhaseDataAssumption DEF TypeOK, PhaseDataAssumption
<1>2. plan = PlanPhases(ModeConfig(request.mode))
  BY <1>1 DEF plan, Plans
<1>3. Ascends(plan, 1, 19)
  BY <1>2, PlanAscends
<1>4. plan \in Seq(Phase)
      /\ \A i, j \in 1 .. Len(plan) : i < j => Rank(plan[i]) < Rank(plan[j])
  BY <1>3 DEF Ascends
<1>5. Len(plan) \in Nat /\ \A i \in 1 .. Len(plan) : Rank(plan[i]) \in Nat
  BY <1>4, RankIsNumber
<1>6. QED
  BY <1>4, <1>5

(* Once a phase has begun, none before it is awaited or begins any more.    *)
LEMMA EarlierIsPast ==
  ASSUME TypeOK, LoopInv, NEW p \in Phase, NEW q \in Phase,
         Rank(p) < Rank(q), step[q] # "idle"
  PROVE  ~(index <= Len(plan) /\ current = p) /\ ~Awaited(p)
<1>1. PICK i \in 1 .. Len(plan) : i <= index /\ plan[i] = q
  BY DEF LoopInv
<1>2. SUFFICES ASSUME index <= Len(plan), current = p
               PROVE  FALSE
  BY DEF Awaited
<1>3. index \in 1 .. Len(plan) /\ plan[index] = p
  BY <1>2, PlanFacts DEF TypeOK, current
<1>4. i < index \/ i = index
  BY <1>1, <1>3, PlanFacts
<1>5. Rank(p) \in Nat /\ Rank(q) \in Nat
  BY RankIsNumber
<1>6. i < index => Rank(q) < Rank(p)
  BY <1>1, <1>3, PlanFacts
<1>7. QED
  BY <1>1, <1>3, <1>4, <1>5, <1>6

(* Such a phase still runs only if its time was up.                         *)
LEMMA EarlierHasFailed ==
  ASSUME TypeOK, LoopInv, NEW p \in Phase, NEW q \in Phase,
         Rank(p) < Rank(q), step[q] # "idle", Live(p)
  PROVE  p \in Failed
BY EarlierIsPast DEF LoopInv

-----------------------------------------------------------------------------
(* How a step moves the loop *)

Moves(p) == \/ \E next \in Steps \ {"idle"} : GoesOn(p, next)
            \/ \E how \in {"ok", "failed"} : EndsAs(p, how)

LoopType == /\ index \in 1 .. Len(plan) + 1
            /\ recorded \in [Phase -> {"none", "ok", "failed"}]
            /\ step \in [Phase -> Steps]

LoopKept == LoopInv' /\ LoopType' /\ Failed \subseteq Failed' /\ plan' = plan

(* The awaited phase has no result yet.                                     *)
LEMMA AwaitedIsOpen ==
  ASSUME TypeOK, LoopInv, NEW p, Awaited(p)
  PROVE  /\ index \in 1 .. Len(plan) /\ plan[index] = p /\ p \in Phase
         /\ recorded[p] = "none"
         /\ \A i \in 1 .. Len(plan) : i > index => plan[i] # p /\ recorded[plan[i]] = "none"
<1>1. index \in 1 .. Len(plan) /\ plan[index] = p
  BY PlanFacts DEF Awaited, current, TypeOK
<1>2. p \in Phase
  BY <1>1, PlanFacts
<1>3. recorded[p] = "none"
  BY <1>1, PlanFacts DEF LoopInv
<1>4. ASSUME NEW i \in 1 .. Len(plan), i > index
      PROVE  plan[i] # p /\ recorded[plan[i]] = "none"
  BY <1>1, <1>4, PlanFacts DEF LoopInv
<1>5. QED
  BY <1>1, <1>2, <1>3, <1>4

(* A result is recorded for the awaited phase only, and the loop goes on.   *)
LEMMA RecordStep ==
  ASSUME TypeOK, LoopInv, request' = request, NEW p, Awaited(p),
         NEW how \in {"ok", "failed"}, Record(p, how),
         step' \in [Phase -> Steps],
         \A q \in Phase : q # p => step'[q] = step[q],
         step'[p] # "idle", how = "ok" => step'[p] = "over"
  PROVE  LoopKept
<1> USE DEF Record
<1>1. plan' = plan
  BY DEF plan
<1>2. /\ index \in 1 .. Len(plan) /\ plan[index] = p /\ p \in Phase
      /\ recorded[p] = "none"
      /\ \A i \in 1 .. Len(plan) : i > index => plan[i] # p /\ recorded[plan[i]] = "none"
  BY AwaitedIsOpen
<1>3. /\ index' \in 1 .. Len(plan) + 1 /\ index' > index
      /\ Len(plan) \in Nat /\ \A i \in 1 .. Len(plan) : plan[i] \in Phase
  BY <1>2, PlanFacts
<1>4. LoopType'
  BY <1>1, <1>2, <1>3 DEF LoopType, TypeOK
<1>5. Failed \subseteq Failed'
  BY <1>2 DEF Failed, TypeOK
<1>6. ASSUME NEW q \in Phase, Live(q)'
      PROVE  Awaited(q)' \/ q \in Failed'
  <2>1. CASE q = p
    <3>1. how = "failed"
      BY <2>1, <1>6 DEF Live
    <3>2. QED
      BY <2>1, <3>1, <1>2 DEF Failed, TypeOK
  <2>2. CASE q # p
    <3>1. Live(q) /\ ~Awaited(q)
      BY <2>2, <1>6, <1>2 DEF Live, Awaited, current
    <3>2. q \in Failed
      BY <3>1 DEF LoopInv
    <3>3. QED
      BY <3>2, <1>5
  <2>3. QED
    BY <2>1, <2>2
<1>7. ASSUME NEW q \in Phase, step'[q] # "idle"
      PROVE  \E i \in 1 .. Len(plan) : i <= index' /\ plan[i] = q
  <2>1. CASE q = p
    BY <2>1, <1>2, <1>3
  <2>2. CASE q # p
    <3>1. PICK i \in 1 .. Len(plan) : i <= index /\ plan[i] = q
      BY <2>2, <1>7 DEF LoopInv
    <3>2. QED
      BY <3>1, <1>2, <1>3
  <2>3. QED
    BY <2>1, <2>2
<1>8. ASSUME NEW i \in 1 .. Len(plan), i >= index'
      PROVE  recorded'[plan[i]] = "none"
  BY <1>2, <1>3, <1>8 DEF TypeOK
<1>9. LoopInv'
  BY <1>1, <1>6, <1>7, <1>8 DEF LoopInv
<1>10. QED
  BY <1>1, <1>4, <1>5, <1>9 DEF LoopKept

(* A thread moves on, or a phase begins, without a result.                  *)
LEMMA ThreadStep ==
  ASSUME TypeOK, LoopInv, request' = request, UNCHANGED loop, NEW p \in Phase,
         step' \in [Phase -> Steps],
         \A q \in Phase : q # p => step'[q] = step[q],
         step[p] = "idle" => step'[p] = "idle" \/ (index <= Len(plan) /\ current = p),
         Live(p)' => Live(p) \/ (index <= Len(plan) /\ current = p),
         step'[p] = "idle" => step[p] = "idle"
  PROVE  LoopKept
<1> USE DEF loop
<1>1. plan' = plan /\ Failed' = Failed /\ index' = index /\ recorded' = recorded
  BY DEF plan, Failed
<1>2. LoopType'
  BY <1>1 DEF LoopType, TypeOK
<1>3. ASSUME NEW q \in Phase, Live(q)'
      PROVE  Awaited(q)' \/ q \in Failed'
  <2>1. CASE Live(q)
    <3>1. Awaited(q) \/ q \in Failed
      BY <2>1 DEF LoopInv
    <3>2. Awaited(q) => Awaited(q)'
      BY <1>1, <1>3 DEF Awaited, current, Live
    <3>3. QED
      BY <3>1, <3>2, <1>1
  <2>2. CASE ~Live(q)
    <3>1. q = p /\ index <= Len(plan) /\ current = p /\ step'[p] # "idle"
      BY <2>2, <1>3 DEF Live
    <3>2. QED
      BY <3>1, <1>1 DEF Awaited, current
  <2>3. QED
    BY <2>1, <2>2
<1>4. ASSUME NEW q \in Phase, step'[q] # "idle"
      PROVE  \E i \in 1 .. Len(plan) : i <= index /\ plan[i] = q
  <2>1. CASE step[q] # "idle"
    BY <2>1 DEF LoopInv
  <2>2. CASE step[q] = "idle"
    <3>1. q = p /\ index <= Len(plan) /\ current = p
      BY <2>2, <1>4
    <3>2. index \in 1 .. Len(plan) /\ plan[index] = q
      BY <3>1, PlanFacts DEF current, TypeOK
    <3>3. QED
      BY <3>2
  <2>3. QED
    BY <2>1, <2>2
<1>5. LoopInv'
  BY <1>1, <1>3, <1>4 DEF LoopInv
<1>6. QED
  BY <1>1, <1>2, <1>5 DEF LoopKept

(* A thread goes on or ends; if the loop still waits for it, with a result. *)
LEMMA MoveStep ==
  ASSUME TypeOK, LoopInv, request' = request, NEW p \in Phase, Live(p), Moves(p)
  PROVE  LoopKept
<1>1. ASSUME NEW next \in Steps \ {"idle"}, GoesOn(p, next)
      PROVE  LoopKept
  BY <1>1, ThreadStep DEF GoesOn, TypeOK, Live, Steps
<1>2. ASSUME NEW how \in {"ok", "failed"}, EndsAs(p, how)
      PROVE  LoopKept
  <2>1. /\ step' \in [Phase -> Steps] /\ step'[p] = "over"
        /\ \A q \in Phase : q # p => step'[q] = step[q]
    BY <1>2 DEF EndsAs, TypeOK, Steps
  <2>2. CASE Awaited(p)
    BY <2>1, <2>2, <1>2, RecordStep DEF EndsAs
  <2>3. CASE ~Awaited(p)
    BY <2>1, <2>3, <1>2, ThreadStep DEF EndsAs, Live
  <2>4. QED
    BY <2>2, <2>3
<1>3. QED
  BY <1>1, <1>2 DEF Moves

(* Without a step of any thread nothing moves.                              *)
LEMMA NobodyMoves ==
  ASSUME TypeOK, LoopInv, UNCHANGED <<request, loop, step>>
  PROVE  LoopKept
BY ThreadStep, PhaseNames DEF TypeOK, Live

(* Whatever a thread does, the loop hears of it in one of these ways.       *)
LEMMA MoveForms ==
  ASSUME NEW p
  PROVE  /\ Returns(p) => Moves(p)
         /\ EndsAs(p, "failed") => Moves(p)
         /\ Swallows(p) => Moves(p)
         /\ \A next \in Steps \ {"idle"} : GoesOn(p, next) => Moves(p)
         /\ step[p] # "idle" /\ step[p] # "over" <=> Live(p)
BY DEF Moves, Returns, Swallows, Live

(* Every step keeps the loop's invariant, and what failed stays failed.     *)
LEMMA LoopStep ==
  ASSUME TypeOK, LoopInv, [Next]_vars
  PROVE  LoopKept
<1> USE DEF Steps
<1>1. CASE BeginPhase
  <2>1. /\ index <= Len(plan) /\ current \in Phase /\ step[current] = "idle"
        /\ request' = request
    BY <1>1, PlanFacts DEF BeginPhase, TypeOK, current
  <2>2. CASE current = "complete"
    <3>1. ~Awaited(current)
      BY <2>1 DEF Awaited
    <3>2. step' = [step EXCEPT ![current] = "over"] /\ UNCHANGED loop
      BY <1>1, <2>2, <3>1 DEF BeginPhase, Returns, EndsAs
    <3>3. QED
      BY <2>1, <3>2, ThreadStep DEF TypeOK, Live
  <2>3. CASE current # "complete"
    <3>1. step' = [step EXCEPT ![current] = "begun"] /\ UNCHANGED loop
      BY <1>1, <2>3 DEF BeginPhase, GoesOn
    <3>2. QED
      BY <2>1, <3>1, ThreadStep DEF TypeOK, Live
  <2>4. QED
    BY <2>2, <2>3
<1>2. ASSUME NEW p \in Phase, TimesOut(p)
      PROVE  LoopKept
  <2>1. /\ Awaited(p) /\ Record(p, "failed") /\ request' = request
        /\ step' = IF p \in Audits \cup {"init"} THEN [step EXCEPT ![p] = "over"]
                   ELSE step
    BY <1>2 DEF TimesOut
  <2>2. step' \in [Phase -> Steps] /\ step'[p] # "idle"
        /\ \A q \in Phase : q # p => step'[q] = step[q]
    BY <2>1 DEF TypeOK, Awaited
  <2>3. QED
    BY <2>1, <2>2, RecordStep
<1>3. ASSUME NEW p \in Phase, Raises(p)
      PROVE  LoopKept
  BY <1>3, MoveForms, MoveStep DEF Raises, Fragile
<1>4. CASE Prepare
  <2>1. \E p \in {"init", "ownership_verification", "environment_check",
                  "scoping", "mapping"} :
          step[p] = "begun" /\ (Returns(p) \/ EndsAs(p, "failed")) /\ request' = request
    BY <1>4 DEF Prepare, HandleInit, HandleOwnershipVerification,
       HandleEnvironmentCheck, HandleScoping, HandleMapping
  <2>2. QED
    BY <2>1, MoveForms, MoveStep, PhaseNames
<1>5. CASE ScanSource
  <2>1. \E p \in SourceScans :
          /\ step[p] \in {"begun", "sent"} /\ request' = request
          /\ GoesOn(p, "sent") \/ Returns(p) \/ Swallows(p)
    BY <1>5 DEF ScanSource, ScanDependencies, StoreDependencies,
       DependencyScanFails, ScanPatterns, PatternScanFails, SourceScans
  <2>2. QED
    BY <2>1, MoveForms, MoveStep, PhaseNames DEF SourceScans
<1>6. CASE Learn
  <2>1. \E p \in Intelligence :
          /\ Live(p) /\ request' = request
          /\ GoesOn(p, "ingested") \/ Returns(p) \/ Swallows(p)
    BY <1>6 DEF Learn, IngestCves, EnrichCves, LearnThreats, IntelligenceFails,
       Intelligence, Live
  <2>2. QED
    BY <2>1, MoveForms, MoveStep, PhaseNames DEF Intelligence
<1>7. CASE AttackTarget
  <2>1. ASSUME NEW p \in LiveAttacks, PublishReceipt(p)
        PROVE  LoopKept
    BY <2>1, NobodyMoves DEF PublishReceipt
  <2>2. ASSUME NEW p \in LiveAttacks, SkipAttack(p) \/ Attack(p) \/ AttackEnds(p)
        PROVE  LoopKept
    <3>1. /\ step[p] \in {"begun", "sent"} /\ request' = request
          /\ GoesOn(p, "sent") \/ Returns(p)
      BY <2>2 DEF SkipAttack, Attack, AttackEnds
    <3>2. QED
      BY <3>1, MoveForms, MoveStep, PhaseNames DEF LiveAttacks
  <2>3. CASE HuntingFails
    BY <2>3, MoveForms, MoveStep, PhaseNames DEF HuntingFails
  <2>4. QED
    BY <1>7, <2>1, <2>2, <2>3 DEF AttackTarget
<1>8. ASSUME NEW p \in Audits, Audit(p)
      PROVE  LoopKept
  BY <1>8, MoveForms, MoveStep, PhaseNames DEF Audit, Audits
<1>9. CASE Review
  <2>1. \E p \in {"gpt_evidence_review"} :
          /\ step[p] \in {"begun", "sent"} /\ request' = request
          /\ GoesOn(p, "sent") \/ Returns(p)
    BY <1>9 DEF Review, ReviewSkips, PrepareReview, ReviewAnswers
  <2>2. QED
    BY <2>1, MoveForms, MoveStep, PhaseNames
<1>10. CASE Attest
  <2>1. \E p \in {"attestation"} :
          /\ step[p] \in {"begun", "read", "redacted", "bundled"} /\ request' = request
          /\ Returns(p) \/ \E next \in {"read", "redacted", "bundled"} : GoesOn(p, next)
    BY <1>10 DEF Attest, ReadEvidence, RedactReceipts, WriteBundle, CommitVerdict,
       NextAttestation
  <2>2. QED
    BY <2>1, MoveForms, MoveStep, PhaseNames
<1>11. CASE UNCHANGED vars
  BY <1>11, NobodyMoves DEF vars, loop
<1>12. QED
  BY <1>1, <1>2, <1>3, <1>4, <1>5, <1>6, <1>7, <1>8, <1>9, <1>10, <1>11 DEF Next

-----------------------------------------------------------------------------
(* Types *)

RestType ==
  /\ pending \in [LiveAttacks -> [receipts : SUBSET Receipt, lost : Nat]]
  /\ data \in DataType
  /\ \A s \in sent : /\ s.by \in LiveAttacks /\ s.nth \in Nat
                     /\ s.target \in Target /\ s.course \in Course(s.by)
  /\ found \subseteq {"dependency", "pattern"}
  /\ swallowed \subseteq Phase /\ scan \in ScanResult \cup {Unset}
  /\ att \in [dirty : BOOLEAN, receipts : Seq(Receipt)]
  /\ bundle.report \in BOOLEAN
  /\ row \in [verdict : {"pending", "SAFE", "BLOCKED"}, receipts : Seq(Receipt),
             evidenceBundle : BOOLEAN]

(* The type invariant is the loop's part and the rest.                      *)
LEMMA TypeParts == TypeOK <=> request \in Requests /\ LoopType /\ RestType
BY DEF TypeOK, LoopType, RestType

(* The request is one of those assumed.                                     *)
LEMMA RequestFacts ==
  ASSUME TypeOK
  PROVE  request.surface \in Seq(Route) /\ request.identities \in {0, 2}
         /\ request.bom \in BOOLEAN
BY PhaseDataAssumption DEF TypeOK, PhaseDataAssumption

(* The courses an attack may take give receipts of its own.                 *)
LEMMA OutcomeType ==
  ASSUME NEW p \in LiveAttacks, NEW c
  PROVE  OutcomeOf(p, c) \in Outcome
BY DEF LiveAttacks, OutcomeOf, Outcome, AuthOutcome, InjectionOutcome,
       HypothesisOutcome, ExploitOutcome

(* The number of failed agents is one, and positive if some agent raised.   *)
LEMMA FailedAgentsNumber ==
  ASSUME NEW n \in Nat, NEW course, DOMAIN course = 1 .. n
  PROVE  /\ FailedAgents(course) \in Nat
         /\ \A i \in 1 .. n : course[i].end = "raises" => FailedAgents(course) > 0
<1> DEFINE raised == { i \in DOMAIN course : course[i].end = "raises" }
<1>1. IsFiniteSet(1 .. n)
  BY FS_Interval
<1>2. IsFiniteSet(raised)
  BY <1>1, FS_Subset
<1>3. Cardinality(raised) \in Nat /\ (Cardinality(raised) = 0 => raised = {})
  BY <1>2, FS_CardinalityType, FS_EmptySet
<1>4. FailedAgents(course) = Cardinality(raised)
  BY DEF FailedAgents
<1>5. ASSUME NEW i \in 1 .. n, course[i].end = "raises"
      PROVE  FailedAgents(course) > 0
  <2>1. i \in raised
    BY <1>5
  <2>2. Cardinality(raised) # 0
    BY <2>1, <1>3
  <2>3. QED
    BY <2>2, <1>3, <1>4
<1>6. QED
  BY <1>3, <1>4, <1>5

(* What an attack does, with the courses of its agents named.               *)
Strikes(p, n, failed, course) ==
  /\ n = Len(data.routes) /\ \A i \in 1 .. n : data.routes[i] \in Route \cup {Root}
  /\ sent' = sent \cup { [by |-> p, nth |-> i, route |-> data.routes[i],
                          target |-> data.target, course |-> course[i]] :
                          i \in 1 .. n }
  /\ pending' = [pending EXCEPT ![p] =
       [receipts |-> ReceiptsOf(p, data.routes, course), lost |-> failed]]
  /\ data' = IF p \in {"injection_attack", "zero_day_hunting"}
               THEN [data EXCEPT !.lost[p] = failed] ELSE data
  /\ p # "zero_day_hunting" => failed = FailedAgents(course)

(* What an attack sends and what its sweep holds have their types.          *)
LEMMA AttackFacts ==
  ASSUME TypeOK, NEW p \in LiveAttacks, Attack(p)
  PROVE  \E n \in Nat, failed \in Nat : \E course \in [1 .. n -> Course(p)] :
           Strikes(p, n, failed, course)
<1>1. data.routes \in Seq(Route \cup {Root})
  BY DEF TypeOK, DataType
<1>2. Len(data.routes) \in Nat
      /\ \A i \in 1 .. Len(data.routes) : data.routes[i] \in Route \cup {Root}
  BY <1>1
<1>3. PICK course \in [1 .. Len(data.routes) -> Course(p)] :
        Strikes(p, Len(data.routes),
                IF p = "zero_day_hunting" THEN 0 ELSE FailedAgents(course), course)
  BY <1>2 DEF Attack, Strikes
<1>4. DOMAIN course = 1 .. Len(data.routes)
  OBVIOUS
<1>5. FailedAgents(course) \in Nat
  BY <1>2, <1>4, FailedAgentsNumber
<1>6. PICK failed \in Nat :
        failed = IF p = "zero_day_hunting" THEN 0 ELSE FailedAgents(course)
  BY <1>5
<1>7. QED
  BY <1>2, <1>3, <1>6

(* The receipts of an attack.                                               *)
LEMMA ReceiptFacts ==
  ASSUME NEW p \in LiveAttacks, NEW n \in Nat, NEW routes,
         NEW course \in [1 .. n -> Course(p)]
  PROVE  /\ \A r \in ReceiptsOf(p, routes, course) :
              \E i \in 1 .. n :
                /\ ~LosesReceipts(p, course[i]) /\ r.by = p /\ r.nth = i
                /\ r.route = routes[i] /\ r.outcome = OutcomeOf(p, course[i])
         /\ \A i \in 1 .. n : ~LosesReceipts(p, course[i]) =>
              \E r \in ReceiptsOf(p, routes, course) : r.by = p /\ r.nth = i
         /\ (\A i \in 1 .. n : routes[i] \in Route \cup {Root}) =>
              ReceiptsOf(p, routes, course) \subseteq Receipt
<1>1. DOMAIN course = 1 .. n
  OBVIOUS
<1>2. ReceiptsOf(p, routes, course) =
        { [by |-> p, nth |-> i, route |-> routes[i], outcome |-> OutcomeOf(p, course[i])] :
          i \in { j \in 1 .. n : ~LosesReceipts(p, course[j]) } }
  BY <1>1 DEF ReceiptsOf
<1>3. \A i \in 1 .. n : i \in Nat /\ OutcomeOf(p, course[i]) \in Outcome
  BY OutcomeType
<1>4. ASSUME NEW r \in ReceiptsOf(p, routes, course)
      PROVE  \E i \in 1 .. n :
               /\ ~LosesReceipts(p, course[i]) /\ r.by = p /\ r.nth = i
               /\ r.route = routes[i] /\ r.outcome = OutcomeOf(p, course[i])
  BY <1>2
<1>5. ASSUME NEW i \in 1 .. n, ~LosesReceipts(p, course[i])
      PROVE  \E r \in ReceiptsOf(p, routes, course) : r.by = p /\ r.nth = i
  <2>1. [by |-> p, nth |-> i, route |-> routes[i], outcome |-> OutcomeOf(p, course[i])]
          \in ReceiptsOf(p, routes, course)
    BY <1>2, <1>5
  <2>2. QED
    BY <2>1
<1>6. ASSUME \A i \in 1 .. n : routes[i] \in Route \cup {Root}
      PROVE  ReceiptsOf(p, routes, course) \subseteq Receipt
  <2>1. \A i \in 1 .. n :
          [by |-> p, nth |-> i, route |-> routes[i], outcome |-> OutcomeOf(p, course[i])]
            \in Receipt
    BY <1>3, <1>6 DEF Receipt
  <2>2. QED
    BY <1>2, <2>1
<1>7. QED
  BY <1>4, <1>5, <1>6

(* Every step keeps the types of what is not the loop's.                    *)
LEMMA RestTypeStep ==
  ASSUME TypeOK, [Next]_vars
  PROVE  RestType' /\ request' \in Requests
<1>r. RestType /\ request \in Requests
  BY TypeParts
<1> DEFINE Others == /\ request' = request
                     /\ UNCHANGED <<pending, sent, found, swallowed, scan, att, bundle, row>>
<1>d. ASSUME Others, data' \in DataType
      PROVE  RestType' /\ request' \in Requests
  BY <1>d, <1>r DEF RestType
<1>s. ASSUME NEW p \in Phase, swallowed' \subseteq swallowed \cup {p}, request' = request,
             UNCHANGED <<pending, data, sent, found, att, bundle, row>>,
             scan' \in {Unset, scan}
      PROVE  RestType' /\ request' \in Requests
  BY <1>s, <1>r DEF RestType
<1>1. CASE BeginPhase \/ UNCHANGED vars \/ HandleInit \/ \E p \in Audits : Audit(p)
  BY <1>1, <1>r, <1>d DEF BeginPhase, vars, HandleInit, Audit, RestType
<1>2. ASSUME NEW p \in Phase, TimesOut(p)
      PROVE  RestType' /\ request' \in Requests
  BY <1>2, <1>r, <1>d DEF TimesOut, RestType
<1>3. ASSUME NEW p \in Phase, Raises(p)
      PROVE  RestType' /\ request' \in Requests
  <2>1. pending' \in [LiveAttacks -> [receipts : SUBSET Receipt, lost : Nat]]
    BY <1>3, <1>r DEF Raises, RestType, Nothing
  <2>2. QED
    BY <1>3, <1>r, <2>1 DEF Raises, RestType
<1>4. CASE HandleOwnershipVerification
  <2>1. PICK outcome \in {"pre_verified", "owned", "not_owned"} :
          data' = [data EXCEPT !.owned = outcome]
    BY <1>4 DEF HandleOwnershipVerification
  <2>2. data' \in DataType
    BY <2>1, <1>r DEF RestType, DataType
  <2>3. QED
    BY <1>4, <1>d, <2>2 DEF HandleOwnershipVerification
<1>5. CASE HandleEnvironmentCheck
  <2>1. Detected \subseteq {"PRODUCTION", "STAGING", "DEVELOPMENT"}
    BY DEF Detected, ScoreToTier
  <2>2. PICK tier \in {"PRODUCTION", "STAGING", "DEVELOPMENT"} :
          data' = [data EXCEPT !.tier = tier]
    BY <1>5, <2>1 DEF HandleEnvironmentCheck
  <2>3. data' \in DataType
    BY <2>2, <1>r DEF RestType, DataType
  <2>4. QED
    BY <1>5, <1>d, <2>3 DEF HandleEnvironmentCheck
<1>6. CASE HandleScoping
  <2>1. ASSUME NEW d \in DataType, NEW n \in 0 .. 2
        PROVE  Provisioned(WithTargetUrl(d), n) \in DataType
    <3>1. WithTargetUrl(d) \in DataType
      <4>1. [d EXCEPT !.target = "staging"] \in DataType
        BY DEF DataType, Target
      <4>2. QED
        BY <4>1 DEF WithTargetUrl
    <3>2. ASSUME NEW e \in DataType
          PROVE  Provisioned(e, n) \in DataType
      <4>1. PICK m \in {0, 2} : m = IF n = 2 THEN 2 ELSE e.identities
        BY DEF DataType
      <4>2. Provisioned(e, n) = [e EXCEPT !.accounts = n, !.identities = m]
        BY <4>1 DEF Provisioned
      <4>3. QED
        BY <4>2 DEF DataType
    <3>3. QED
      BY <3>1, <3>2
  <2>2. data' \in DataType
    BY <1>6, <1>r, <2>1 DEF HandleScoping, RestType
  <2>3. QED
    BY <1>6, <2>2, <1>d DEF HandleScoping
<1>7. CASE HandleMapping
  <2>1. Discovered \subseteq Seq(Route \cup {Root})
    <3>1. request.surface \in Seq(Route \cup {Root}) /\ << >> \in Seq(Route \cup {Root})
          /\ << Root >> \in Seq(Route \cup {Root})
      BY RequestFacts
    <3>2. SourceRoutes \in Seq(Route \cup {Root})
          /\ SpecifiedRoutes \subseteq Seq(Route \cup {Root})
      BY <3>1 DEF SourceRoutes, SpecifiedRoutes
    <3>3. \A s \in Seq(Route \cup {Root}) : s \o SourceRoutes \in Seq(Route \cup {Root})
      BY <3>2
    <3>4. QED
      BY <3>1, <3>2, <3>3 DEF Discovered
  <2>2. data \in DataType
    BY <1>r DEF RestType
  <2>3. ASSUME NEW routes \in Seq(Route \cup {Root})
        PROVE  [data EXCEPT !.routes = routes] \in DataType
    BY <2>2 DEF DataType
  <2>4. data' \in DataType
    BY <1>7, <2>1, <2>3 DEF HandleMapping
  <2>5. QED
    BY <1>7, <1>d, <2>4 DEF HandleMapping
<1>8. CASE ScanDependencies
  BY <1>8, <1>r DEF ScanDependencies, RestType
<1>9. CASE StoreDependencies
  <2>1. data' \in DataType
    BY <1>9, <1>r, RequestFacts DEF StoreDependencies, RestType, DataType, Enriched
  <2>2. swallowed' \subseteq Phase /\ scan' = Unset
    BY <1>9, <1>r, PhaseNames DEF StoreDependencies, Swallows, RestType
  <2>3. QED
    BY <1>9, <1>r, <2>1, <2>2 DEF StoreDependencies, RestType
<1>10. CASE DependencyScanFails \/ PatternScanFails
  BY <1>10, <1>s, PhaseNames DEF DependencyScanFails, PatternScanFails, Swallows
<1>11. CASE ScanPatterns
  <2>d. data \in DataType
    BY <1>r DEF RestType
  <2>p. ASSUME NEW result \in {"clean", "vulnerable"}
        PROVE  [data EXCEPT !.patterns = result] \in DataType
    BY <2>d DEF DataType, ScanResult
  <2>1. data' \in DataType
    BY <1>11, <2>p DEF ScanPatterns
  <2>2. swallowed' \subseteq Phase /\ found' \subseteq {"dependency", "pattern"}
    BY <1>11, <1>r, PhaseNames DEF ScanPatterns, Swallows, RestType
  <2>3. QED
    BY <1>11, <1>r, <2>1, <2>2 DEF ScanPatterns, RestType
<1>12. CASE IngestCves \/ LearnThreats
  <2>1. data \in DataType
    BY <1>r DEF RestType
  <2>2. /\ [data EXCEPT !.cves = TRUE] \in DataType
        /\ [data EXCEPT !.learned = TRUE] \in DataType
    BY <2>1 DEF DataType
  <2>3. data' \in DataType
    BY <1>12, <2>2 DEF IngestCves, LearnThreats
  <2>4. QED
    BY <1>12, <1>d, <2>3 DEF IngestCves, LearnThreats
<1>13. CASE EnrichCves
  <2>1. data \in DataType
    BY <1>r DEF RestType
  <2>2. data.components \in BOOLEAN
    BY <2>1 DEF DataType
  <2>3. [data EXCEPT !.intel = data.components] \in DataType
    BY <2>1, <2>2 DEF DataType
  <2>4. data' \in DataType
    BY <1>13, <2>3 DEF EnrichCves, HasPackageNames
  <2>5. QED
    BY <1>13, <1>d, <2>4 DEF EnrichCves
<1>14. ASSUME NEW p \in Intelligence, IntelligenceFails(p)
       PROVE  RestType' /\ request' \in Requests
  BY <1>14, <1>s, PhaseNames DEF IntelligenceFails, Swallows, Intelligence
<1>15. ASSUME NEW p \in LiveAttacks, SkipAttack(p)
       PROVE  RestType' /\ request' \in Requests
  BY <1>15, <1>r, <1>d DEF SkipAttack, RestType
<1>16. ASSUME NEW p \in LiveAttacks, Attack(p)
       PROVE  RestType' /\ request' \in Requests
  <2>0. PICK n \in Nat, failed \in Nat :
          \E course \in [1 .. n -> Course(p)] : Strikes(p, n, failed, course)
    BY <1>16, AttackFacts
  <2>1. PICK course \in [1 .. n -> Course(p)] : Strikes(p, n, failed, course)
    BY <2>0
  <2> USE DEF Strikes
  <2>2. ReceiptsOf(p, data.routes, course) \in SUBSET Receipt
    BY <2>1, ReceiptFacts
  <2>3. pending' \in [LiveAttacks -> [receipts : SUBSET Receipt, lost : Nat]]
    BY <2>1, <2>2, <1>r DEF RestType
  <2>4. data' \in DataType
    BY <2>1, <1>r DEF RestType, DataType
  <2>5. data.target \in Target
    BY <1>r DEF RestType, DataType
  <2>6. \A s \in sent' : /\ s.by \in LiveAttacks /\ s.nth \in Nat
                         /\ s.target \in Target /\ s.course \in Course(s.by)
    <3>1. \A i \in 1 .. n : i \in Nat /\ course[i] \in Course(p)
      OBVIOUS
    <3>2. QED
      BY <2>1, <2>5, <3>1, <1>r DEF RestType
  <2>7. UNCHANGED <<request, found, swallowed, att, scan, bundle, row>>
    BY <1>16 DEF Attack
  <2>8. QED
    BY <2>3, <2>4, <2>6, <2>7, <1>r DEF RestType
<1>17. ASSUME NEW p \in LiveAttacks, PublishReceipt(p)
       PROVE  RestType' /\ request' \in Requests
  <2>1. PICK r \in pending[p].receipts :
          /\ data' = [data EXCEPT !.receipts = Append(@, r)]
          /\ pending' = [pending EXCEPT ![p].receipts = @ \ {r}]
    BY <1>17 DEF PublishReceipt
  <2>2. r \in Receipt
    BY <1>r DEF RestType
  <2>3. data' \in DataType
    <3>1. Append(data.receipts, r) \in Seq(Receipt)
      BY <2>2, <1>r DEF RestType, DataType
    <3>2. data' = [data EXCEPT !.receipts = Append(data.receipts, r)]
      BY <2>1
    <3>3. QED
      BY <3>1, <3>2, <1>r DEF RestType, DataType
  <2>4. pending' \in [LiveAttacks -> [receipts : SUBSET Receipt, lost : Nat]]
    BY <2>1, <1>r DEF RestType
  <2>5. QED
    BY <1>17, <2>3, <2>4, <1>r DEF PublishReceipt, RestType
<1>18. ASSUME NEW p \in LiveAttacks, AttackEnds(p)
       PROVE  RestType' /\ request' \in Requests
  <2>1. data' \in DataType
    <3>1. pending[p].lost \in Nat
      BY <1>r DEF RestType
    <3>2. \A n \in Nat : p \in Swarms => [data EXCEPT !.lost[p] = n] \in DataType
      BY <1>r DEF RestType, DataType
    <3>3. QED
      BY <1>18, <1>r, <3>1, <3>2 DEF AttackEnds, RestType
  <2>2. pending' \in [LiveAttacks -> [receipts : SUBSET Receipt, lost : Nat]]
    BY <1>18, <1>r DEF AttackEnds, RestType, Nothing
  <2>3. QED
    BY <1>18, <2>1, <2>2, <1>r DEF AttackEnds, RestType
<1>19. CASE HuntingFails
  <2>1. pending' \in [LiveAttacks -> [receipts : SUBSET Receipt, lost : Nat]]
    BY <1>19, <1>r DEF HuntingFails, RestType, Nothing
  <2>2. swallowed' \subseteq Phase
    BY <1>19, <1>r, PhaseNames DEF HuntingFails, Swallows, RestType
  <2>3. QED
    BY <1>19, <2>1, <2>2, <1>r DEF HuntingFails, RestType
<1>20. CASE ReviewSkips
  BY <1>20, <1>r, <1>d DEF ReviewSkips, RestType, DataType
<1>21. CASE PrepareReview
  BY <1>21, <1>r, <1>d DEF PrepareReview, Candidate, RestType, DataType
<1>22. CASE ReviewAnswers
  <2>1. \A answer \in Decision : Bounded(answer, data.candidate) \in Decision
    BY DEF Bounded, Decision
  <2>2. PICK decision \in Decision \cup {"failed"} :
          data' = [data EXCEPT !.decision = decision]
    BY <1>22, <2>1 DEF ReviewAnswers
  <2>3. data' \in DataType
    BY <2>2, <1>r DEF RestType, DataType
  <2>4. QED
    BY <1>22, <1>d, <2>3 DEF ReviewAnswers
<1>23. CASE ReadEvidence
  <2>1. HasFindings(data) \in BOOLEAN
    BY DEF HasFindings
  <2>2. att' \in [dirty : BOOLEAN, receipts : Seq(Receipt)]
    BY <1>23, <2>1, <1>r DEF ReadEvidence, RestType
  <2>3. QED
    BY <1>23, <2>2, <1>r DEF ReadEvidence, RestType
<1>24. CASE RedactReceipts
  <2>1. att' \in [dirty : BOOLEAN, receipts : Seq(Receipt)]
    BY <1>24, <1>r DEF RedactReceipts, RestType, DataType
  <2>2. QED
    BY <1>24, <2>1, <1>r DEF RedactReceipts, RestType
<1>25. CASE WriteBundle
  <2>1. data' \in DataType /\ bundle'.report \in BOOLEAN
    <3>1. [data EXCEPT !.evidenceBundle = TRUE] \in DataType
      BY <1>r DEF RestType, DataType
    <3>2. \/ data' = [data EXCEPT !.evidenceBundle = TRUE]
          \/ data' = data
      BY <1>25 DEF WriteBundle
    <3>3. \/ bundle' = bundle
          \/ \E files : bundle' = [files |-> files, report |-> TRUE]
          \/ \E files : bundle' = [files |-> files, report |-> FALSE]
      BY <1>25 DEF WriteBundle
    <3>4. bundle'.report \in BOOLEAN
      <4>1. CASE bundle' = bundle
        BY <4>1, <1>r DEF RestType
      <4>2. ASSUME NEW files, NEW report \in BOOLEAN,
                   bundle' = [files |-> files, report |-> report]
            PROVE  bundle'.report \in BOOLEAN
        BY <4>2
      <4>3. QED
        BY <4>1, <4>2, <3>3
    <3>5. QED
      BY <1>r, <3>1, <3>2, <3>4 DEF RestType
  <2>2. swallowed' \subseteq Phase
    BY <1>25, <1>r, PhaseNames DEF WriteBundle, RestType
  <2>3. UNCHANGED <<request, pending, sent, found, att, scan, row>>
    BY <1>25 DEF WriteBundle
  <2>4. QED
    BY <2>1, <2>2, <2>3, <1>r DEF RestType
<1>26. CASE CommitVerdict
  <2>1. row' \in [verdict : {"pending", "SAFE", "BLOCKED"}, receipts : Seq(Receipt),
                  evidenceBundle : BOOLEAN]
    BY <1>26, <1>r DEF CommitVerdict, RestType, DataType
  <2>2. QED
    BY <1>26, <2>1, <1>r DEF CommitVerdict, RestType
<1>27. QED
  BY <1>1, <1>2, <1>3, <1>4, <1>5, <1>6, <1>7, <1>8, <1>9, <1>10, <1>11, <1>12,
     <1>13, <1>14, <1>15, <1>16, <1>17, <1>18, <1>19, <1>20, <1>21, <1>22, <1>23,
     <1>24, <1>25, <1>26
     DEF Next, Prepare, ScanSource, Learn, AttackTarget, Review, Attest

(* Every step keeps every variable's type.                                  *)
LEMMA TypeStep ==
  ASSUME TypeOK, LoopInv, [Next]_vars
  PROVE  TypeOK'
<1>1. LoopType' /\ RestType' /\ request' \in Requests
  BY LoopStep, RestTypeStep DEF LoopKept
<1>2. QED
  BY <1>1, TypeParts DEF TypeOK, LoopType, RestType

-----------------------------------------------------------------------------
(* Steps beside the evidence *)

Watched == LiveAttacks \cup SourceScans \cup {"gpt_evidence_review", "attestation"}

Undisturbed(q) ==
  \/ step'[q] = step[q]
  \/ step[q] = "idle" /\ step'[q] = "begun" /\ index <= Len(plan) /\ current = q

SameEvidence ==
  /\ data'.receipts = data.receipts /\ data'.lost = data.lost
  /\ data'.deps = data.deps /\ data'.patterns = data.patterns
  /\ data'.candidate = data.candidate /\ data'.decision = data.decision
  /\ data'.evidenceBundle = data.evidenceBundle

Aside ==
  /\ UNCHANGED <<pending, sent, found, att, scan, bundle, row>>
  /\ SameEvidence /\ swallowed \subseteq swallowed'
  /\ \A q \in Watched : Undisturbed(q)

(* A phase that is not watched ends or goes on.                             *)
LEMMA UnwatchedMove ==
  ASSUME TypeOK, NEW p \in Phase \ Watched, Moves(p)
  PROVE  \A q \in Watched : Undisturbed(q)
<1>1. Watched \subseteq Phase
  BY PhaseNames DEF Watched, LiveAttacks, SourceScans
<1>2. \E next \in Steps : step' = [step EXCEPT ![p] = next]
  BY DEF Moves, GoesOn, EndsAs, Steps
<1>3. QED
  BY <1>1, <1>2 DEF TypeOK, Undisturbed

(* Preparation, learning, audits, the start of a phase and its timeout touch *)
(* nothing that a verdict rests on.                                         *)
LEMMA AsideActions ==
  ASSUME TypeOK
  PROVE  /\ BeginPhase \/ Prepare \/ Learn \/ UNCHANGED vars => Aside
         /\ \A p \in Audits : Audit(p) => Aside
         /\ \A p \in Phase : TimesOut(p) => Aside
         /\ \A p \in Phase \ Watched : Raises(p) => Aside
<1> USE DEF SameEvidence
<1>w. Watched \subseteq Phase
  BY PhaseNames DEF Watched, LiveAttacks, SourceScans
<1>s. ASSUME NEW p \in Phase \ Watched, Moves(p), SameEvidence,
             UNCHANGED <<pending, sent, found, att, scan, bundle, row>>,
             swallowed' = swallowed \/ swallowed' = swallowed \cup {p}
      PROVE  Aside
  BY <1>s, UnwatchedMove DEF Aside
<1>1. CASE BeginPhase
  <2>1. index <= Len(plan) /\ step[current] = "idle" /\ current \in Phase
    BY <1>1, PlanFacts DEF BeginPhase, TypeOK, current
  <2>2. /\ current = "complete" => step' = [step EXCEPT ![current] = "over"]
        /\ current # "complete" => step' = [step EXCEPT ![current] = "begun"]
    BY <1>1 DEF BeginPhase, Returns, EndsAs, GoesOn
  <2>3. "complete" \notin Watched
    BY DEF Watched, LiveAttacks, SourceScans
  <2>4. \A q \in Watched : Undisturbed(q)
    BY <2>1, <2>2, <2>3, <1>w DEF TypeOK, Undisturbed
  <2>5. QED
    BY <1>1, <2>4 DEF BeginPhase, Aside
<1>2. CASE Prepare
  <2>1. \A p \in {"init", "ownership_verification", "environment_check",
                  "scoping", "mapping"} : p \in Phase \ Watched
    BY PhaseNames DEF Watched, LiveAttacks, SourceScans
  <2>2. \E p \in {"init", "ownership_verification", "environment_check",
                  "scoping", "mapping"} : Moves(p)
    BY <1>2, MoveForms DEF Prepare, HandleInit, HandleOwnershipVerification,
       HandleEnvironmentCheck, HandleScoping, HandleMapping
  <2>3. SameEvidence
    <3>1. CASE HandleInit
      BY <3>1 DEF HandleInit
    <3>2. CASE HandleOwnershipVerification \/ HandleEnvironmentCheck \/ HandleMapping
      BY <3>2 DEF HandleOwnershipVerification, HandleEnvironmentCheck, HandleMapping,
         TypeOK, DataType
    <3>3. CASE HandleScoping
      <4>1. \A d \in DataType, n \in 0 .. 2 : Provisioned(d, n) =
              [d EXCEPT !.accounts = n, !.identities = IF n = 2 THEN 2 ELSE d.identities]
        BY DEF Provisioned
      <4>2. WithTargetUrl(data) \in {data, [data EXCEPT !.target = "staging"]}
        BY DEF WithTargetUrl
      <4>3. [data EXCEPT !.target = "staging"] \in DataType
        BY DEF TypeOK, DataType, Target
      <4>4. PICK e \in DataType : e = WithTargetUrl(data)
        BY <4>2, <4>3 DEF TypeOK
      <4>5. /\ e.receipts = data.receipts /\ e.lost = data.lost
            /\ e.deps = data.deps /\ e.patterns = data.patterns
            /\ e.candidate = data.candidate /\ e.decision = data.decision
            /\ e.evidenceBundle = data.evidenceBundle
        BY <4>2, <4>4 DEF TypeOK, DataType
      <4>6. PICK n \in 0 .. 2 : data' = Provisioned(e, n)
        BY <3>3, <4>4 DEF HandleScoping
      <4>7. data' = [e EXCEPT !.accounts = n, !.identities = IF n = 2 THEN 2 ELSE e.identities]
        BY <4>1, <4>6
      <4>8. QED
        BY <4>5, <4>7 DEF DataType
    <3>4. QED
      BY <1>2, <3>1, <3>2, <3>3 DEF Prepare
  <2>4. UNCHANGED <<pending, sent, found, swallowed, att, scan, bundle, row>>
    BY <1>2 DEF Prepare, HandleInit, HandleOwnershipVerification,
       HandleEnvironmentCheck, HandleScoping, HandleMapping
  <2>5. QED
    BY <2>1, <2>2, <2>3, <2>4, <1>s
<1>3. CASE Learn
  <2>1. \A p \in Intelligence : p \in Phase \ Watched
    BY PhaseNames DEF Watched, LiveAttacks, SourceScans, Intelligence
  <2>2. CASE IngestCves \/ EnrichCves
    <3>1. Moves("cve_ingestion")
      BY <2>2, MoveForms DEF IngestCves, EnrichCves, Steps
    <3>2. SameEvidence
      BY <2>2 DEF IngestCves, EnrichCves, TypeOK, DataType
    <3>3. QED
      BY <2>2, <3>1, <3>2, <2>1, <1>s DEF IngestCves, EnrichCves, Intelligence
  <2>3. CASE LearnThreats
    <3>1. Moves("threat_learning")
      BY <2>3, MoveForms DEF LearnThreats
    <3>2. SameEvidence
      BY <2>3 DEF LearnThreats, TypeOK, DataType
    <3>3. QED
      BY <2>3, <3>1, <3>2, <2>1, <1>s DEF LearnThreats, Intelligence
  <2>4. ASSUME NEW p \in Intelligence, IntelligenceFails(p)
        PROVE  Aside
    BY <2>4, <2>1, <1>s, MoveForms DEF IntelligenceFails, Swallows
  <2>5. QED
    BY <1>3, <2>2, <2>3, <2>4 DEF Learn
<1>4. CASE UNCHANGED vars
  BY <1>4 DEF vars, Aside, Undisturbed
<1>5. ASSUME NEW p \in Audits, Audit(p)
      PROVE  Aside
  <2>1. p \in Phase \ Watched
    BY PhaseNames DEF Watched, LiveAttacks, SourceScans, Audits
  <2>2. QED
    BY <1>5, <2>1, <1>s, MoveForms DEF Audit
<1>6. ASSUME NEW p \in Phase, TimesOut(p)
      PROVE  Aside
  <2>1. \A q \in Audits \cup {"init"} : q \notin Watched
    BY DEF Watched, LiveAttacks, SourceScans, Audits
  <2>2. \A q \in Watched : step'[q] = step[q]
    BY <1>6, <2>1, <1>w DEF TimesOut, TypeOK
  <2>3. QED
    BY <1>6, <2>2 DEF TimesOut, Aside, Undisturbed
<1>7. ASSUME NEW p \in Phase \ Watched, Raises(p)
      PROVE  Aside
  <2>1. p \notin LiveAttacks
    BY DEF Watched
  <2>2. QED
    BY <1>7, <2>1, <1>s, MoveForms DEF Raises
<1>8. QED
  BY <1>1, <1>2, <1>3, <1>4, <1>5, <1>6, <1>7

(* The steps that are left, each a case of the lemmas below.                *)
RaisesIn(P) == \E p \in P : Raises(p)

(* A step stays aside or is one of those that the verdict rests on.         *)
LEMMA NextCases ==
  ASSUME TypeOK, [Next]_vars
  PROVE  \/ Aside
         \/ RaisesIn(LiveAttacks) \/ RaisesIn(SourceScans)
         \/ RaisesIn({"gpt_evidence_review"}) \/ RaisesIn({"attestation"})
         \/ ScanSource \/ AttackTarget \/ Review \/ Attest
<1>1. ASSUME NEW p \in Phase, Raises(p)
      PROVE  \/ Aside
             \/ RaisesIn(LiveAttacks) \/ RaisesIn(SourceScans)
             \/ RaisesIn({"gpt_evidence_review"}) \/ RaisesIn({"attestation"})
  BY <1>1, AsideActions DEF RaisesIn, Watched
<1>2. QED
  BY <1>1, AsideActions DEF Next

-----------------------------------------------------------------------------
(* Receipts and attacks *)

(* What appending does to what a sequence contains.                         *)
LEMMA ElementsAppend ==
  ASSUME NEW S, NEW s \in Seq(S), NEW x \in S
  PROVE  Elements(Append(s, x)) = Elements(s) \cup {x}
<1>1. /\ Len(s) \in Nat /\ Len(Append(s, x)) = Len(s) + 1
      /\ \A i \in 1 .. Len(s) : Append(s, x)[i] = s[i]
      /\ Append(s, x)[Len(s) + 1] = x
  OBVIOUS
<1>2. Elements(Append(s, x)) \subseteq Elements(s) \cup {x}
  BY <1>1 DEF Elements
<1>3. Elements(s) \cup {x} \subseteq Elements(Append(s, x))
  <2>1. 1 .. Len(s) \subseteq 1 .. Len(Append(s, x))
        /\ Len(s) + 1 \in 1 .. Len(Append(s, x))
    BY <1>1
  <2>2. QED
    BY <1>1, <2>1 DEF Elements
<1>4. QED
  BY <1>2, <1>3

(* A receipt that exists is published or still held by an attack.           *)
LEMMA ReceiptsMember ==
  \A r : r \in Receipts <=> \/ r \in Elements(data.receipts)
                            \/ \E p \in LiveAttacks : r \in pending[p].receipts
BY DEF Receipts

(* The same after a step.                                                   *)
LEMMA ReceiptsMemberNext ==
  \A r : r \in Receipts' <=> \/ r \in Elements(data'.receipts)
                             \/ \E p \in LiveAttacks : r \in pending'[p].receipts
BY DEF Receipts

(* The thread of an attack only goes forward.                               *)
Forward(q) == /\ step[q] = "sent" => step'[q] = "sent"
              /\ step[q] \notin {"idle", "begun"} => step'[q] \notin {"idle", "begun"}
              /\ step'[q] = "sent" => step[q] = "sent"
              /\ step[q] = "over" => step'[q] = "over"

(* Nothing is sent, published or lost.                                      *)
LEMMA SwarmFrame ==
  ASSUME TypeOK, SwarmInv, UNCHANGED <<pending, sent>>,
         data'.receipts = data.receipts, Failed \subseteq Failed',
         swallowed \subseteq swallowed',
         \A q \in LiveAttacks : Forward(q)
  PROVE  SwarmInv'
<1>1. \A r : r \in Receipts' <=> r \in Receipts
  BY ReceiptsMember, ReceiptsMemberNext
<1>2. ASSUME NEW p \in LiveAttacks
      PROVE  /\ step'[p] # "sent" => pending'[p] = Nothing
             /\ \A r \in pending'[p].receipts : r.by = p
  BY DEF SwarmInv, Forward
<1>3. ASSUME NEW s \in sent'
      PROVE  /\ step'[s.by] \notin {"idle", "begun"}
             /\ \/ \E r \in Receipts' : Answers(r, s)
                \/ LosesReceipts(s.by, s.course)
                \/ s.by \in Failed' \cup (swallowed' \cap {"zero_day_hunting"})
  BY <1>1 DEF SwarmInv, Forward, TypeOK
<1>4. ASSUME NEW r \in Receipts'
      PROVE  /\ \E s \in sent' : Answers(r, s)
             /\ \A s \in sent' : Answers(r, s) => r.outcome = OutcomeOf(s.by, s.course)
  BY <1>1 DEF SwarmInv
<1>5. QED
  BY <1>2, <1>3, <1>4 DEF SwarmInv

(* The thread of an attack ends: what it still holds is gone, and that is    *)
(* recorded.                                                                *)
LEMMA SwarmThreadEnds ==
  ASSUME TypeOK, SwarmInv, NEW p \in LiveAttacks, Live(p),
         pending' = [pending EXCEPT ![p] = Nothing], sent' = sent,
         data'.receipts = data.receipts, step' = [step EXCEPT ![p] = "over"],
         Failed \subseteq Failed', swallowed \subseteq swallowed',
         \/ pending[p].receipts = {}
         \/ p \in Failed' \cup (swallowed' \cap {"zero_day_hunting"})
  PROVE  SwarmInv'
<1>1. p \in Phase /\ LiveAttacks \subseteq Phase
  BY PhaseNames DEF LiveAttacks
<1>2. pending'[p] = Nothing /\ \A q \in LiveAttacks : q # p => pending'[q] = pending[q]
  BY DEF TypeOK
<1>3. step'[p] = "over" /\ \A q \in LiveAttacks : q # p => step'[q] = step[q]
  BY <1>1 DEF TypeOK
<1>4. ASSUME NEW r \in Receipts'
      PROVE  r \in Receipts
  BY <1>2, <1>4, ReceiptsMember, ReceiptsMemberNext DEF Nothing
<1>5. ASSUME NEW r \in Receipts, r \notin Receipts'
      PROVE  r \in pending[p].receipts
  BY <1>2, <1>5, ReceiptsMember, ReceiptsMemberNext
<1>6. ASSUME NEW q \in LiveAttacks
      PROVE  /\ step'[q] # "sent" => pending'[q] = Nothing
             /\ \A r \in pending'[q].receipts : r.by = q
  BY <1>2, <1>3 DEF SwarmInv, Nothing
<1>7. ASSUME NEW s \in sent'
      PROVE  step'[s.by] \notin {"idle", "begun"}
  BY <1>3 DEF SwarmInv, TypeOK
<1>8. ASSUME NEW s \in sent'
      PROVE  \/ \E r \in Receipts' : Answers(r, s)
             \/ LosesReceipts(s.by, s.course)
             \/ s.by \in Failed' \cup (swallowed' \cap {"zero_day_hunting"})
  <2>1. CASE \E r \in Receipts : Answers(r, s)
    <3>1. PICK r \in Receipts : Answers(r, s)
      BY <2>1
    <3>2. CASE r \notin Receipts'
      <4>1. r \in pending[p].receipts
        BY <3>2, <1>5
      <4>2. s.by = p
        BY <3>1, <4>1 DEF SwarmInv, Answers
      <4>3. QED
        BY <4>1, <4>2
    <3>3. QED
      BY <3>1, <3>2
  <2>2. CASE ~ \E r \in Receipts : Answers(r, s)
    BY <2>2 DEF SwarmInv
  <2>3. QED
    BY <2>1, <2>2
<1>9. ASSUME NEW r \in Receipts'
      PROVE  /\ \E s \in sent' : Answers(r, s)
             /\ \A s \in sent' : Answers(r, s) => r.outcome = OutcomeOf(s.by, s.course)
  BY <1>4 DEF SwarmInv
<1>10. QED
  BY <1>6, <1>7, <1>8, <1>9 DEF SwarmInv

(* A receipt is published: the run holds the same ones.                     *)
LEMMA SwarmPublish ==
  ASSUME TypeOK, SwarmInv, NEW p \in LiveAttacks, PublishReceipt(p)
  PROVE  SwarmInv'
<1>1. PICK r \in pending[p].receipts :
        /\ data' = [data EXCEPT !.receipts = Append(data.receipts, r)]
        /\ pending' = [pending EXCEPT ![p].receipts = @ \ {r}]
  BY DEF PublishReceipt
<1>2. r \in Receipt /\ data.receipts \in Seq(Receipt)
  BY DEF TypeOK, DataType
<1>3. data'.receipts = Append(data.receipts, r)
  BY <1>1 DEF TypeOK, DataType
<1>4. Elements(data'.receipts) = Elements(data.receipts) \cup {r}
  BY <1>2, <1>3, ElementsAppend
<1>5. /\ pending'[p].receipts = pending[p].receipts \ {r}
      /\ \A q \in LiveAttacks : q # p => pending'[q] = pending[q]
  BY <1>1 DEF TypeOK
<1>6. \A x : x \in Receipts' <=> x \in Receipts
  BY <1>4, <1>5, ReceiptsMember, ReceiptsMemberNext
<1>7. UNCHANGED <<step, sent, swallowed>> /\ step[p] = "sent" /\ Failed' = Failed
  BY DEF PublishReceipt, loop, Failed
<1>8. ASSUME NEW q \in LiveAttacks
      PROVE  /\ step'[q] # "sent" => pending'[q] = Nothing
             /\ \A x \in pending'[q].receipts : x.by = q
  BY <1>5, <1>7 DEF SwarmInv
<1>9. ASSUME NEW s \in sent'
      PROVE  /\ step'[s.by] \notin {"idle", "begun"}
             /\ \/ \E x \in Receipts' : Answers(x, s)
                \/ LosesReceipts(s.by, s.course)
                \/ s.by \in Failed' \cup (swallowed' \cap {"zero_day_hunting"})
  BY <1>6, <1>7 DEF SwarmInv
<1>10. ASSUME NEW x \in Receipts'
       PROVE  /\ \E s \in sent' : Answers(x, s)
              /\ \A s \in sent' : Answers(x, s) => x.outcome = OutcomeOf(s.by, s.course)
  BY <1>6, <1>7 DEF SwarmInv
<1>11. QED
  BY <1>8, <1>9, <1>10 DEF SwarmInv

(* An attack: its receipts answer the attacks it made, and those only.      *)
LEMMA SwarmAttack ==
  ASSUME TypeOK, SwarmInv, NEW p \in LiveAttacks, Attack(p),
         Failed \subseteq Failed'
  PROVE  SwarmInv'
<1>1. PICK n \in Nat, failed \in Nat :
        \E course \in [1 .. n -> Course(p)] : Strikes(p, n, failed, course)
  BY AttackFacts
<1>2. PICK course \in [1 .. n -> Course(p)] : Strikes(p, n, failed, course)
  BY <1>1
<1> DEFINE new == ReceiptsOf(p, data.routes, course)
           made(i) == [by |-> p, nth |-> i, route |-> data.routes[i],
                       target |-> data.target, course |-> course[i]]
<1>3. p \in Phase /\ LiveAttacks \subseteq Phase
  BY PhaseNames DEF LiveAttacks
<1>4. /\ step[p] = "begun" /\ step'[p] = "sent" /\ UNCHANGED swallowed
      /\ \A q \in LiveAttacks : q # p => step'[q] = step[q]
  BY <1>3 DEF Attack, GoesOn, TypeOK
<1>5. /\ pending'[p].receipts = new
      /\ \A q \in LiveAttacks : q # p => pending'[q] = pending[q]
  BY <1>2 DEF Strikes, TypeOK
<1>6. pending[p].receipts = {}
  BY <1>4 DEF SwarmInv, Nothing
<1>7. data'.receipts = data.receipts
  BY <1>2 DEF Strikes, TypeOK, DataType
<1>8. sent' = sent \cup { made(i) : i \in 1 .. n }
  BY <1>2 DEF Strikes
<1>9. \A s \in sent : s.by # p
  BY <1>4 DEF SwarmInv
<1>10. \A r \in Receipts : r.by # p
  BY <1>9 DEF SwarmInv, Answers
<1>11. /\ \A r \in new : \E i \in 1 .. n :
            /\ ~LosesReceipts(p, course[i]) /\ r.by = p /\ r.nth = i
            /\ r.outcome = OutcomeOf(p, course[i])
       /\ \A i \in 1 .. n : ~LosesReceipts(p, course[i]) =>
            \E r \in new : r.by = p /\ r.nth = i
  <2>1. PICK routes : routes = data.routes
    OBVIOUS
  <2>2. /\ \A r \in ReceiptsOf(p, routes, course) : \E i \in 1 .. n :
             /\ ~LosesReceipts(p, course[i]) /\ r.by = p /\ r.nth = i
             /\ r.route = routes[i] /\ r.outcome = OutcomeOf(p, course[i])
        /\ \A i \in 1 .. n : ~LosesReceipts(p, course[i]) =>
             \E r \in ReceiptsOf(p, routes, course) : r.by = p /\ r.nth = i
    BY ReceiptFacts
  <2>3. new = ReceiptsOf(p, routes, course)
    BY <2>1
  <2> HIDE DEF new
  <2>4. QED
    BY <2>2, <2>3
<1> HIDE DEF new
<1>12. \A r : r \in Receipts' <=> r \in Receipts \/ r \in new
  BY <1>5, <1>6, <1>7, ReceiptsMember, ReceiptsMemberNext
<1>13. \A i \in 1 .. n : /\ made(i).by = p /\ made(i).nth = i
                         /\ made(i).course = course[i]
  OBVIOUS
<1> HIDE DEF made
<1>14. ASSUME NEW q \in LiveAttacks
       PROVE  /\ step'[q] # "sent" => pending'[q] = Nothing
              /\ \A r \in pending'[q].receipts : r.by = q
  BY <1>4, <1>5, <1>11 DEF SwarmInv
<1>15. ASSUME NEW s \in sent'
       PROVE  /\ step'[s.by] \notin {"idle", "begun"}
              /\ \/ \E r \in Receipts' : Answers(r, s)
                 \/ LosesReceipts(s.by, s.course)
                 \/ s.by \in Failed' \cup (swallowed' \cap {"zero_day_hunting"})
  <2>1. CASE s \in sent
    <3>1. s.by \in LiveAttacks /\ s.by # p
      BY <2>1, <1>9 DEF TypeOK
    <3>2. QED
      BY <2>1, <3>1, <1>4, <1>12 DEF SwarmInv
  <2>2. ASSUME NEW i \in 1 .. n, s = made(i)
        PROVE  /\ step'[s.by] \notin {"idle", "begun"}
               /\ \/ \E r \in Receipts' : Answers(r, s)
                  \/ LosesReceipts(s.by, s.course)
    <3>1. s.by = p /\ s.nth = i /\ s.course = course[i]
      BY <2>2, <1>13
    <3>2. CASE ~LosesReceipts(p, course[i])
      <4>1. PICK r \in new : r.by = p /\ r.nth = i
        BY <3>2, <1>11
      <4>2. QED
        BY <4>1, <3>1, <1>4, <1>12 DEF Answers
    <3>3. QED
      BY <3>1, <3>2, <1>4
  <2>3. QED
    BY <2>1, <2>2, <1>8
<1>16. ASSUME NEW r \in Receipts', NEW s \in sent', Answers(r, s)
       PROVE  r.outcome = OutcomeOf(s.by, s.course)
  <2>1. CASE s \in sent
    <3>1. r \notin new
      BY <2>1, <1>9, <1>11, <1>16 DEF Answers
    <3>2. QED
      BY <2>1, <3>1, <1>12, <1>16 DEF SwarmInv
  <2>2. ASSUME NEW i \in 1 .. n, s = made(i)
        PROVE  r.outcome = OutcomeOf(s.by, s.course)
    <3>1. s.by = p /\ s.nth = i /\ s.course = course[i]
      BY <2>2, <1>13
    <3>2. r \in new
      BY <3>1, <1>10, <1>12, <1>16 DEF Answers
    <3>3. r.nth = i
      BY <3>1, <1>16 DEF Answers
    <3>4. QED
      BY <3>1, <3>2, <3>3, <1>11
  <2>3. QED
    BY <2>1, <2>2, <1>8
<1>17. ASSUME NEW r \in Receipts'
       PROVE  \E s \in sent' : Answers(r, s)
  <2>1. CASE r \in Receipts
    BY <2>1, <1>8 DEF SwarmInv
  <2>2. CASE r \in new
    <3>1. PICK i \in 1 .. n : r.by = p /\ r.nth = i
      BY <2>2, <1>11
    <3>2. made(i) \in sent' /\ Answers(r, made(i))
      BY <3>1, <1>8, <1>13 DEF Answers
    <3>3. QED
      BY <3>2
  <2>3. QED
    BY <2>1, <2>2, <1>12
<1>18. QED
  BY <1>14, <1>15, <1>16, <1>17 DEF SwarmInv

(* The awaited phase that raises is recorded as failed.                     *)
LEMMA RaisedIsFailed ==
  ASSUME TypeOK, LoopInv, NEW p \in Phase, Raises(p)
  PROVE  p \in Failed' /\ step' = [step EXCEPT ![p] = "over"] /\ Live(p)
<1>1. recorded' = [recorded EXCEPT ![p] = "failed"]
  BY DEF Raises, EndsAs, Record
<1>2. QED
  BY <1>1 DEF Raises, EndsAs, Failed, TypeOK, Fragile, Live

(* Every step keeps receipts and attacks together.                          *)
LEMMA SwarmStep ==
  ASSUME TypeOK, LoopInv, SwarmInv, [Next]_vars
  PROVE  SwarmInv'
<1>f. Failed \subseteq Failed'
  BY LoopStep DEF LoopKept
<1>p. LiveAttacks \subseteq Phase
  BY PhaseNames DEF LiveAttacks
<1>m. ASSUME NEW p \in Phase \ LiveAttacks, NEW next \in Steps,
             step' = [step EXCEPT ![p] = next]
      PROVE  \A q \in LiveAttacks : Forward(q)
  BY <1>m, <1>p DEF TypeOK, Forward
<1>1. CASE Aside
  <2>1. \A q \in LiveAttacks : Forward(q)
    BY <1>1 DEF Aside, Undisturbed, Forward, Watched
  <2>2. QED
    BY <1>1, <2>1, <1>f, SwarmFrame DEF Aside, SameEvidence
<1>2. ASSUME NEW p \in LiveAttacks, Raises(p)
      PROVE  SwarmInv'
  <2>1. p \in Failed' /\ step' = [step EXCEPT ![p] = "over"] /\ Live(p)
    BY <1>2, <1>p, RaisedIsFailed
  <2>2. QED
    BY <1>2, <2>1, <1>f, SwarmThreadEnds DEF Raises
<1>3. ASSUME NEW p \in SourceScans \cup {"gpt_evidence_review", "attestation"}, Raises(p)
      PROVE  SwarmInv'
  <2>1. p \in Phase \ LiveAttacks
    BY PhaseNames DEF SourceScans, LiveAttacks
  <2>2. step' = [step EXCEPT ![p] = "over"]
    BY <1>3 DEF Raises, EndsAs
  <2>3. QED
    BY <1>3, <2>1, <2>2, <1>m, <1>f, SwarmFrame DEF Raises, Steps
<1>4. CASE ScanSource
  <2>1. \E p \in SourceScans, next \in Steps : step' = [step EXCEPT ![p] = next]
    BY <1>4 DEF ScanSource, ScanDependencies, StoreDependencies, DependencyScanFails,
       ScanPatterns, PatternScanFails, GoesOn, Returns, Swallows, EndsAs, Steps,
       SourceScans
  <2>2. SourceScans \subseteq Phase \ LiveAttacks
    BY PhaseNames DEF SourceScans, LiveAttacks
  <2>3. data'.receipts = data.receipts /\ swallowed \subseteq swallowed'
        /\ UNCHANGED <<pending, sent>>
    BY <1>4 DEF ScanSource, ScanDependencies, StoreDependencies, DependencyScanFails,
       ScanPatterns, PatternScanFails, Swallows, Enriched, TypeOK, DataType
  <2>4. QED
    BY <2>1, <2>2, <2>3, <1>m, <1>f, SwarmFrame
<1>5. ASSUME NEW p \in LiveAttacks, SkipAttack(p)
      PROVE  SwarmInv'
  <2>1. step[p] = "begun" /\ step' = [step EXCEPT ![p] = "over"]
    BY <1>5 DEF SkipAttack, Returns, EndsAs
  <2>2. \A q \in LiveAttacks : Forward(q)
    BY <2>1, <1>p DEF TypeOK, Forward
  <2>3. QED
    BY <1>5, <2>2, <1>f, SwarmFrame DEF SkipAttack
<1>6. ASSUME NEW p \in LiveAttacks, AttackEnds(p)
      PROVE  SwarmInv'
  <2>1. /\ Live(p) /\ step' = [step EXCEPT ![p] = "over"]
        /\ pending[p].receipts = {}
        /\ pending' = [pending EXCEPT ![p] = Nothing] /\ UNCHANGED <<sent, swallowed>>
    BY <1>6 DEF AttackEnds, Returns, EndsAs, Live
  <2>2. data'.receipts = data.receipts
    BY <1>6 DEF AttackEnds, TypeOK, DataType
  <2>3. QED
    BY <2>1, <2>2, <1>f, SwarmThreadEnds
<1>7. CASE HuntingFails
  <2>1. "zero_day_hunting" \in LiveAttacks
    BY DEF LiveAttacks
  <2>2. QED
    BY <1>7, <2>1, <1>f, SwarmThreadEnds DEF HuntingFails, Swallows, Returns, EndsAs
<1>8. CASE Review \/ Attest
  <2>1. \E p \in {"gpt_evidence_review", "attestation"}, next \in Steps :
          step' = [step EXCEPT ![p] = next]
    BY <1>8 DEF Review, Attest, ReviewSkips, PrepareReview, ReviewAnswers, ReadEvidence,
       RedactReceipts, WriteBundle, CommitVerdict, NextAttestation, GoesOn, Returns,
       EndsAs, Steps
  <2>2. {"gpt_evidence_review", "attestation"} \subseteq Phase \ LiveAttacks
    BY PhaseNames DEF LiveAttacks
  <2>3. CASE Review
    <3>1. data'.receipts = data.receipts
      BY <2>3 DEF Review, ReviewSkips, PrepareReview, ReviewAnswers, TypeOK, DataType
    <3>2. UNCHANGED <<pending, sent, swallowed>>
      BY <2>3 DEF Review, ReviewSkips, PrepareReview, ReviewAnswers
    <3>3. QED
      BY <2>1, <2>2, <3>1, <3>2, <1>m, <1>f, SwarmFrame
  <2>4. CASE Attest
    <3>1. data'.receipts = data.receipts
      BY <2>4 DEF Attest, ReadEvidence, RedactReceipts, WriteBundle, CommitVerdict,
         TypeOK, DataType
    <3>2. UNCHANGED <<pending, sent>> /\ swallowed \subseteq swallowed'
      BY <2>4 DEF Attest, ReadEvidence, RedactReceipts, WriteBundle, CommitVerdict
    <3>3. QED
      BY <2>1, <2>2, <3>1, <3>2, <1>m, <1>f, SwarmFrame
  <2>5. QED
    BY <1>8, <2>3, <2>4
<1>9. CASE AttackTarget
  BY <1>9, <1>5, <1>6, <1>7, <1>f, SwarmAttack, SwarmPublish DEF AttackTarget
<1>10. QED
  BY <1>1, <1>2, <1>3, <1>4, <1>8, <1>9, NextCases DEF RaisesIn

-----------------------------------------------------------------------------
(* Statistics and scans *)

LostCounted(s) ==
  \/ step[s.by] = "sent" /\ pending[s.by].lost > 0
  \/ step[s.by] = "over" /\ (s.by \in Failed \/ data.lost[s.by] > 0)

Sweeps == {"auth_attack", "injection_attack"}

(* The losses, one attack at a time.                                        *)
LEMMA LostParts ==
  LostInv <=> \A s \in sent : s.by \in Sweeps /\ s.course.end = "raises" => LostCounted(s)
BY DEF LostInv, LostCounted, Sweeps

(* The same after a step.                                                   *)
LEMMA LostPartsNext ==
  LostInv' <=> \A s \in sent' : s.by \in Sweeps /\ s.course.end = "raises" => LostCounted(s)'
BY DEF LostInv, LostCounted, Sweeps

(* What touches neither the thread of a sweep nor its statistics.           *)
LEMMA LostElsewhere ==
  ASSUME NEW s, LostCounted(s), Failed \subseteq Failed',
         pending'[s.by].lost = pending[s.by].lost,
         data'.lost[s.by] = data.lost[s.by], Forward(s.by)
  PROVE  LostCounted(s)'
BY DEF LostCounted, Forward

(* Every step keeps the statistics honest.                                  *)
LEMMA LostStep ==
  ASSUME TypeOK, LoopInv, SwarmInv, LostInv, [Next]_vars
  PROVE  LostInv'
<1>f. Failed \subseteq Failed'
  BY LoopStep DEF LoopKept
<1>p. LiveAttacks \subseteq Phase /\ Sweeps \subseteq LiveAttacks
  BY PhaseNames DEF LiveAttacks, Sweeps
<1>e. ASSUME UNCHANGED <<pending, sent>>, data'.lost = data.lost,
             \A q \in LiveAttacks : Forward(q)
      PROVE  LostInv'
  BY <1>e, <1>f, <1>p, LostElsewhere, LostParts, LostPartsNext
<1>m. ASSUME NEW p \in Phase \ LiveAttacks, NEW next \in Steps,
             step' = [step EXCEPT ![p] = next]
      PROVE  \A q \in LiveAttacks : Forward(q)
  BY <1>m, <1>p DEF TypeOK, Forward
<1>o. ASSUME NEW p \in LiveAttacks, NEW next \in Steps,
             step' = [step EXCEPT ![p] = next] \/ step' = step,
             \A q \in LiveAttacks : q # p => /\ pending'[q].lost = pending[q].lost
                                             /\ data'.lost[q] = data.lost[q],
             NEW s \in sent, s.by # p, s.by \in Sweeps, s.course.end = "raises"
      PROVE  LostCounted(s)'
  <2>1. Forward(s.by)
    BY <1>o, <1>p DEF TypeOK, Forward
  <2>2. LostCounted(s)
    BY <1>o, LostParts
  <2>3. QED
    BY <1>o, <1>p, <1>f, <2>1, <2>2, LostElsewhere
<1>1. CASE Aside
  <2>1. \A q \in LiveAttacks : Forward(q)
    BY <1>1 DEF Aside, Undisturbed, Forward, Watched
  <2>2. QED
    BY <1>1, <2>1, <1>e DEF Aside, SameEvidence
<1>2. ASSUME NEW p \in LiveAttacks, Raises(p)
      PROVE  LostInv'
  <2>1. p \in Failed' /\ step' = [step EXCEPT ![p] = "over"] /\ step'[p] = "over"
    BY <1>2, <1>p, RaisedIsFailed DEF TypeOK
  <2>2. UNCHANGED <<sent, data>>
        /\ \A q \in LiveAttacks : q # p => pending'[q].lost = pending[q].lost
    BY <1>2 DEF Raises, TypeOK
  <2>3. ASSUME NEW s \in sent, s.by \in Sweeps, s.course.end = "raises"
        PROVE  LostCounted(s)'
    <3>1. CASE s.by = p
      BY <2>1, <3>1 DEF LostCounted
    <3>2. CASE s.by # p
      BY <2>1, <2>2, <2>3, <3>2, <1>o DEF Steps
    <3>3. QED
      BY <3>1, <3>2
  <2>4. QED
    BY <2>2, <2>3, LostPartsNext
<1>3. ASSUME NEW p \in SourceScans \cup {"gpt_evidence_review", "attestation"}, Raises(p)
      PROVE  LostInv'
  <2>1. p \in Phase \ LiveAttacks
    BY PhaseNames DEF SourceScans, LiveAttacks
  <2>2. step' = [step EXCEPT ![p] = "over"]
    BY <1>3 DEF Raises, EndsAs
  <2>3. QED
    BY <1>3, <2>1, <2>2, <1>m, <1>e DEF Raises, Steps
<1>4. CASE ScanSource
  <2>1. \E p \in SourceScans, next \in Steps : step' = [step EXCEPT ![p] = next]
    BY <1>4 DEF ScanSource, ScanDependencies, StoreDependencies, DependencyScanFails,
       ScanPatterns, PatternScanFails, GoesOn, Returns, Swallows, EndsAs, Steps,
       SourceScans
  <2>2. SourceScans \subseteq Phase \ LiveAttacks
    BY PhaseNames DEF SourceScans, LiveAttacks
  <2>3. data'.lost = data.lost /\ UNCHANGED <<pending, sent>>
    BY <1>4 DEF ScanSource, ScanDependencies, StoreDependencies, DependencyScanFails,
       ScanPatterns, PatternScanFails, Enriched, TypeOK, DataType
  <2>4. QED
    BY <2>1, <2>2, <2>3, <1>m, <1>e
<1>5. ASSUME NEW p \in LiveAttacks, SkipAttack(p)
      PROVE  LostInv'
  <2>1. step[p] = "begun" /\ step' = [step EXCEPT ![p] = "over"]
    BY <1>5 DEF SkipAttack, Returns, EndsAs
  <2>2. \A q \in LiveAttacks : Forward(q)
    BY <2>1, <1>p DEF TypeOK, Forward
  <2>3. QED
    BY <1>5, <2>2, <1>e DEF SkipAttack
<1>6. ASSUME NEW p \in LiveAttacks, AttackEnds(p)
      PROVE  LostInv'
  <2>1. /\ step[p] = "sent" /\ step' = [step EXCEPT ![p] = "over"] /\ step'[p] = "over"
        /\ \A q \in LiveAttacks : q # p => pending'[q].lost = pending[q].lost
        /\ UNCHANGED sent
    BY <1>6, <1>p DEF AttackEnds, Returns, EndsAs, TypeOK
  <2>2. /\ p \in Sweeps => data'.lost[p] = pending[p].lost
        /\ \A q \in Sweeps : q # p => data'.lost[q] = data.lost[q]
    BY <1>6 DEF AttackEnds, TypeOK, DataType, Sweeps, Swarms
  <2>3. ASSUME NEW s \in sent, s.by \in Sweeps, s.course.end = "raises"
        PROVE  LostCounted(s)'
    <3>1. LostCounted(s)
      BY <2>3, LostParts
    <3>2. CASE s.by = p
      BY <2>1, <2>2, <2>3, <3>1, <3>2 DEF LostCounted
    <3>3. CASE s.by # p
      <4>1. Forward(s.by)
        BY <2>1, <2>3, <3>3, <1>p DEF TypeOK, Forward
      <4>2. QED
        BY <2>1, <2>2, <2>3, <3>1, <3>3, <4>1, <1>p, <1>f, LostElsewhere
    <3>4. QED
      BY <3>2, <3>3
  <2>4. QED
    BY <2>1, <2>3, LostPartsNext
<1>7. CASE HuntingFails
  <2>1. /\ step' = [step EXCEPT !["zero_day_hunting"] = "over"]
        /\ \A q \in LiveAttacks : q # "zero_day_hunting" => pending'[q].lost = pending[q].lost
        /\ UNCHANGED <<sent, data>>
    BY <1>7 DEF HuntingFails, Swallows, Returns, EndsAs, TypeOK
  <2>2. "zero_day_hunting" \in LiveAttacks /\ "zero_day_hunting" \notin Sweeps
        /\ "over" \in Steps
    BY DEF LiveAttacks, Sweeps, Steps
  <2>3. \A s \in sent : s.by \in Sweeps /\ s.course.end = "raises" => LostCounted(s)'
    BY <2>1, <2>2, <1>o
  <2>4. QED
    BY <2>1, <2>3, LostPartsNext
<1>8. ASSUME NEW p \in LiveAttacks, PublishReceipt(p)
      PROVE  LostInv'
  <2>1. /\ \A q \in LiveAttacks : pending'[q].lost = pending[q].lost
        /\ data'.lost = data.lost /\ UNCHANGED <<sent, step>>
    BY <1>8 DEF PublishReceipt, TypeOK, DataType
  <2>2. \A q \in LiveAttacks : Forward(q)
    BY <2>1 DEF Forward
  <2>3. \A s \in sent : LostCounted(s) /\ s.by \in Sweeps => LostCounted(s)'
    BY <2>1, <2>2, <1>f, <1>p, LostElsewhere
  <2>4. QED
    BY <2>1, <2>3, LostParts, LostPartsNext
<1>9. ASSUME NEW p \in LiveAttacks, Attack(p)
      PROVE  LostInv'
  <2>1. PICK n \in Nat, failed \in Nat :
          \E course \in [1 .. n -> Course(p)] : Strikes(p, n, failed, course)
    BY <1>9, AttackFacts
  <2>2. PICK course \in [1 .. n -> Course(p)] : Strikes(p, n, failed, course)
    BY <2>1
  <2>3. /\ step[p] = "begun" /\ step' = [step EXCEPT ![p] = "sent"] /\ step'[p] = "sent"
    BY <1>9, <1>p DEF Attack, GoesOn, TypeOK
  <2>4. /\ pending'[p].lost = failed
        /\ \A q \in LiveAttacks : q # p => /\ pending'[q].lost = pending[q].lost
                                           /\ data'.lost[q] = data.lost[q]
    <3>1. /\ pending'[p].lost = failed
          /\ \A q \in LiveAttacks : q # p => pending'[q].lost = pending[q].lost
      BY <2>2 DEF Strikes, TypeOK
    <3>2. \A q \in LiveAttacks : q # p => data'.lost[q] = data.lost[q]
      BY <2>2 DEF Strikes, TypeOK, DataType, Swarms
    <3>3. QED
      BY <3>1, <3>2
  <2>5. \A s \in sent : s.by # p
    BY <2>3 DEF SwarmInv
  <2>6. ASSUME NEW s \in sent', s.by \in Sweeps, s.course.end = "raises"
        PROVE  LostCounted(s)'
    <3>1. CASE s \in sent
      BY <2>3, <2>4, <2>5, <2>6, <3>1, <1>o DEF Steps
    <3>2. CASE s \notin sent
      <4>1. PICK i \in 1 .. n : s.by = p /\ s.course = course[i]
        BY <2>2, <3>2 DEF Strikes
      <4>2. failed = FailedAgents(course)
        BY <2>2, <2>6, <4>1 DEF Strikes, Sweeps
      <4>3. DOMAIN course = 1 .. n
        OBVIOUS
      <4>4. failed > 0
        BY <2>6, <4>1, <4>2, <4>3, FailedAgentsNumber
      <4>5. QED
        BY <2>3, <2>4, <4>1, <4>4 DEF LostCounted
    <3>3. QED
      BY <3>1, <3>2
  <2>7. QED
    BY <2>6, LostPartsNext
<1>10. CASE Review \/ Attest
  <2>1. \E p \in {"gpt_evidence_review", "attestation"}, next \in Steps :
          step' = [step EXCEPT ![p] = next]
    BY <1>10 DEF Review, Attest, ReviewSkips, PrepareReview, ReviewAnswers, ReadEvidence,
       RedactReceipts, WriteBundle, CommitVerdict, NextAttestation, GoesOn, Returns,
       EndsAs, Steps
  <2>2. {"gpt_evidence_review", "attestation"} \subseteq Phase \ LiveAttacks
    BY PhaseNames DEF LiveAttacks
  <2>3. data'.lost = data.lost
    <3>1. CASE Review
      BY <3>1 DEF Review, ReviewSkips, PrepareReview, ReviewAnswers, TypeOK, DataType
    <3>2. CASE Attest
      BY <3>2 DEF Attest, ReadEvidence, RedactReceipts, WriteBundle, CommitVerdict,
         TypeOK, DataType
    <3>3. QED
      BY <1>10, <3>1, <3>2
  <2>4. UNCHANGED <<pending, sent>>
    BY <1>10 DEF Review, Attest, ReviewSkips, PrepareReview, ReviewAnswers, ReadEvidence,
       RedactReceipts, WriteBundle, CommitVerdict
  <2>5. QED
    BY <2>1, <2>2, <2>3, <2>4, <1>m, <1>e
<1>11. CASE AttackTarget
  BY <1>11, <1>5, <1>6, <1>7, <1>8, <1>9 DEF AttackTarget
<1>12. QED
  BY <1>1, <1>2, <1>3, <1>4, <1>10, <1>11, NextCases DEF RaisesIn

-----------------------------------------------------------------------------
(* What leaves the scans alone.                                             *)
LEMMA ScanFrame ==
  ASSUME ScanInv, UNCHANGED <<scan, found>>, Failed \subseteq Failed',
         data'.deps = data.deps, data'.patterns = data.patterns,
         swallowed \subseteq swallowed',
         \A q \in SourceScans : /\ step[q] = "over" => step'[q] = "over"
                                /\ step[q] = "sent" => step'[q] = "sent"
  PROVE  ScanInv'
<1>1. /\ step'["dependency_scan"] # "over" => data'.deps = Unset
      /\ step'["pattern_scan"] # "over" => data'.patterns = Unset
  BY DEF ScanInv, SourceScans
<1>2. /\ "vulnerable" \in {data'.deps, scan'} => "dependency" \in found'
      /\ data'.patterns = "vulnerable" <=> "pattern" \in found'
  BY DEF ScanInv
<1>3. "dependency" \in found' =>
        \/ step'["dependency_scan"] = "sent" /\ scan' = "vulnerable"
        \/ data'.deps = "vulnerable"
        \/ "dependency_scan" \in Failed' \cup swallowed'
  BY DEF ScanInv, SourceScans
<1>4. QED
  BY <1>1, <1>2, <1>3 DEF ScanInv

(* Every step keeps account of what the scanners returned.                  *)
LEMMA ScanStep ==
  ASSUME TypeOK, LoopInv, ScanInv, [Next]_vars
  PROVE  ScanInv'
<1>f. Failed \subseteq Failed'
  BY LoopStep DEF LoopKept
<1>p. SourceScans \subseteq Phase /\ "dependency_scan" \in SourceScans
      /\ "pattern_scan" \in SourceScans
  BY PhaseNames DEF SourceScans
<1> DEFINE Steady == \A q \in SourceScans : /\ step[q] = "over" => step'[q] = "over"
                                            /\ step[q] = "sent" => step'[q] = "sent"
<1>m. ASSUME NEW p \in Phase, NEW next \in Steps, step' = [step EXCEPT ![p] = next],
             p \in SourceScans => step[p] = "begun"
      PROVE  Steady
  BY <1>m, <1>p DEF TypeOK
<1>1. CASE Aside
  <2>1. Steady
    BY <1>1 DEF Aside, Undisturbed, Watched
  <2>2. QED
    BY <1>1, <2>1, <1>f, ScanFrame DEF Aside, SameEvidence
<1>2. ASSUME NEW p \in Phase, Raises(p)
      PROVE  ScanInv'
  <2>1. p \in SourceScans => step[p] = "begun"
    BY <1>2 DEF Raises, Fragile, SourceScans
  <2>2. step' = [step EXCEPT ![p] = "over"]
    BY <1>2 DEF Raises, EndsAs
  <2>3. Steady
    BY <2>1, <2>2, <1>m DEF Steps
  <2>4. QED
    BY <1>2, <2>3, <1>f, ScanFrame DEF Raises
<1>3. CASE AttackTarget \/ Review \/ Attest
  <2>1. /\ SourceScans \cap (LiveAttacks \cup {"gpt_evidence_review", "attestation"}) = {}
        /\ LiveAttacks \cup {"gpt_evidence_review", "attestation"} \subseteq Phase
    BY PhaseNames DEF SourceScans, LiveAttacks
  <2>2. \/ step' = step
        \/ \E p \in LiveAttacks \cup {"gpt_evidence_review", "attestation"}, next \in Steps :
             step' = [step EXCEPT ![p] = next]
    <3>1. CASE AttackTarget
      BY <3>1 DEF AttackTarget, SkipAttack, Attack, PublishReceipt, AttackEnds,
         HuntingFails, Swallows, GoesOn, Returns, EndsAs, Steps, LiveAttacks
    <3>2. CASE Review \/ Attest
      BY <3>2 DEF Review, Attest, ReviewSkips, PrepareReview, ReviewAnswers,
         ReadEvidence, RedactReceipts, WriteBundle, CommitVerdict, NextAttestation,
         GoesOn, Returns, EndsAs, Steps
    <3>3. QED
      BY <1>3, <3>1, <3>2
  <2>3. Steady
    BY <2>1, <2>2, <1>p DEF TypeOK
  <2>4. UNCHANGED <<scan, found>> /\ swallowed \subseteq swallowed'
    BY <1>3 DEF AttackTarget, SkipAttack, Attack, PublishReceipt, AttackEnds,
       HuntingFails, Swallows, Review, Attest, ReviewSkips, PrepareReview,
       ReviewAnswers, ReadEvidence, RedactReceipts, WriteBundle, CommitVerdict
  <2>5. data'.deps = data.deps /\ data'.patterns = data.patterns
    <3>1. CASE AttackTarget
      BY <3>1 DEF AttackTarget, SkipAttack, Attack, PublishReceipt, AttackEnds,
         HuntingFails, TypeOK, DataType
    <3>2. CASE Review \/ Attest
      BY <3>2 DEF Review, Attest, ReviewSkips, PrepareReview, ReviewAnswers,
         ReadEvidence, RedactReceipts, WriteBundle, CommitVerdict, TypeOK, DataType
    <3>3. QED
      BY <1>3, <3>1, <3>2
  <2>6. QED
    BY <2>3, <2>4, <2>5, <1>f, ScanFrame
<1>4. CASE ScanDependencies
  <2>1. PICK result \in ScanResult :
          /\ scan' = result
          /\ found' = IF result = "vulnerable" THEN found \cup {"dependency"} ELSE found
    BY <1>4 DEF ScanDependencies
  <2>2. /\ step["dependency_scan"] = "begun" /\ step'["dependency_scan"] = "sent"
        /\ step'["pattern_scan"] = step["pattern_scan"]
        /\ UNCHANGED <<data, swallowed>>
    BY <1>4, <1>p DEF ScanDependencies, GoesOn, TypeOK
  <2>3. data.deps = Unset
    BY <2>2 DEF ScanInv
  <2>4. QED
    BY <2>1, <2>2, <2>3, <1>f DEF ScanInv, Unset
<1>5. CASE StoreDependencies
  <2>1. /\ data'.deps = scan /\ data'.patterns = data.patterns
    BY <1>5 DEF StoreDependencies, Enriched, TypeOK, DataType
  <2>2. /\ step["dependency_scan"] = "sent" /\ step'["dependency_scan"] = "over"
        /\ step'["pattern_scan"] = step["pattern_scan"]
        /\ scan' = Unset /\ found' = found /\ swallowed \subseteq swallowed'
    BY <1>5, <1>p DEF StoreDependencies, Returns, Swallows, EndsAs, TypeOK
  <2>3. data.deps = Unset
    BY <2>2 DEF ScanInv
  <2>4. QED
    BY <2>1, <2>2, <2>3, <1>f DEF ScanInv, Unset
<1>6. CASE DependencyScanFails
  <2>1. /\ step["dependency_scan"] # "over" /\ step'["dependency_scan"] = "over"
        /\ step'["pattern_scan"] = step["pattern_scan"]
        /\ scan' = Unset /\ UNCHANGED <<data, found>>
        /\ swallowed' = swallowed \cup {"dependency_scan"}
    BY <1>6, <1>p DEF DependencyScanFails, Returns, Swallows, EndsAs, TypeOK
  <2>2. QED
    BY <2>1, <1>f DEF ScanInv, Unset
<1>7. CASE ScanPatterns
  <2>1. PICK result \in {"clean", "vulnerable"} :
          /\ data' = [data EXCEPT !.patterns = result]
          /\ found' = IF result = "vulnerable" THEN found \cup {"pattern"} ELSE found
    BY <1>7 DEF ScanPatterns
  <2>2. data'.patterns = result /\ data'.deps = data.deps
    BY <2>1 DEF TypeOK, DataType
  <2>3. /\ step["pattern_scan"] = "begun" /\ step'["pattern_scan"] = "over"
        /\ step'["dependency_scan"] = step["dependency_scan"]
        /\ scan' = scan /\ swallowed \subseteq swallowed'
    BY <1>7, <1>p DEF ScanPatterns, Returns, Swallows, EndsAs, TypeOK
  <2>4. data.patterns = Unset
    BY <2>3 DEF ScanInv
  <2>5. QED
    BY <2>1, <2>2, <2>3, <2>4, <1>f DEF ScanInv, Unset
<1>8. CASE PatternScanFails
  <2>1. step["pattern_scan"] = "begun" /\ step' = [step EXCEPT !["pattern_scan"] = "over"]
    BY <1>8 DEF PatternScanFails, Returns, Swallows, EndsAs
  <2>2. Steady
    BY <2>1, <1>p DEF TypeOK
  <2>3. QED
    BY <1>8, <2>2, <1>f, ScanFrame DEF PatternScanFails, Swallows
<1>9. RaisesIn(LiveAttacks \cup SourceScans \cup {"gpt_evidence_review", "attestation"})
      => ScanInv'
  BY <1>2, PhaseNames DEF RaisesIn, LiveAttacks, SourceScans
<1>10. QED
  BY <1>1, <1>3, <1>4, <1>5, <1>6, <1>7, <1>8, <1>9, NextCases DEF ScanSource, RaisesIn

-----------------------------------------------------------------------------
(* What attacks and scans do to the evidence *)

Threads == LiveAttacks \cup SourceScans

(* The phases in question precede the review and the attestation.           *)
LEMMA ThreadsComeFirst ==
  /\ Threads \subseteq Phase
  /\ {"gpt_evidence_review", "attestation"} \subseteq Phase \ Threads
  /\ \A p \in Threads : /\ Rank(p) < Rank("gpt_evidence_review")
                        /\ Rank(p) < Rank("attestation")
BY PhaseNames DEF Threads, LiveAttacks, SourceScans, Rank

Gathers(p) ==
  /\ Live(p) /\ UNCHANGED <<att, bundle, row>>
  /\ data'.candidate = data.candidate /\ data'.decision = data.decision
  /\ data'.evidenceBundle = data.evidenceBundle
  /\ step'["gpt_evidence_review"] = step["gpt_evidence_review"]
  /\ step'["attestation"] = step["attestation"]
  /\ Elements(data.receipts) \subseteq Elements(data'.receipts)
  /\ \A r \in Elements(data'.receipts) \ Elements(data.receipts) : r.by = p
  /\ HasFindings(data) => HasFindings(data')

(* What only changes the thread or keeps the findings.                      *)
LEMMA GathersNothing ==
  ASSUME TypeOK, NEW p \in Threads, Live(p), UNCHANGED <<att, bundle, row>>,
         step' = step \/ \E next \in Steps : step' = [step EXCEPT ![p] = next],
         data'.candidate = data.candidate, data'.decision = data.decision,
         data'.evidenceBundle = data.evidenceBundle,
         data'.receipts = data.receipts,
         data.deps = "vulnerable" => data'.deps = "vulnerable",
         data.patterns = "vulnerable" => data'.patterns = "vulnerable"
  PROVE  Gathers(p)
<1>1. /\ step'["gpt_evidence_review"] = step["gpt_evidence_review"]
      /\ step'["attestation"] = step["attestation"]
  BY ThreadsComeFirst DEF TypeOK
<1>2. HasFindings(data) => HasFindings(data')
  BY DEF HasFindings
<1>3. QED
  BY <1>1, <1>2 DEF Gathers

(* Their steps only add to the evidence, in the name of the acting phase.   *)
LEMMA ThreadsGather ==
  ASSUME TypeOK, SwarmInv, ScanInv,
         RaisesIn(LiveAttacks) \/ RaisesIn(SourceScans) \/ ScanSource \/ AttackTarget
  PROVE  \E p \in Threads : Gathers(p)
<1> USE DEF Steps
<1>t. LiveAttacks \subseteq Threads /\ SourceScans \subseteq Threads
  BY DEF Threads
<1>1. ASSUME NEW p \in Threads, Raises(p)
      PROVE  Gathers(p)
  BY <1>1, GathersNothing DEF Raises, Fragile, Live, EndsAs
<1>2. CASE ScanSource
  <2>d. "dependency_scan" \in Threads /\ "pattern_scan" \in Threads
    BY <1>t DEF SourceScans
  <2>1. CASE ScanDependencies
    BY <2>1, <2>d, GathersNothing DEF ScanDependencies, GoesOn, Live
  <2>2. CASE StoreDependencies
    <3>1. /\ data'.deps = scan /\ data'.patterns = data.patterns
          /\ data'.receipts = data.receipts /\ data'.candidate = data.candidate
          /\ data'.decision = data.decision /\ data'.evidenceBundle = data.evidenceBundle
      BY <2>2 DEF StoreDependencies, Enriched, TypeOK, DataType
    <3>2. data.deps = Unset
      BY <2>2 DEF StoreDependencies, ScanInv
    <3>3. Live("dependency_scan") /\ UNCHANGED <<att, bundle, row>>
          /\ step' = [step EXCEPT !["dependency_scan"] = "over"]
      BY <2>2 DEF StoreDependencies, Swallows, Returns, EndsAs, Live
    <3>4. QED
      BY <3>1, <3>2, <3>3, <2>d, GathersNothing DEF Unset
  <2>3. CASE DependencyScanFails
    BY <2>3, <2>d, GathersNothing DEF DependencyScanFails, Swallows, Returns, EndsAs, Live
  <2>4. CASE ScanPatterns
    <3>1. /\ data'.deps = data.deps
          /\ data'.receipts = data.receipts /\ data'.candidate = data.candidate
          /\ data'.decision = data.decision /\ data'.evidenceBundle = data.evidenceBundle
      BY <2>4 DEF ScanPatterns, TypeOK, DataType
    <3>2. data.patterns = Unset
      BY <2>4 DEF ScanPatterns, ScanInv
    <3>3. Live("pattern_scan") /\ UNCHANGED <<att, bundle, row>>
          /\ step' = [step EXCEPT !["pattern_scan"] = "over"]
      BY <2>4 DEF ScanPatterns, Swallows, Returns, EndsAs, Live
    <3>4. QED
      BY <3>1, <3>2, <3>3, <2>d, GathersNothing DEF Unset
  <2>5. CASE PatternScanFails
    BY <2>5, <2>d, GathersNothing DEF PatternScanFails, Swallows, Returns, EndsAs, Live
  <2>6. QED
    BY <1>2, <2>d, <2>1, <2>2, <2>3, <2>4, <2>5 DEF ScanSource
<1>3. ASSUME NEW p \in LiveAttacks, SkipAttack(p)
      PROVE  Gathers(p)
  BY <1>3, <1>t, GathersNothing DEF SkipAttack, Returns, EndsAs, Live
<1>4. ASSUME NEW p \in LiveAttacks, Attack(p)
      PROVE  Gathers(p)
  <2>1. /\ data'.candidate = data.candidate /\ data'.decision = data.decision
        /\ data'.evidenceBundle = data.evidenceBundle /\ data'.receipts = data.receipts
        /\ data'.deps = data.deps /\ data'.patterns = data.patterns
    BY <1>4 DEF Attack, TypeOK, DataType
  <2>2. QED
    BY <1>4, <2>1, <1>t, GathersNothing DEF Attack, GoesOn, Live
<1>5. ASSUME NEW p \in LiveAttacks, AttackEnds(p)
      PROVE  Gathers(p)
  <2>1. /\ data'.candidate = data.candidate /\ data'.decision = data.decision
        /\ data'.evidenceBundle = data.evidenceBundle /\ data'.receipts = data.receipts
        /\ data'.deps = data.deps /\ data'.patterns = data.patterns
    BY <1>5 DEF AttackEnds, TypeOK, DataType
  <2>2. QED
    BY <1>5, <2>1, <1>t, GathersNothing DEF AttackEnds, Returns, EndsAs, Live
<1>6. CASE HuntingFails
  <2>1. "zero_day_hunting" \in Threads
    BY <1>t DEF LiveAttacks
  <2>2. Gathers("zero_day_hunting")
    BY <1>6, <2>1, GathersNothing DEF HuntingFails, Swallows, Returns, EndsAs
  <2>3. QED
    BY <2>1, <2>2
<1>7. ASSUME NEW p \in LiveAttacks, PublishReceipt(p)
      PROVE  Gathers(p)
  <2>1. PICK r \in pending[p].receipts :
          data' = [data EXCEPT !.receipts = Append(data.receipts, r)]
    BY <1>7 DEF PublishReceipt
  <2>2. r \in Receipt /\ data.receipts \in Seq(Receipt) /\ r.by = p
    BY DEF TypeOK, DataType, SwarmInv
  <2>3. /\ data'.receipts = Append(data.receipts, r)
        /\ data'.candidate = data.candidate /\ data'.decision = data.decision
        /\ data'.evidenceBundle = data.evidenceBundle
        /\ data'.deps = data.deps /\ data'.patterns = data.patterns
    BY <2>1 DEF TypeOK, DataType
  <2>4. Elements(data'.receipts) = Elements(data.receipts) \cup {r}
    BY <2>2, <2>3, ElementsAppend
  <2>5. HasFindings(data) => HasFindings(data')
    BY <2>3, <2>4 DEF HasFindings
  <2>6. UNCHANGED <<step, att, bundle, row>> /\ Live(p)
    BY <1>7 DEF PublishReceipt, Live
  <2>7. QED
    BY <2>2, <2>3, <2>4, <2>5, <2>6 DEF Gathers
<1>8. QED
  BY <1>1, <1>2, <1>3, <1>4, <1>5, <1>6, <1>7, <1>t DEF RaisesIn, AttackTarget

(* What does not change the evidence does not change the findings.          *)
LEMMA SameFindings ==
  ASSUME NEW d, NEW e, e.receipts = d.receipts, e.deps = d.deps, e.patterns = d.patterns
  PROVE  HasFindings(e) = HasFindings(d)
BY DEF HasFindings

-----------------------------------------------------------------------------
(* The review *)

(* Every step keeps the review in line with what it was given.              *)
LEMMA ReviewStep ==
  ASSUME TypeOK, LoopInv, SwarmInv, ScanInv, ReviewInv, [Next]_vars
  PROVE  ReviewInv'
<1> DEFINE R == "gpt_evidence_review"
<1>p. /\ Threads \subseteq Phase /\ R \in Phase \ Threads
      /\ "attestation" \in Phase \ Threads
  BY ThreadsComeFirst
<1>t. Threads = LiveAttacks \cup SourceScans
  BY DEF Threads
<1>q. data.candidate = "SAFE" => step[R] \notin {"idle", "begun"}
  BY DEF ReviewInv, Unset
<1>1. CASE Aside
  <2>1. /\ data'.candidate = data.candidate /\ data'.decision = data.decision
        /\ \/ step'[R] = step[R]
           \/ step[R] = "idle" /\ step'[R] = "begun"
        /\ HasFindings(data') = HasFindings(data)
    BY <1>1, SameFindings DEF Aside, SameEvidence, Undisturbed, Watched
  <2>2. ASSUME NEW q \in Threads, data.candidate = "SAFE"
        PROVE  ~Live(q)'
    <3>1. ~Live(q)
      BY <2>2, <1>t DEF ReviewInv
    <3>2. ~(index <= Len(plan) /\ current = q)
      BY <2>2, <1>p, <1>q, ThreadsComeFirst, EarlierIsPast
    <3>3. step'[q] = step[q]
      BY <3>2, <1>1, <1>t DEF Aside, Undisturbed, Watched
    <3>4. QED
      BY <3>1, <3>3 DEF Live
  <2>3. QED
    BY <2>1, <2>2, <1>t DEF ReviewInv
<1>2. ASSUME NEW p \in Threads, Gathers(p)
      PROVE  ReviewInv'
  <2>1. data.candidate # "SAFE"
    BY <1>2, <1>t DEF Gathers, ReviewInv
  <2>2. QED
    BY <1>2, <2>1 DEF Gathers, ReviewInv
<1>3. ASSUME NEW p \in {"gpt_evidence_review", "attestation"}, Raises(p)
      PROVE  ReviewInv'
  <2>1. step' = [step EXCEPT ![p] = "over"] /\ data' = data
    BY <1>3 DEF Raises, EndsAs
  <2>2. /\ \A q \in Threads : step'[q] = step[q]
        /\ step'[R] = step[R] \/ step'[R] = "over"
    BY <2>1, <1>p DEF TypeOK
  <2>3. \A q \in Threads : ~Live(q) => ~Live(q)'
    BY <2>2 DEF Live
  <2>4. QED
    BY <2>1, <2>2, <2>3, <1>t DEF ReviewInv
<1>4. CASE Attest
  <2>1. \E next \in Steps : step' = [step EXCEPT !["attestation"] = next]
    BY <1>4 DEF Attest, ReadEvidence, RedactReceipts, WriteBundle, CommitVerdict,
       NextAttestation, GoesOn, Returns, EndsAs, Steps
  <2>2. /\ step'[R] = step[R] /\ \A q \in Threads : step'[q] = step[q]
    BY <2>1, <1>p DEF TypeOK
  <2>3. /\ data'.candidate = data.candidate /\ data'.decision = data.decision
        /\ data'.receipts = data.receipts /\ data'.deps = data.deps
        /\ data'.patterns = data.patterns
    BY <1>4 DEF Attest, ReadEvidence, RedactReceipts, WriteBundle, CommitVerdict,
       TypeOK, DataType
  <2>4. HasFindings(data') = HasFindings(data)
    BY <2>3, SameFindings
  <2>5. \A q \in Threads : ~Live(q) => ~Live(q)'
    BY <2>2 DEF Live
  <2>6. QED
    BY <2>2, <2>3, <2>4, <2>5, <1>t DEF ReviewInv
<1>5. CASE Review
  <2>1. \E next \in {"sent", "over"} : step' = [step EXCEPT ![R] = next]
    BY <1>5 DEF Review, ReviewSkips, PrepareReview, ReviewAnswers, GoesOn, Returns, EndsAs
  <2>2. step'[R] \in {"sent", "over"} /\ \A q \in Threads : step'[q] = step[q]
    BY <2>1, <1>p DEF TypeOK
  <2>3. \A q \in Threads : ~Live(q) => ~Live(q)'
    BY <2>2 DEF Live
  <2>4. CASE ReviewSkips
    <3>1. /\ data'.candidate = data.candidate /\ data'.decision = "skipped"
          /\ step'[R] = "over" /\ step[R] = "begun"
      BY <2>4, <1>p DEF ReviewSkips, Returns, EndsAs, TypeOK, DataType
    <3>2. data.candidate = Unset
      BY <3>1 DEF ReviewInv
    <3>3. QED
      BY <3>1, <3>2 DEF ReviewInv, Unset
  <2>5. CASE PrepareReview
    <3>1. /\ data'.candidate = Candidate(data) /\ data'.decision = data.decision
          /\ data'.receipts = data.receipts /\ data'.deps = data.deps
          /\ data'.patterns = data.patterns
          /\ step'[R] = "sent" /\ step[R] = "begun"
      BY <2>5, <1>p DEF PrepareReview, GoesOn, TypeOK, DataType
    <3>2. data.decision = Unset
      BY <3>1 DEF ReviewInv
    <3>3. data'.candidate \in {"BLOCKED", "INCOMPLETE", "SAFE"}
      BY <3>1 DEF Candidate
    <3>4. ASSUME data'.candidate = "SAFE"
          PROVE  ~HasFindings(data') /\ \A q \in Threads : ~Live(q)'
      <4>1. ~HasFindings(data) /\ Failed = {}
        BY <3>1, <3>4 DEF Candidate
      <4>2. Live(R)
        BY <3>1 DEF Live
      <4>3. Awaited(R)
        BY <4>1, <4>2, <1>p DEF LoopInv
      <4>4. ASSUME NEW q \in Threads, Live(q)
            PROVE  FALSE
        <5>1. Awaited(q)
          BY <4>1, <4>4, <1>p DEF LoopInv
        <5>2. q = R
          BY <4>3, <5>1 DEF Awaited
        <5>3. QED
          BY <5>2, <1>p
      <4>5. QED
        BY <4>1, <4>4, <2>3, <3>1, SameFindings
    <3>5. QED
      BY <3>1, <3>2, <3>3, <3>4, <1>t DEF ReviewInv, Unset
  <2>6. CASE ReviewAnswers
    <3>1. PICK decision :
            /\ data' = [data EXCEPT !.decision = decision]
            /\ \/ \E answer \in Decision : decision = Bounded(answer, data.candidate)
               \/ decision = "failed"
      BY <2>6 DEF ReviewAnswers
    <3>2. /\ data'.candidate = data.candidate /\ data'.decision = decision
          /\ data'.receipts = data.receipts /\ data'.deps = data.deps
          /\ data'.patterns = data.patterns
          /\ data.candidate \in {Unset, "BLOCKED", "INCOMPLETE", "SAFE"}
      BY <3>1 DEF TypeOK, DataType
    <3>3. step'[R] = "over" /\ step[R] = "sent"
      BY <2>6, <1>p DEF ReviewAnswers, Returns, EndsAs, TypeOK
    <3>4. data.candidate # Unset
      BY <3>3 DEF ReviewInv
    <3>5. decision = "approve" => data.candidate = "SAFE"
      BY <3>1, <3>2, <3>4 DEF Bounded, Decision
    <3>6. HasFindings(data') = HasFindings(data)
      BY <3>2, SameFindings
    <3>7. QED
      BY <3>2, <3>3, <3>5, <3>6, <2>3, <1>t DEF ReviewInv
  <2>7. QED
    BY <1>5, <2>4, <2>5, <2>6 DEF Review
<1>6. QED
  BY <1>1, <1>2, <1>3, <1>4, <1>5, NextCases, ThreadsGather DEF RaisesIn

-----------------------------------------------------------------------------
(* The verdict *)

(* What failed stays failed.                                                *)
LEMMA OnlyFromFailedKept ==
  ASSUME NEW receipts, OnlyFromFailed(receipts), Failed \subseteq Failed'
  PROVE  \A r \in Elements(receipts) : IsSuccess(r) => r.by \in Failed'
BY DEF OnlyFromFailed

(* The evidence is the same and the attestation does not go on.             *)
LEMMA VerdictFrame ==
  ASSUME VerdictInv, UNCHANGED <<att, row>>, Failed \subseteq Failed',
         data'.receipts = data.receipts, data'.deps = data.deps,
         data'.patterns = data.patterns,
         \/ step'["attestation"] = step["attestation"]
         \/ step["attestation"] # "over" /\ step'["attestation"] \in {"begun", "over"}
  PROVE  VerdictInv'
<1>1. HasFindings(data') = HasFindings(data)
  BY SameFindings
<1>2. /\ step'["attestation"] \in {"read", "redacted", "bundled"} =>
           step'["attestation"] = step["attestation"]
      /\ step["attestation"] = "over" => step'["attestation"] = "over"
  OBVIOUS
<1>3. Failed' = {} => Failed = {}
  OBVIOUS
<1>4. /\ row'.verdict # "pending" => step'["attestation"] = "over"
      /\ Decided' /\ att'.dirty => HasFindings(data')
      /\ Decided' /\ ~att'.dirty /\ Failed' = {} => ~HasFindings(data')
      /\ row'.verdict = "BLOCKED" => HasFindings(data')
      /\ row'.verdict = "SAFE" /\ Failed' = {} => ~HasFindings(data')
  BY <1>1, <1>2, <1>3 DEF VerdictInv, Decided
<1>5. step'["attestation"] = "read" /\ ~att'.dirty =>
        \A r \in Elements(data'.receipts) : IsSuccess(r) => r.by \in Failed'
  BY <1>2, OnlyFromFailedKept DEF VerdictInv
<1>6. step'["attestation"] \in {"redacted", "bundled"} /\ ~att'.dirty =>
        \A r \in Elements(att'.receipts) : IsSuccess(r) => r.by \in Failed'
  BY <1>2, OnlyFromFailedKept DEF VerdictInv
<1>7. row'.verdict = "SAFE" =>
        \A r \in Elements(row'.receipts) : IsSuccess(r) => r.by \in Failed'
  BY OnlyFromFailedKept DEF VerdictInv
<1>8. QED
  BY <1>4, <1>5, <1>6, <1>7 DEF VerdictInv, OnlyFromFailed

(* An attack or a scan that still runs once the attestation has begun is    *)
(* recorded as failed, and so is what it adds.                              *)
LEMMA VerdictGather ==
  ASSUME TypeOK, LoopInv, VerdictInv, Failed \subseteq Failed',
         NEW p \in Threads, Gathers(p)
  PROVE  VerdictInv'
<1>1. step["attestation"] # "idle" => p \in Failed
  BY ThreadsComeFirst, EarlierHasFailed DEF Gathers
<1>2. /\ step'["attestation"] = step["attestation"] /\ UNCHANGED <<att, row>>
      /\ HasFindings(data) => HasFindings(data')
  BY DEF Gathers
<1>3. step["attestation"] # "idle" => Failed' # {}
  BY <1>1
<1>4. Decided => step["attestation"] # "idle"
  BY DEF Decided
<1>5. /\ row'.verdict # "pending" => step'["attestation"] = "over"
      /\ Decided' /\ att'.dirty => HasFindings(data')
      /\ Decided' /\ ~att'.dirty /\ Failed' = {} => ~HasFindings(data')
      /\ row'.verdict = "BLOCKED" => HasFindings(data')
      /\ row'.verdict = "SAFE" /\ Failed' = {} => ~HasFindings(data')
  BY <1>2, <1>3, <1>4 DEF VerdictInv, Decided
<1>6. ASSUME step'["attestation"] = "read", ~att'.dirty, NEW r \in Elements(data'.receipts),
             IsSuccess(r)
      PROVE  r.by \in Failed'
  <2>1. CASE r \in Elements(data.receipts)
    BY <1>2, <1>6, <2>1 DEF VerdictInv, OnlyFromFailed
  <2>2. CASE r \notin Elements(data.receipts)
    BY <1>1, <1>2, <1>6, <2>2 DEF Gathers
  <2>3. QED
    BY <2>1, <2>2
<1>7. step'["attestation"] \in {"redacted", "bundled"} /\ ~att'.dirty =>
        \A r \in Elements(att'.receipts) : IsSuccess(r) => r.by \in Failed'
  BY <1>2, OnlyFromFailedKept DEF VerdictInv
<1>8. row'.verdict = "SAFE" =>
        \A r \in Elements(row'.receipts) : IsSuccess(r) => r.by \in Failed'
  BY <1>2, OnlyFromFailedKept DEF VerdictInv
<1>9. QED
  BY <1>5, <1>6, <1>7, <1>8 DEF VerdictInv, OnlyFromFailed

(* The attestation, step by step.                                           *)
LEMMA VerdictAttest ==
  ASSUME TypeOK, VerdictInv, Failed \subseteq Failed', Attest
  PROVE  VerdictInv'
<1> DEFINE A == "attestation"
<1>p. A \in Phase
  BY PhaseNames
<1>1. /\ data'.receipts = data.receipts /\ data'.deps = data.deps
      /\ data'.patterns = data.patterns
  BY DEF Attest, ReadEvidence, RedactReceipts, WriteBundle, CommitVerdict, TypeOK, DataType
<1>2. HasFindings(data') = HasFindings(data)
  BY <1>1, SameFindings
<1>3. Failed' = {} => Failed = {}
  OBVIOUS
<1>4. CASE ReadEvidence
  <2>1. /\ step[A] = "begun" /\ step'[A] = "read" /\ row' = row
        /\ att'.dirty = HasFindings(data)
    BY <1>4, <1>p DEF ReadEvidence, NextAttestation, GoesOn, TypeOK
  <2>2. row.verdict = "pending"
    BY <2>1 DEF VerdictInv
  <2>3. ~att'.dirty => OnlyFromFailed(data.receipts)
    BY <2>1 DEF HasFindings, OnlyFromFailed
  <2>4. ~att'.dirty => \A r \in Elements(data'.receipts) : IsSuccess(r) => r.by \in Failed'
    BY <2>3, <1>1, OnlyFromFailedKept
  <2>5. QED
    BY <2>1, <2>2, <2>4, <1>2 DEF VerdictInv, Decided, OnlyFromFailed
<1>5. CASE RedactReceipts
  <2>1. /\ step[A] = "read" /\ step'[A] = "redacted" /\ row' = row
        /\ att'.dirty = att.dirty /\ att'.receipts = data.receipts
    BY <1>5, <1>p DEF RedactReceipts, NextAttestation, GoesOn, TypeOK
  <2>2. row.verdict = "pending"
    BY <2>1 DEF VerdictInv
  <2>3. ~att'.dirty => \A r \in Elements(att'.receipts) : IsSuccess(r) => r.by \in Failed'
    BY <2>1, OnlyFromFailedKept DEF VerdictInv
  <2>4. QED
    BY <2>1, <2>2, <2>3, <1>2, <1>3 DEF VerdictInv, Decided, OnlyFromFailed
<1>6. CASE WriteBundle
  <2>1. /\ step[A] = "redacted" /\ step'[A] = "bundled" /\ row' = row /\ att' = att
    BY <1>6, <1>p DEF WriteBundle, NextAttestation, GoesOn, TypeOK
  <2>2. row.verdict = "pending"
    BY <2>1 DEF VerdictInv
  <2>3. ~att'.dirty => \A r \in Elements(att'.receipts) : IsSuccess(r) => r.by \in Failed'
    BY <2>1, OnlyFromFailedKept DEF VerdictInv
  <2>4. QED
    BY <2>1, <2>2, <2>3, <1>2, <1>3 DEF VerdictInv, Decided, OnlyFromFailed
<1>7. CASE CommitVerdict
  <2>1. /\ step[A] = "bundled" /\ step'[A] = "over" /\ att' = att
        /\ row'.verdict = IF att.dirty THEN "BLOCKED" ELSE "SAFE"
        /\ row'.receipts = att.receipts
    BY <1>7, <1>p DEF CommitVerdict, Returns, EndsAs, TypeOK
  <2>2. ~att.dirty => \A r \in Elements(att.receipts) : IsSuccess(r) => r.by \in Failed'
    BY <2>1, OnlyFromFailedKept DEF VerdictInv
  <2>3. row'.verdict = "SAFE" =>
          \A r \in Elements(row'.receipts) : IsSuccess(r) => r.by \in Failed'
    BY <2>1, <2>2
  <2>4. QED
    BY <2>1, <2>3, <1>2, <1>3 DEF VerdictInv, Decided, OnlyFromFailed
<1>8. QED
  BY <1>4, <1>5, <1>6, <1>7 DEF Attest

(* Every step keeps the verdict in line with what it rests on.              *)
LEMMA VerdictStep ==
  ASSUME TypeOK, LoopInv, SwarmInv, ScanInv, VerdictInv, [Next]_vars
  PROVE  VerdictInv'
<1>f. Failed \subseteq Failed'
  BY LoopStep DEF LoopKept
<1>p. "attestation" \in Phase /\ "gpt_evidence_review" \in Phase
  BY PhaseNames
<1>1. CASE Aside
  <2>1. \/ step'["attestation"] = step["attestation"]
        \/ step["attestation"] # "over" /\ step'["attestation"] \in {"begun", "over"}
    BY <1>1 DEF Aside, Undisturbed, Watched
  <2>2. QED
    BY <1>1, <2>1, <1>f, VerdictFrame DEF Aside, SameEvidence
<1>2. ASSUME NEW p \in {"gpt_evidence_review", "attestation"}, Raises(p)
      PROVE  VerdictInv'
  <2>1. step' = [step EXCEPT ![p] = "over"] /\ step[p] # "over"
    BY <1>2, <1>p, RaisedIsFailed DEF Live
  <2>2. \/ step'["attestation"] = step["attestation"]
        \/ step["attestation"] # "over" /\ step'["attestation"] \in {"begun", "over"}
    BY <2>1, <1>p DEF TypeOK
  <2>3. QED
    BY <1>2, <2>2, <1>f, VerdictFrame DEF Raises
<1>3. CASE Review
  <2>1. \E next \in Steps : step' = [step EXCEPT !["gpt_evidence_review"] = next]
    BY <1>3 DEF Review, ReviewSkips, PrepareReview, ReviewAnswers, GoesOn, Returns,
       EndsAs, Steps
  <2>2. step'["attestation"] = step["attestation"]
    BY <2>1, <1>p DEF TypeOK
  <2>3. /\ data'.receipts = data.receipts /\ data'.deps = data.deps
        /\ data'.patterns = data.patterns
    BY <1>3 DEF Review, ReviewSkips, PrepareReview, ReviewAnswers, TypeOK, DataType
  <2>4. UNCHANGED <<att, row>>
    BY <1>3 DEF Review, ReviewSkips, PrepareReview, ReviewAnswers
  <2>5. QED
    BY <2>2, <2>3, <2>4, <1>f, VerdictFrame
<1>4. QED
  BY <1>1, <1>2, <1>3, <1>f, VerdictGather, VerdictAttest, ThreadsGather, NextCases
     DEF RaisesIn

-----------------------------------------------------------------------------
(* The evidence bundle *)

(* A set of positions has a last one.                                       *)
LEMMA LastPosition ==
  ASSUME NEW n \in Nat, NEW S, S \subseteq 1 .. n, S # {}
  PROVE  \E i \in S : \A j \in S : j <= i
<1> DEFINE T == { n - i : i \in S }
<1>1. T \subseteq Nat /\ T # {}
  <2>1. \A i \in S : n - i \in Nat
    OBVIOUS
  <2>2. PICK i \in S : TRUE
    OBVIOUS
  <2>3. n - i \in T
    OBVIOUS
  <2>4. QED
    BY <2>1, <2>3
<1>2. PICK x \in T : \A y \in T : ~(<<y, x>> \in OpToRel(<, Nat))
  BY <1>1, NatLessThanWellFounded, WFMin
<1>3. PICK i \in S : x = n - i
  BY <1>2
<1>4. ASSUME NEW j \in S
      PROVE  j <= i
  <2>1. n - j \in T /\ n - j \in Nat /\ x \in Nat
    BY <1>1, <1>2
  <2>2. ~(n - j < x)
    BY <2>1, <1>2 DEF OpToRel
  <2>3. QED
    BY <2>2, <1>3
<1>5. QED
  BY <1>4

(* Each finding listed has a file, and it is that of a listed receipt.      *)
LEMMA FilesFacts ==
  ASSUME NEW receipts, NEW n \in Nat, NEW listed, listed \subseteq 1 .. n
  PROVE  \A i \in listed :
           LET id == FindingId(receipts[i]) IN
           /\ id \in DOMAIN FilesOf(receipts, listed)
           /\ \E j \in listed : /\ FilesOf(receipts, listed)[id] = receipts[j]
                                /\ FindingId(receipts[j]) = id
<1> DEFINE Of(id) == { i \in listed : FindingId(receipts[i]) = id }
           last(id) == CHOOSE i \in Of(id) : \A j \in Of(id) : j <= i
           ids == { FindingId(receipts[i]) : i \in listed }
<1>1. FilesOf(receipts, listed) = [id \in ids |-> receipts[last(id)]]
  BY DEF FilesOf
<1>2. ASSUME NEW id \in ids
      PROVE  last(id) \in Of(id)
  <2>1. Of(id) # {} /\ Of(id) \subseteq 1 .. n
    OBVIOUS
  <2> HIDE DEF Of
  <2>2. \E i \in Of(id) : \A j \in Of(id) : j <= i
    BY <2>1, LastPosition
  <2>3. QED
    BY <2>2
<1> HIDE DEF last
<1>3. ASSUME NEW i \in listed
      PROVE  /\ FindingId(receipts[i]) \in DOMAIN FilesOf(receipts, listed)
             /\ \E j \in listed :
                  /\ FilesOf(receipts, listed)[FindingId(receipts[i])] = receipts[j]
                  /\ FindingId(receipts[j]) = FindingId(receipts[i])
  <2>1. PICK id \in ids : id = FindingId(receipts[i])
    OBVIOUS
  <2>2. last(id) \in listed /\ FindingId(receipts[last(id)]) = id
    BY <1>2
  <2>3. id \in DOMAIN FilesOf(receipts, listed)
        /\ FilesOf(receipts, listed)[id] = receipts[last(id)]
    BY <1>1
  <2>4. QED
    BY <2>1, <2>2, <2>3
<1>4. QED
  BY <1>3

(* A receipt that has a file keeps it as long as the bundle stays.          *)
LEMMA BackedKept ==
  ASSUME NEW receipts, Backed(receipts), bundle' = bundle,
         Elements(data.receipts) \subseteq Elements(data'.receipts)
  PROVE  bundle'.report => \A r \in Elements(receipts) : Reportable(r) =>
           /\ FindingId(r) \in DOMAIN bundle'.files
           /\ FindingId(bundle'.files[FindingId(r)]) = FindingId(r)
           /\ bundle'.files[FindingId(r)] \in Elements(data'.receipts)
BY DEF Backed, HasFile

(* What does not touch the bundle.                                          *)
LEMMA BundleFrame ==
  ASSUME VerdictInv, BundleInv, UNCHANGED <<att, bundle, row>>,
         data'.evidenceBundle = data.evidenceBundle,
         Elements(data.receipts) \subseteq Elements(data'.receipts),
         \/ step'["attestation"] = step["attestation"]
         \/ step["attestation"] = "idle" /\ step'["attestation"] = "begun"
         \/ step'["attestation"] = "over"
  PROVE  BundleInv'
<1>1. /\ data'.evidenceBundle = bundle'.report
      /\ step'["attestation"] \notin {"bundled", "over"} => ~bundle'.report
      /\ step'["attestation"] = "redacted" =>
           Elements(att'.receipts) \subseteq Elements(data'.receipts)
      /\ row'.verdict # "pending" => row'.evidenceBundle = bundle'.report
  BY DEF BundleInv
<1>2. step'["attestation"] = "bundled" => Backed(att.receipts)
  BY DEF BundleInv
<1>3. row'.verdict # "pending" => Backed(row.receipts)
  BY DEF BundleInv
<1>4. step'["attestation"] = "bundled" =>
        (bundle'.report => \A r \in Elements(att'.receipts) : Reportable(r) =>
           /\ FindingId(r) \in DOMAIN bundle'.files
           /\ FindingId(bundle'.files[FindingId(r)]) = FindingId(r)
           /\ bundle'.files[FindingId(r)] \in Elements(data'.receipts))
  BY <1>2, BackedKept
<1>5. row'.verdict # "pending" =>
        (bundle'.report => \A r \in Elements(row'.receipts) : Reportable(r) =>
           /\ FindingId(r) \in DOMAIN bundle'.files
           /\ FindingId(bundle'.files[FindingId(r)]) = FindingId(r)
           /\ bundle'.files[FindingId(r)] \in Elements(data'.receipts))
  BY <1>3, BackedKept
<1>6. QED
  BY <1>1, <1>4, <1>5 DEF BundleInv, Backed, HasFile

(* The attestation: the bundle is written after the copies for the row are  *)
(* made, from a list that has only grown since.                             *)
LEMMA BundleAttest ==
  ASSUME TypeOK, VerdictInv, BundleInv, Attest
  PROVE  BundleInv'
<1> DEFINE A == "attestation"
<1>p. A \in Phase
  BY PhaseNames
<1>1. CASE ReadEvidence
  <2>1. /\ step[A] = "begun" /\ step'[A] = "read" /\ UNCHANGED <<data, bundle, row>>
    BY <1>1, <1>p DEF ReadEvidence, NextAttestation, GoesOn, TypeOK
  <2>2. row.verdict = "pending"
    BY <2>1 DEF VerdictInv
  <2>3. QED
    BY <2>1, <2>2 DEF BundleInv
<1>2. CASE RedactReceipts
  <2>1. /\ step[A] = "read" /\ step'[A] = "redacted" /\ UNCHANGED <<data, bundle, row>>
        /\ att'.receipts = data.receipts
    BY <1>2, <1>p DEF RedactReceipts, NextAttestation, GoesOn, TypeOK
  <2>2. row.verdict = "pending"
    BY <2>1 DEF VerdictInv
  <2>3. QED
    BY <2>1, <2>2 DEF BundleInv
<1>3. CASE WriteBundle
  <2>1. /\ step[A] = "redacted" /\ step'[A] = "bundled" /\ UNCHANGED <<att, row>>
    BY <1>3, <1>p DEF WriteBundle, NextAttestation, GoesOn, TypeOK
  <2>2. row.verdict = "pending"
    BY <2>1 DEF VerdictInv
  <2>3. ~bundle.report /\ data.evidenceBundle = bundle.report /\ bundle.report \in BOOLEAN
        /\ Elements(att.receipts) \subseteq Elements(data.receipts)
    BY <2>1 DEF BundleInv, TypeOK
  <2> DEFINE receipts == data.receipts
             listed == Listed(receipts)
             files == FilesOf(receipts, listed)
  <2>4. CASE /\ bundle' = [files |-> files, report |-> TRUE]
             /\ data' = [data EXCEPT !.evidenceBundle = TRUE]
    <3>1. data'.evidenceBundle = TRUE /\ data'.receipts = data.receipts
      BY <2>4 DEF TypeOK, DataType
    <3>2. Len(receipts) \in Nat /\ listed \subseteq 1 .. Len(receipts)
      BY DEF TypeOK, DataType, Listed
    <3>3. \A i \in listed :
            /\ FindingId(receipts[i]) \in DOMAIN files
            /\ \E j \in listed : /\ files[FindingId(receipts[i])] = receipts[j]
                                 /\ FindingId(receipts[j]) = FindingId(receipts[i])
      BY <3>2, FilesFacts
    <3>4. \A j \in listed : receipts[j] \in Elements(receipts)
      BY <3>2 DEF Elements
    <3> HIDE DEF files
    <3>5. ASSUME NEW r \in Elements(receipts), Reportable(r)
          PROVE  /\ FindingId(r) \in DOMAIN files
                 /\ FindingId(files[FindingId(r)]) = FindingId(r)
                 /\ files[FindingId(r)] \in Elements(receipts)
      <4>1. PICK i \in listed : r = receipts[i]
        BY <3>5 DEF Elements, Listed
      <4>2. QED
        BY <4>1, <3>3, <3>4
    <3>6. bundle'.files = files /\ bundle'.report = TRUE
      BY <2>4
    <3>7. Backed(att.receipts)'
      BY <2>1, <2>3, <3>1, <3>5, <3>6 DEF Backed, HasFile
    <3>8. QED
      BY <2>1, <2>2, <3>1, <3>6, <3>7 DEF BundleInv
  <2>5. CASE UNCHANGED <<bundle, data>>
    BY <2>1, <2>2, <2>3, <2>5 DEF BundleInv, Backed
  <2>6. ASSUME NEW f, bundle' = [files |-> f, report |-> FALSE], UNCHANGED data
        PROVE  BundleInv'
    <3>1. bundle'.report = FALSE
      BY <2>6
    <3>2. QED
      BY <2>1, <2>2, <2>3, <2>6, <3>1 DEF BundleInv, Backed
  <2>7. QED
    BY <1>3, <2>4, <2>5, <2>6 DEF WriteBundle
<1>4. CASE CommitVerdict
  <2>1. /\ step[A] = "bundled" /\ step'[A] = "over" /\ UNCHANGED <<data, att, bundle>>
        /\ row'.receipts = att.receipts /\ row'.evidenceBundle = data.evidenceBundle
    BY <1>4, <1>p DEF CommitVerdict, Returns, EndsAs, TypeOK
  <2>2. Backed(att.receipts) /\ data.evidenceBundle = bundle.report
    BY <2>1 DEF BundleInv
  <2>3. Backed(row.receipts)'
    BY <2>1, <2>2 DEF Backed, HasFile
  <2>4. QED
    BY <2>1, <2>2, <2>3 DEF BundleInv
<1>5. QED
  BY <1>1, <1>2, <1>3, <1>4 DEF Attest

(* Every step keeps the evidence behind the row.                            *)
LEMMA BundleStep ==
  ASSUME TypeOK, LoopInv, SwarmInv, ScanInv, VerdictInv, BundleInv, [Next]_vars
  PROVE  BundleInv'
<1>p. "attestation" \in Phase /\ "gpt_evidence_review" \in Phase
  BY PhaseNames
<1>1. CASE Aside
  <2>1. \/ step'["attestation"] = step["attestation"]
        \/ step["attestation"] = "idle" /\ step'["attestation"] = "begun"
    BY <1>1 DEF Aside, Undisturbed, Watched
  <2>2. QED
    BY <1>1, <2>1, BundleFrame DEF Aside, SameEvidence
<1>2. ASSUME NEW p \in {"gpt_evidence_review", "attestation"}, Raises(p)
      PROVE  BundleInv'
  <2>1. step' = [step EXCEPT ![p] = "over"] /\ step[p] # "over"
    BY <1>2, <1>p, RaisedIsFailed DEF Raises, EndsAs, Fragile
  <2>2. \/ step'["attestation"] = step["attestation"]
        \/ step'["attestation"] = "over"
    BY <2>1, <1>p DEF TypeOK
  <2>3. QED
    BY <1>2, <2>2, BundleFrame DEF Raises
<1>3. CASE Review
  <2>1. \E next \in Steps : step' = [step EXCEPT !["gpt_evidence_review"] = next]
    BY <1>3 DEF Review, ReviewSkips, PrepareReview, ReviewAnswers, GoesOn, Returns,
       EndsAs, Steps
  <2>2. step'["attestation"] = step["attestation"]
    BY <2>1, <1>p DEF TypeOK
  <2>3. /\ data'.receipts = data.receipts /\ data'.evidenceBundle = data.evidenceBundle
    BY <1>3 DEF Review, ReviewSkips, PrepareReview, ReviewAnswers, TypeOK, DataType
  <2>4. UNCHANGED <<att, bundle, row>>
    BY <1>3 DEF Review, ReviewSkips, PrepareReview, ReviewAnswers
  <2>5. QED
    BY <2>2, <2>3, <2>4, BundleFrame
<1>4. ASSUME NEW p \in Threads, Gathers(p)
      PROVE  BundleInv'
  BY <1>4, BundleFrame DEF Gathers
<1>5. QED
  BY <1>1, <1>2, <1>3, <1>4, BundleAttest, ThreadsGather, NextCases DEF RaisesIn

-----------------------------------------------------------------------------
(* The invariant and what follows from it *)

(* A run that has just been requested satisfies the invariant.              *)
LEMMA InitPhase == Init => PhaseInv
<1> SUFFICES ASSUME Init
             PROVE  PhaseInv
  OBVIOUS
<1> USE DEF Init
<1>1. data = InitialData
  OBVIOUS
<1>2. /\ data.receipts = << >> /\ data.deps = Unset /\ data.patterns = Unset
      /\ data.candidate = Unset /\ data.decision = Unset /\ data.evidenceBundle = FALSE
  BY <1>1 DEF InitialData
<1>3. Elements(data.receipts) = {}
  BY <1>2 DEF Elements
<1>4. TypeOK
  <2>1. request \in Requests /\ request.identities \in {0, 2} /\ request.mode \in Mode
    BY PhaseDataAssumption DEF PhaseDataAssumption
  <2>2. index \in 1 .. Len(plan) + 1
    <3>1. Ascends(plan, 1, 19)
      BY <2>1, PlanAscends DEF plan, Plans
    <3>2. Len(plan) \in Nat
      BY <3>1 DEF Ascends
    <3>3. QED
      BY <3>2
  <2>3. data \in DataType
    BY <1>1, <2>1 DEF InitialData, DataType, Target
  <2>4. step \in [Phase -> Steps] /\ recorded \in [Phase -> {"none", "ok", "failed"}]
    BY DEF Steps
  <2>5. pending \in [LiveAttacks -> [receipts : SUBSET Receipt, lost : Nat]]
    BY DEF Nothing
  <2>6. QED
    BY <2>1, <2>2, <2>3, <2>4, <2>5 DEF TypeOK
<1>5. LoopInv
  BY <1>4, PlanFacts DEF LoopInv, Live
<1>6. Receipts = {}
  BY <1>3, ReceiptsMember DEF Nothing
<1>7. SwarmInv
  BY <1>6 DEF SwarmInv, Nothing
<1>8. LostInv
  BY DEF LostInv
<1>9. step["dependency_scan"] = "idle" /\ step["gpt_evidence_review"] = "idle"
      /\ step["attestation"] = "idle" /\ \A p \in LiveAttacks \cup SourceScans : ~Live(p)
  BY PhaseNames DEF LiveAttacks, SourceScans, Live
<1>10. ScanInv
  BY <1>2, <1>9 DEF ScanInv, Unset
<1>11. ReviewInv
  BY <1>2, <1>9 DEF ReviewInv, Unset
<1>12. VerdictInv
  BY <1>9 DEF VerdictInv, Decided
<1>13. BundleInv
  BY <1>2, <1>9 DEF BundleInv
<1>14. QED
  BY <1>4, <1>5, <1>7, <1>8, <1>10, <1>11, <1>12, <1>13 DEF PhaseInv

(* The inductive invariant holds: for any requests, routes and number of     *)
(* faults, in every mode, whichever threads outlive their phases.           *)
THEOREM PhaseInvariant == Spec => []PhaseInv
<1>1. PhaseInv /\ [Next]_vars => PhaseInv'
  BY LoopStep, TypeStep, SwarmStep, LostStep, ScanStep, ReviewStep, VerdictStep,
     BundleStep DEF PhaseInv, LoopKept
<1>2. QED
  BY <1>1, InitPhase, PTL DEF Spec

(* Every variable keeps its type, whatever handlers store and lose.         *)
THEOREM TypeCorrect == Spec => []TypeOK
<1>1. PhaseInv => TypeOK
  BY DEF PhaseInv
<1>2. QED
  BY <1>1, PhaseInvariant, PTL

(* A phase recorded as a success has no thread left that could publish.     *)
LEMMA SuccessIsOver ==
  ASSUME TypeOK, LoopInv, NEW p \in Phase, recorded[p] = "ok"
  PROVE  ~Live(p)
<1>1. p \notin Failed
  BY DEF Failed
<1>2. ~Awaited(p)
  BY AwaitedIsOpen
<1>3. QED
  BY <1>1, <1>2 DEF LoopInv

(* A receipt that is not held by a thread is published.                     *)
LEMMA HeldOrPublished ==
  ASSUME SwarmInv, NEW s \in sent, NEW r \in Receipts, Answers(r, s),
         s.by \in LiveAttacks, step[s.by] # "sent"
  PROVE  ~Unanswered(s)
<1>1. ASSUME NEW p \in LiveAttacks, r \in pending[p].receipts
      PROVE  FALSE
  <2>1. p = s.by
    BY <1>1 DEF SwarmInv, Answers
  <2>2. pending[p] = Nothing
    BY <2>1 DEF SwarmInv
  <2>3. QED
    BY <1>1, <2>2 DEF Nothing
<1>2. r \in Elements(data.receipts)
  BY <1>1, ReceiptsMember
<1>3. QED
  BY <1>2 DEF Unanswered

(* A sweep that is recorded as a success counts the agents that raised and   *)
(* took their receipts with them: pentest.py and swarm.py agree on a loss.  *)
THEOREM LossesAreCounted == Spec => []LostIsCounted
<1>1. PhaseInv => LostIsCounted
  <2> SUFFICES ASSUME PhaseInv, NEW p \in {"auth_attack", "injection_attack"},
                      recorded[p] = "ok", NEW s \in sent, s.by = p, Unanswered(s)
               PROVE  data.lost[p] > 0
    BY DEF LostIsCounted, SomeUnanswered
  <2> USE DEF PhaseInv
  <2>1. p \in LiveAttacks /\ p \in Phase /\ p \notin Failed /\ p # "zero_day_hunting"
    BY PhaseNames DEF LiveAttacks, Failed
  <2>2. step[p] = "over"
    BY <2>1, SuccessIsOver DEF SwarmInv, Live
  <2>3. ~ \E r \in Receipts : Answers(r, s)
    BY <2>1, <2>2, HeldOrPublished
  <2>4. LosesReceipts(s.by, s.course)
    BY <2>1, <2>3 DEF SwarmInv
  <2>5. s.course.end = "raises"
    BY <2>1, <2>4 DEF LosesReceipts
  <2>6. QED
    BY <2>1, <2>2, <2>5 DEF LostInv
<1>2. QED
  BY <1>1, PhaseInvariant, PTL

(* A model's approval never stands beside a row that blocks the release.    *)
THEOREM ApprovalIsNotBlocked == Spec => []ApprovalMatchesVerdict
<1>1. PhaseInv => ApprovalMatchesVerdict
  BY DEF PhaseInv, ApprovalMatchesVerdict, ReviewInv, VerdictInv, TypeOK
<1>2. QED
  BY <1>1, PhaseInvariant, PTL

(* A row marked SAFE holds no success but of a phase recorded as failed.    *)
THEOREM LateSuccessFailed == Spec => []LateSuccessIsFailed
<1>1. PhaseInv => LateSuccessIsFailed
  BY DEF PhaseInv, LateSuccessIsFailed, VerdictInv, OnlyFromFailed
<1>2. QED
  BY <1>1, PhaseInvariant, PTL

(* The evidence a row points to was written, for every finding it shows.    *)
THEOREM ReportBacked == Spec => []ReportIsBacked
<1>1. PhaseInv => ReportIsBacked
  BY DEF PhaseInv, ReportIsBacked, BundleInv
<1>2. QED
  BY <1>1, PhaseInvariant, PTL

(* A leak that is answered is a success, unless its script timed out.       *)
LEMMA LeakSucceeds ==
  ASSUME NEW p \in LiveAttacks, NEW c \in Course(p), c.got = "leak",
         ~(p = "custom_exploit" /\ c.end = "late")
  PROVE  OutcomeOf(p, c) = "SUCCESS"
<1>1. CASE p = "auth_attack"
  BY <1>1 DEF OutcomeOf, AuthOutcome
<1>2. CASE p = "injection_attack"
  BY <1>2 DEF OutcomeOf, InjectionOutcome
<1>3. CASE p = "zero_day_hunting"
  <2>1. c.end # "raises"
    BY <1>3 DEF Course, HuntCourse, Returning
  <2>2. QED
    BY <1>3, <2>1 DEF OutcomeOf, HypothesisOutcome
<1>4. CASE p = "custom_exploit"
  BY <1>4 DEF OutcomeOf, ExploitOutcome, ScriptSays
<1>5. QED
  BY <1>1, <1>2, <1>3, <1>4 DEF LiveAttacks

(* What was found and did not block the release was lost in one of the ways  *)
(* named: no finding disappears silently.                                   *)
THEOREM MissedExplained == Spec => []MissedIsExplained
<1>1. PhaseInv => MissedIsExplained
  <2> SUFFICES ASSUME PhaseInv, row.verdict = "SAFE", Found, Failed = {},
                      swallowed \cap {"dependency_scan", "zero_day_hunting"} = {},
                      \A p \in LiveAttacks : ~SomeUnanswered(p),
                      \A s \in sent : ~(s.by = "custom_exploit" /\ s.course.end = "late")
               PROVE  FALSE
    BY DEF MissedIsExplained
  <2> USE DEF PhaseInv
  <2>1. ~HasFindings(data) /\ step["attestation"] = "over"
    BY DEF VerdictInv
  <2>2. ASSUME NEW p \in Threads
        PROVE  ~Live(p)
    BY <2>1, ThreadsComeFirst, EarlierHasFailed
  <2>3. CASE "dependency" \in found
    <3>1. step["dependency_scan"] # "sent"
      BY <2>2 DEF Threads, SourceScans, Live
    <3>2. data.deps = "vulnerable"
      BY <2>3, <3>1 DEF ScanInv
    <3>3. QED
      BY <2>1, <3>2 DEF HasFindings
  <2>4. CASE "pattern" \in found
    BY <2>1, <2>4 DEF ScanInv, HasFindings
  <2>5. ASSUME NEW s \in sent, s.course.got = "leak"
        PROVE  FALSE
    <3>1. s.by \in LiveAttacks /\ s.course \in Course(s.by)
      BY DEF TypeOK
    <3>2. PICK r \in Elements(data.receipts) : Answers(r, s)
      BY <3>1 DEF SomeUnanswered, Unanswered
    <3>3. r \in Receipts
      BY <3>2, ReceiptsMember
    <3>4. r.outcome = OutcomeOf(s.by, s.course)
      BY <3>2, <3>3 DEF SwarmInv
    <3>5. r.outcome = "SUCCESS"
      BY <2>5, <3>1, <3>4, LeakSucceeds
    <3>6. QED
      BY <2>1, <3>2, <3>5 DEF HasFindings, IsSuccess
  <2>6. found \subseteq {"dependency", "pattern"}
    BY DEF TypeOK
  <2>7. QED
    BY <2>3, <2>4, <2>5, <2>6 DEF Found
<1>2. QED
  BY <1>1, PhaseInvariant, PTL

(* A success comes from a leak, or from what its attack takes for one.      *)
LEMMA SuccessIsLeak ==
  ASSUME NEW p \in LiveAttacks, NEW c \in Course(p), OutcomeOf(p, c) = "SUCCESS"
  PROVE  \/ c.got = "leak"
         \/ p = "injection_attack" /\ c.got \in {"dismiss", "none"}
         \/ p = "zero_day_hunting" /\ c.got = "crash"
<1>1. CASE p = "auth_attack"
  BY <1>1 DEF OutcomeOf, AuthOutcome
<1>2. CASE p = "injection_attack"
  <2>1. c.got \in {"leak", "refuse", "none", "dismiss"}
    BY <1>2 DEF Course, AgentCourse, Returning, Got
  <2>2. QED
    BY <1>2, <2>1 DEF OutcomeOf, InjectionOutcome
<1>3. CASE p = "zero_day_hunting"
  BY <1>3 DEF OutcomeOf, HypothesisOutcome
<1>4. CASE p = "custom_exploit"
  BY <1>4 DEF OutcomeOf, ExploitOutcome, ScriptSays
<1>5. QED
  BY <1>1, <1>2, <1>3, <1>4 DEF LiveAttacks

(* A release is blocked for what a scanner or an attack found, or by an      *)
(* attack that takes for success what shows nothing.                        *)
THEOREM BlockExplained == Spec => []BlockIsExplained
<1>1. PhaseInv => BlockIsExplained
  <2> SUFFICES ASSUME PhaseInv, row.verdict = "BLOCKED"
               PROVE  Found \/ \E s \in sent : Mistaken(s)
    BY DEF BlockIsExplained
  <2> USE DEF PhaseInv
  <2>1. HasFindings(data)
    BY DEF VerdictInv
  <2>2. CASE data.deps = "vulnerable" \/ data.patterns = "vulnerable"
    BY <2>2 DEF ScanInv, Found
  <2>3. ASSUME NEW r \in Elements(data.receipts), IsSuccess(r)
        PROVE  Found \/ \E s \in sent : Mistaken(s)
    <3>1. r \in Receipts
      BY ReceiptsMember
    <3>2. PICK s \in sent : Answers(r, s)
      BY <3>1 DEF SwarmInv
    <3>3. OutcomeOf(s.by, s.course) = "SUCCESS"
      BY <2>3, <3>1, <3>2 DEF SwarmInv, IsSuccess
    <3>4. s.by \in LiveAttacks /\ s.course \in Course(s.by)
      BY DEF TypeOK
    <3>5. QED
      BY <3>3, <3>4, SuccessIsLeak DEF Found, Mistaken
  <2>4. QED
    BY <2>1, <2>2, <2>3 DEF HasFindings
<1>2. QED
  BY <1>1, PhaseInvariant, PTL
=============================================================================
