--------------------------- MODULE Website_proofs ---------------------------
(***************************************************************************)
(* Proofs about the website, what editors put on it and what visitors may  *)
(* do on it - Onboarding, Services, Enquiries, Content and RateLimit - for *)
(* every number of overlapping requests and visitors, every window, and    *)
(* whatever is seeded: each has an inductive invariant, from which its     *)
(* safety property follows.                                                *)
(***************************************************************************)
EXTENDS MCWebsite, FiniteSetTheorems, TLAPS

(***************************************************************************)
(* Onboarding                                                              *)
(***************************************************************************)

LEMMA InitOnboarding == OnboardingInit => OnboardingInvariant
<1> SUFFICES ASSUME OnboardingInit PROVE OnboardingInvariant
  OBVIOUS
<1> DEFINE n == Len(SeededQuestions)
<1>1. /\ n \in Nat /\ DOMAIN SeededQuestions = 1 .. n /\ n <= MaxQuestions
      /\ \A q \in 1 .. n : SeededQuestions[q] \in Steps \X QuestionKeys
  <2>1. SeededQuestions \in Seq(Steps \X QuestionKeys)
    BY OnboardingAssumption
  <2>2. n \in Nat /\ SeededQuestions \in [1 .. n -> Steps \X QuestionKeys]
    BY <2>1
  <2>3. n <= MaxQuestions
    BY OnboardingAssumption
  <2> QED
    BY <2>2, <2>3
<1>2. questions = [q \in 1 .. n |-> [step |-> SeededQuestions[q][1],
                                     key |-> SeededQuestions[q][2],
                                     required |-> TRUE, active |-> TRUE]]
  BY <1>1 DEF OnboardingInit
<1> HIDE DEF n
<1>3. questions \in [1 .. n -> Question]
  BY <1>1, <1>2 DEF Question
<1>4. questions \in Seq(Question) /\ Len(questions) = n /\ QuestionIds = 1 .. n
  BY <1>1, <1>3 DEF QuestionIds
<1>5. ASSUME NEW p \in QuestionIds, NEW q \in QuestionIds,
             questions[p].step = questions[q].step, questions[p].key = questions[q].key
      PROVE  p = q
  <2>1. p \in 1 .. n /\ q \in 1 .. n
    BY <1>4
  <2>2. /\ SeededQuestions[p] = <<SeededQuestions[p][1], SeededQuestions[p][2]>>
        /\ SeededQuestions[q] = <<SeededQuestions[q][1], SeededQuestions[q][2]>>
    BY <2>1, <1>1
  <2>3. /\ SeededQuestions[p][1] = SeededQuestions[q][1]
        /\ SeededQuestions[p][2] = SeededQuestions[q][2]
    BY <2>1, <1>2, <1>5
  <2>4. SeededQuestions[p] = SeededQuestions[q]
    BY <2>2, <2>3
  <2> QED
    BY <2>1, <2>4, <1>1, OnboardingAssumption
<1>6. /\ closed = {} /\ responses = [q \in 1 .. MaxQuestions |-> None] /\ completed = None
      /\ filling = [r \in Requests |-> None]
  BY DEF OnboardingInit
<1>7. OnboardingTypeOK
  BY <1>1, <1>4, <1>5, <1>6 DEF OnboardingTypeOK
<1> QED
  BY <1>6, <1>7 DEF OnboardingInvariant, FillingsKnow, CompletionAnswered

\* The questions are numbered as they were created.
LEMMA QuestionsNumbered ==
  ASSUME OnboardingTypeOK
  PROVE  /\ Len(questions) \in Nat /\ QuestionIds = 1 .. Len(questions)
         /\ QuestionIds \subseteq 1 .. MaxQuestions
         /\ \A q \in QuestionIds : questions[q] \in Question
         /\ DOMAIN responses = 1 .. MaxQuestions
         /\ \A q \in 1 .. MaxQuestions : responses[q] \in Answer \cup {None}
  BY OnboardingAssumption DEF OnboardingTypeOK, QuestionIds

\* A save moves on, or ends, and writes nothing.
LEMMA FillingSlotChanges ==
  ASSUME OnboardingInvariant, NEW r \in Requests, NEW h \in Filling \cup {None},
         filling' = [filling EXCEPT ![r] = h],
         UNCHANGED <<closed, questions, responses, completed>>,
         h # None => FillingKnows(h),
         h # None /\ h.pc = "commit" =>
           \A other \in Requests \ {r} : filling[other] # None /\ filling[other].pc = "commit"
             => DOMAIN h.answers \cap DOMAIN filling[other].answers = {}
  PROVE  OnboardingInvariant'
<1> USE DEF OnboardingInvariant
<1>1. /\ filling' \in [Requests -> Filling \cup {None}] /\ filling'[r] = h
      /\ \A q \in Requests \ {r} : filling'[q] = filling[q]
  BY DEF OnboardingTypeOK
<1>2. OnboardingTypeOK'
  <2>1. \A q, p \in Requests :
          /\ q # p /\ filling'[q] # None /\ filling'[p] # None
          /\ filling'[q].pc = "commit" /\ filling'[p].pc = "commit"
          => DOMAIN filling'[q].answers \cap DOMAIN filling'[p].answers = {}
    BY <1>1 DEF OnboardingTypeOK
  <2> QED
    BY <1>1, <2>1 DEF OnboardingTypeOK, QuestionIds
<1>3. FillingsKnow'
  BY <1>1 DEF FillingsKnow, FillingKnows, SharesKey, QuestionIds
<1>4. CompletionAnswered'
  BY DEF CompletionAnswered
<1> QED
  BY <1>2, <1>3, <1>4

\* A save is accepted with answers to questions of the form.
LEMMA BeginFillingPreserves ==
  ASSUME OnboardingInvariant, NEW r \in Requests, NEW submitted \in Submissions,
         NEW complete \in BOOLEAN, BeginFilling(r, submitted, complete)
  PROVE  OnboardingInvariant'
<1> DEFINE stored == {q \in ActiveQuestions : questions[q].key \in DOMAIN submitted}
           answers == [q \in stored |-> submitted[questions[q].key]]
           had == Restrict(responses, stored)
           required == IF complete THEN {q \in ActiveQuestions : questions[q].required} ELSE None
           h == [pc |-> "flush", answers |-> answers, had |-> had, required |-> required,
                 late |-> {}]
<1>1. /\ filling' = [filling EXCEPT ![r] = h]
      /\ UNCHANGED <<closed, questions, responses, completed>>
  BY DEF BeginFilling
<1>2. ActiveQuestions \subseteq QuestionIds /\ QuestionIds \subseteq 1 .. MaxQuestions
  BY QuestionsNumbered DEF OnboardingInvariant, ActiveQuestions, Shown
<1>3. \A key \in DOMAIN submitted : submitted[key] \in Answer
  <2>1. PICK K \in SUBSET QuestionKeys : submitted \in [K -> Answer]
    BY OnboardingAssumption
  <2> QED
    BY <2>1
<1>4. answers \in [stored -> Answer]
  BY <1>3
<1>5. /\ had \in [stored -> Answer \cup {None}]
      /\ \A q \in stored : had[q] = responses[q]
  BY <1>2, QuestionsNumbered DEF OnboardingInvariant, Restrict
<1>6. stored \in SUBSET (1 .. MaxQuestions) /\ stored \subseteq QuestionIds
  BY <1>2
<1> HIDE DEF stored, answers, had
<1>7. answers \in OverQuestions(Answer) /\ had \in OverQuestions(Answer \cup {None})
  BY <1>4, <1>5, <1>6 DEF OverQuestions
<1>8. /\ required \in (SUBSET (1 .. MaxQuestions)) \cup {None}
      /\ required # None => required \subseteq QuestionIds
  BY <1>2
<1> HIDE DEF required
<1>9. h \in Filling /\ h.pc = "flush"
  BY <1>7, <1>8 DEF Filling
<1>10. FillingKnows(h)
  BY <1>4, <1>5, <1>6, <1>8 DEF FillingKnows
<1> HIDE DEF h
<1> QED
  BY <1>1, <1>9, <1>10, FillingSlotChanges

\* What the flush writes of an answer it had found is an answer.
LEMMA FlushFillingPreserves ==
  ASSUME OnboardingInvariant, NEW r \in Requests, FlushFilling(r)
  PROVE  OnboardingInvariant'
<1> DEFINE h == filling[r]
           stored == DOMAIN h.answers
           answers == [q \in stored |-> Written(responses[q], h.had[q], h.answers[q])]
           had == IF h.required = None THEN <<>> ELSE Restrict(responses, h.required \ stored)
           late == {q \in stored : responses[q] # h.had[q]}
           k == [h EXCEPT !.pc = "commit", !.answers = answers, !.had = had, !.late = late]
<1>1. /\ h # None /\ h \in Filling /\ h.pc = "flush" /\ FillingKnows(h)
      /\ UNCHANGED <<closed, questions, responses, completed>>
      /\ h.required # None => \A q \in h.required : IsAnswered(h, q)
      /\ \A other \in Requests \ {r} : filling[other] # None /\ filling[other].pc = "commit"
           => stored \cap DOMAIN filling[other].answers = {}
      /\ filling' = [filling EXCEPT ![r] = k]
  BY DEF FlushFilling, OnboardingInvariant, OnboardingTypeOK, FillingsKnow
<1>2. /\ stored \subseteq QuestionIds /\ stored \subseteq 1 .. MaxQuestions
      /\ h.answers \in [stored -> Answer]
      /\ h.required # None => h.required \subseteq QuestionIds
      /\ h.required \in (SUBSET (1 .. MaxQuestions)) \cup {None}
      /\ DOMAIN h.had = stored
      /\ \A q \in stored : h.had[q] # None => responses[q] # None
  <2>1. PICK Q \in SUBSET (1 .. MaxQuestions) : h.answers \in [Q -> Answer]
    BY <1>1 DEF Filling, OverQuestions
  <2> QED
    BY <2>1, <1>1 DEF FillingKnows, Filling
<1>3. \A q \in 1 .. MaxQuestions : responses[q] \in Answer \cup {None}
  BY QuestionsNumbered DEF OnboardingInvariant
<1> HIDE DEF h
<1>4. answers \in [stored -> Answer]
  <2> SUFFICES ASSUME NEW q \in stored
               PROVE  Written(responses[q], h.had[q], h.answers[q]) \in Answer
    OBVIOUS
  <2>1. h.answers[q] \in Answer /\ h.answers[q] # None
    BY <1>2, OnboardingAssumption
  <2> QED
    BY <2>1, <1>2, <1>3 DEF Written
<1>5. had \in OverQuestions(Answer \cup {None})
  <2>1. CASE h.required = None
    <3>1. <<>> \in [{} -> Answer \cup {None}]
      OBVIOUS
    <3> QED
      BY <2>1, <3>1 DEF OverQuestions
  <2>2. CASE h.required # None
    <3>1. had \in [h.required \ stored -> Answer \cup {None}]
      BY <2>2, <1>2, <1>3 DEF Restrict
    <3> QED
      BY <2>2, <3>1, <1>2 DEF OverQuestions
  <2> QED
    BY <2>1, <2>2
<1>6. h.required # None =>
        DOMAIN had = h.required \ stored /\ \A q \in h.required \ stored : had[q] = responses[q]
  BY DEF Restrict
<1>7. answers \in OverQuestions(Answer) /\ late \in SUBSET (1 .. MaxQuestions)
  BY <1>2, <1>4 DEF OverQuestions
<1>8. DOMAIN answers = stored
  OBVIOUS
<1> HIDE DEF stored, answers, had, late
<1>9. /\ k \in Filling /\ k.pc = "commit" /\ k.answers = answers /\ k.had = had
      /\ k.required = h.required
  BY <1>1, <1>5, <1>7 DEF Filling
<1>10. ASSUME h.required # None, NEW q \in h.required \ stored
       PROVE  had[q] = "given" \/ SharesKey(q)
  <2>1. q \in QuestionIds
    BY <1>2, <1>10
  <2>2. PICK p \in QuestionIds : questions[p].key = questions[q].key /\ ReadAnswer(h, p) = "given"
    BY <1>1, <1>10 DEF IsAnswered
  <2>3. CASE p = q
    BY <2>2, <2>3, <1>6, <1>10 DEF ReadAnswer, stored
  <2>4. CASE p # q
    BY <2>2, <2>4 DEF SharesKey
  <2> QED
    BY <2>3, <2>4
<1>11. FillingKnows(k)
  BY <1>2, <1>6, <1>8, <1>9, <1>10 DEF FillingKnows
<1> HIDE DEF k
<1> QED
  BY <1>1, <1>8, <1>9, <1>11, FillingSlotChanges

\* A completion vouches for the answers as they are when it commits.
LEMMA CommitFillingPreserves ==
  ASSUME OnboardingInvariant, NEW r \in Requests, CommitFilling(r)
  PROVE  OnboardingInvariant'
<1> USE DEF OnboardingInvariant
<1> DEFINE h == filling[r]
           stored == DOMAIN h.answers
           moved == {q \in DOMAIN h.had : responses[q] # h.had[q]}
           kept == IF h.required = None THEN completed ELSE {q \in h.required : ~ SharesKey(q)}
           blanked == {q \in stored : h.answers[q] = "blank"}
<1>1. /\ h # None /\ h \in Filling /\ h.pc = "commit" /\ FillingKnows(h)
      /\ responses' = [q \in DOMAIN responses |->
                         IF q \in stored THEN h.answers[q] ELSE responses[q]]
      /\ completed' = IF kept = None THEN None ELSE kept \ (blanked \cup h.late \cup moved)
      /\ filling' = [filling EXCEPT ![r] = None]
      /\ UNCHANGED <<closed, questions>>
  BY DEF CommitFilling, OnboardingTypeOK, FillingsKnow
<1>2. /\ stored \subseteq QuestionIds
      /\ \A q \in stored : h.answers[q] \in Answer
      /\ h.required # None => h.required \subseteq QuestionIds
  <2>1. PICK Q \in SUBSET (1 .. MaxQuestions) : h.answers \in [Q -> Answer]
    BY <1>1 DEF Filling, OverQuestions
  <2> QED
    BY <2>1, <1>1 DEF FillingKnows
<1>3. h.required # None =>
        /\ DOMAIN h.had = h.required \ stored
        /\ \A q \in DOMAIN h.had : h.had[q] = "given" \/ SharesKey(q)
  BY <1>1 DEF FillingKnows
<1> HIDE DEF h
<1>4. /\ DOMAIN responses = 1 .. MaxQuestions /\ QuestionIds \subseteq 1 .. MaxQuestions
      /\ \A q \in 1 .. MaxQuestions : responses[q] \in Answer \cup {None}
  BY QuestionsNumbered
<1>5. /\ filling' \in [Requests -> Filling \cup {None}] /\ filling'[r] = None
      /\ \A q \in Requests \ {r} : filling'[q] = filling[q]
  BY <1>1 DEF OnboardingTypeOK
<1> HIDE DEF stored, moved, blanked
<1>6. \A q \in 1 .. MaxQuestions :
        /\ responses'[q] = IF q \in stored THEN h.answers[q] ELSE responses[q]
        /\ responses[q] # None => responses'[q] # None
  BY <1>1, <1>2, <1>4, OnboardingAssumption
<1>7. OnboardingTypeOK'
  <2>1. responses' \in [1 .. MaxQuestions -> Answer \cup {None}]
    <3>1. \A q \in 1 .. MaxQuestions :
            (IF q \in stored THEN h.answers[q] ELSE responses[q]) \in Answer \cup {None}
      BY <1>2, <1>4
    <3> QED
      BY <3>1, <1>1, <1>4
  <2>2. \A q \in DOMAIN responses' \ QuestionIds : responses'[q] = None
    BY <2>1, <1>2, <1>4, <1>6 DEF OnboardingTypeOK
  <2>3. completed' # None => completed' \subseteq QuestionIds
    BY <1>1, <1>2 DEF OnboardingTypeOK
  <2>4. \A q, p \in Requests :
          /\ q # p /\ filling'[q] # None /\ filling'[p] # None
          /\ filling'[q].pc = "commit" /\ filling'[p].pc = "commit"
          => DOMAIN filling'[q].answers \cap DOMAIN filling'[p].answers = {}
    BY <1>5 DEF OnboardingTypeOK
  <2> QED
    BY <1>1, <1>5, <2>1, <2>2, <2>3, <2>4 DEF OnboardingTypeOK, QuestionIds
<1>8. FillingsKnow'
  <2> SUFFICES ASSUME NEW q \in Requests, filling'[q] # None PROVE FillingKnows(filling[q])'
    BY DEF FillingsKnow
  <2> DEFINE k == filling[q]
  <2>1. k # None /\ FillingKnows(k) /\ filling'[q] = k
    BY <1>5 DEF FillingsKnow
  <2>2. k.pc = "flush" => \A p \in DOMAIN k.had : p \in 1 .. MaxQuestions
    BY <2>1, <1>4 DEF FillingKnows
  <2> HIDE DEF k
  <2> QED
    BY <2>1, <2>2, <1>1, <1>6 DEF FillingKnows, SharesKey, QuestionIds
<1>9. CompletionAnswered'
  <2> SUFFICES ASSUME completed' # None, NEW q \in completed'
               PROVE  responses'[q] = "given"
    BY DEF CompletionAnswered
  <2>1. /\ kept # None /\ q \in kept /\ q \notin blanked /\ q \notin moved
    BY <1>1
  <2>2. q \in 1 .. MaxQuestions
    BY <2>1, <1>2, <1>4 DEF OnboardingTypeOK
  <2>3. CASE q \in stored
    BY <2>1, <2>2, <2>3, <1>2, <1>6 DEF blanked, Answer
  <2>4. CASE q \notin stored /\ h.required = None
    BY <2>1, <2>2, <2>4, <1>6 DEF CompletionAnswered
  <2>5. CASE q \notin stored /\ h.required # None
    <3>1. q \in DOMAIN h.had /\ h.had[q] = "given"
      BY <2>1, <2>5, <1>3
    <3>2. responses[q] = h.had[q]
      BY <2>1, <3>1 DEF moved
    <3> QED
      BY <2>2, <2>5, <3>1, <3>2, <1>6
  <2> QED
    BY <2>3, <2>4, <2>5
<1> QED
  BY <1>7, <1>8, <1>9

\* The editors only add questions and switch them off: their keys stay.
LEMMA QuestionsChange ==
  ASSUME OnboardingInvariant, UNCHANGED <<responses, completed, filling>>,
         closed' \subseteq Steps, questions' \in Seq(Question), Len(questions') <= MaxQuestions,
         QuestionIds \subseteq QuestionIds',
         \A q \in QuestionIds : questions'[q].key = questions[q].key,
         \A p, q \in QuestionIds' :
           questions'[p].step = questions'[q].step /\ questions'[p].key = questions'[q].key => p = q
  PROVE  OnboardingInvariant'
<1> USE DEF OnboardingInvariant
<1>1. OnboardingTypeOK'
  <2>1. \A q \in DOMAIN responses' \ QuestionIds' : responses'[q] = None
    BY DEF OnboardingTypeOK
  <2>2. completed' # None => completed' \subseteq QuestionIds'
    BY DEF OnboardingTypeOK
  <2> QED
    BY <2>1, <2>2 DEF OnboardingTypeOK
<1>2. FillingsKnow'
  <2> SUFFICES ASSUME NEW r \in Requests, filling[r] # None PROVE FillingKnows(filling[r])'
    BY DEF FillingsKnow
  <2>1. FillingKnows(filling[r]) /\ filling'[r] = filling[r]
    BY DEF FillingsKnow
  <2>2. \A q \in QuestionIds : SharesKey(q) => SharesKey(q)'
    BY DEF SharesKey
  <2> DEFINE k == filling[r]
  <2>3. filling'[r] = k /\ FillingKnows(k)
    BY <2>1
  <2> HIDE DEF k
  <2> QED
    BY <2>2, <2>3 DEF FillingKnows
<1>3. CompletionAnswered'
  BY DEF CompletionAnswered
<1> QED
  BY <1>1, <1>2, <1>3

\* A new question has a key of its own within its step, and no answer yet.
LEMMA CreateQuestionPreserves ==
  ASSUME OnboardingInvariant, NEW step \in Steps, NEW key \in QuestionKeys,
         NEW required \in BOOLEAN, CreateQuestion(step, key, required)
  PROVE  OnboardingInvariant'
<1> DEFINE row == [step |-> step, key |-> key, required |-> required, active |-> TRUE]
           n == Len(questions)
<1>1. /\ n < MaxQuestions /\ questions' = Append(questions, row)
      /\ \A q \in QuestionIds : questions[q].step = step => questions[q].key # key
      /\ UNCHANGED <<closed, responses, completed, filling>>
  BY DEF CreateQuestion
<1>2. row \in Question /\ row.step = step /\ row.key = key
  BY DEF Question
<1>3. /\ n \in Nat /\ QuestionIds = 1 .. n /\ MaxQuestions \in Nat
      /\ questions \in Seq(Question) /\ closed \subseteq Steps
      /\ \A p, q \in QuestionIds :
           questions[p].step = questions[q].step /\ questions[p].key = questions[q].key => p = q
  BY QuestionsNumbered, OnboardingAssumption DEF OnboardingInvariant, OnboardingTypeOK
<1> HIDE DEF row
<1>4. /\ questions' \in Seq(Question) /\ Len(questions') = n + 1
      /\ \A q \in 1 .. n : questions'[q] = questions[q]
      /\ questions'[n + 1] = row
  BY <1>1, <1>2, <1>3
<1>5. QuestionIds' = 1 .. (n + 1)
  BY <1>3, <1>4 DEF QuestionIds
<1> HIDE DEF n
<1>6. QuestionIds' = QuestionIds \cup {n + 1} /\ n + 1 \notin QuestionIds
  BY <1>3, <1>5
<1>7. \A p, q \in QuestionIds' :
        questions'[p].step = questions'[q].step /\ questions'[p].key = questions'[q].key => p = q
  BY <1>1, <1>2, <1>3, <1>4, <1>6
<1>8. Len(questions') <= MaxQuestions
  BY <1>1, <1>3, <1>4
<1> QED
  BY <1>1, <1>3, <1>4, <1>6, <1>7, <1>8, QuestionsChange

\* A question that is switched off keeps its answers.
LEMMA DeactivateQuestionPreserves ==
  ASSUME OnboardingInvariant, NEW q \in QuestionIds, DeactivateQuestion(q)
  PROVE  OnboardingInvariant'
<1> DEFINE row == [questions[q] EXCEPT !.active = FALSE]
<1>1. /\ questions' = [questions EXCEPT ![q] = row]
      /\ UNCHANGED <<closed, responses, completed, filling>>
  BY DEF DeactivateQuestion
<1>2. /\ Len(questions) \in Nat /\ QuestionIds = 1 .. Len(questions)
      /\ questions \in Seq(Question) /\ closed \subseteq Steps /\ Len(questions) <= MaxQuestions
      /\ \A p, s \in QuestionIds :
           questions[p].step = questions[s].step /\ questions[p].key = questions[s].key => p = s
  BY QuestionsNumbered DEF OnboardingInvariant, OnboardingTypeOK
<1>3. row \in Question /\ row.step = questions[q].step /\ row.key = questions[q].key
  <2>1. questions[q] \in Question
    BY <1>2
  <2> QED
    BY <2>1 DEF Question
<1> HIDE DEF row
<1>4. /\ questions' \in Seq(Question) /\ Len(questions') = Len(questions)
      /\ \A p \in 1 .. Len(questions) : questions'[p] = IF p = q THEN row ELSE questions[p]
  BY <1>1, <1>2, <1>3
<1>5. QuestionIds' = QuestionIds
  BY <1>2, <1>4 DEF QuestionIds
<1>6. \A p \in QuestionIds :
        questions'[p].step = questions[p].step /\ questions'[p].key = questions[p].key
  BY <1>2, <1>3, <1>4
<1> QED
  BY <1>1, <1>2, <1>4, <1>5, <1>6, QuestionsChange

LEMMA NextOnboarding ==
  OnboardingInvariant /\ [OnboardingNext]_onboardingVars => OnboardingInvariant'
<1> SUFFICES ASSUME OnboardingInvariant, [OnboardingNext]_onboardingVars
             PROVE  OnboardingInvariant'
  OBVIOUS
<1>1. ASSUME NEW r \in Requests, NEW submitted \in Submissions, NEW complete \in BOOLEAN,
             BeginFilling(r, submitted, complete)
      PROVE  OnboardingInvariant'
  BY <1>1, BeginFillingPreserves
<1>2. ASSUME NEW r \in Requests, FlushFilling(r)
      PROVE  OnboardingInvariant'
  BY <1>2, FlushFillingPreserves
<1>3. ASSUME NEW r \in Requests, CommitFilling(r)
      PROVE  OnboardingInvariant'
  BY <1>3, CommitFillingPreserves
<1>4. ASSUME NEW r \in Requests, AbortFilling(r)
      PROVE  OnboardingInvariant'
  BY <1>4, FillingSlotChanges DEF AbortFilling
<1>5. ASSUME NEW s \in Steps, NEW k \in QuestionKeys, NEW required \in BOOLEAN,
             CreateQuestion(s, k, required)
      PROVE  OnboardingInvariant'
  BY <1>5, CreateQuestionPreserves
<1>6. ASSUME NEW q \in QuestionIds, DeactivateQuestion(q)
      PROVE  OnboardingInvariant'
  BY <1>6, DeactivateQuestionPreserves
<1>7. ASSUME NEW s \in Steps, NEW active \in BOOLEAN, SetStepActive(s, active)
      PROVE  OnboardingInvariant'
  <2>1. /\ UNCHANGED <<questions, responses, completed, filling>>
        /\ closed' \subseteq Steps
    BY <1>7 DEF SetStepActive, OnboardingInvariant, OnboardingTypeOK
  <2>2. QuestionIds' = QuestionIds
    BY <2>1 DEF QuestionIds
  <2> QED
    BY <2>1, <2>2, QuestionsChange DEF OnboardingInvariant, OnboardingTypeOK
<1>8. CASE UNCHANGED onboardingVars
  BY <1>8 DEF onboardingVars, OnboardingInvariant, OnboardingTypeOK, FillingsKnow, FillingKnows,
       SharesKey, CompletionAnswered, QuestionIds
<1> QED
  BY <1>1, <1>2, <1>3, <1>4, <1>5, <1>6, <1>7, <1>8 DEF OnboardingNext

\* save_answers: what a completed wizard vouches for has an answer, for every
\* wizard, whatever editors make of it and however many saves overlap.
THEOREM CompletionsAnswered == OnboardingSpec => []CompletionAnswered
<1>1. OnboardingInvariant => CompletionAnswered
  BY DEF OnboardingInvariant
<1> QED
  BY <1>1, InitOnboarding, NextOnboarding, PTL DEF OnboardingSpec

-----------------------------------------------------------------------------
(***************************************************************************)
(* Services                                                                *)
(***************************************************************************)

LEMMA InitServices == ServicesInit => ServicesInvariant
<1> SUFFICES ASSUME ServicesInit PROVE ServicesInvariant
  OBVIOUS
<1>1. FilingShape
  BY ServicesAssumption DEF ServicesInit, FilingShape
<1>2. FilingStands /\ HistoryKept
  BY DEF ServicesInit, FilingStands, HistoryKept
<1> QED
  BY <1>1, <1>2 DEF ServicesInvariant

\* What the foreign keys say of a column is what the one reference with that
\* column says.
LEMMA RuleOfReference ==
  ASSUME NEW ref \in References
  PROVE  Rule(ref.child, ref.column) = ref.rule
  BY ReferencesSoundly DEF Rule

\* The three references that a deleted category leaves behind or takes along.
LEMMA RulesOfDeletion ==
  /\ Rule("service_subcategories", "category_id") = "CASCADE"
  /\ Rule("tasks", "service_category_id") = "SET NULL"
  /\ Rule("tasks", "service_subcategory_id") = "SET NULL"
<1>1. /\ Cascade("service_subcategories", "category_id", "service_categories") \in References
      /\ SetNull("tasks", "service_category_id", "service_categories") \in References
      /\ SetNull("tasks", "service_subcategory_id", "service_subcategories") \in References
  BY DEF References, TaxonomyReferences, WorkReferences
<1>2. /\ Rule("service_subcategories", "category_id") =
           Cascade("service_subcategories", "category_id", "service_categories").rule
      /\ Rule("tasks", "service_category_id") =
           SetNull("tasks", "service_category_id", "service_categories").rule
      /\ Rule("tasks", "service_subcategory_id") =
           SetNull("tasks", "service_subcategory_id", "service_subcategories").rule
  <2>1. \A a, b, c : /\ Cascade(a, b, c).child = a /\ Cascade(a, b, c).column = b
                     /\ SetNull(a, b, c).child = a /\ SetNull(a, b, c).column = b
    BY DEF Cascade, SetNull
  <2> QED
    BY <1>1, <2>1, RuleOfReference
<1>3. \A a, b, c : Cascade(a, b, c).rule = "CASCADE" /\ SetNull(a, b, c).rule = "SET NULL"
  BY DEF Cascade, SetNull
<1> QED
  BY <1>2, <1>3

\* What an editor does that is not about subcategories, tasks or deletions.
LEMMA FilingUntouched ==
  ASSUME ServicesInvariant, UNCHANGED <<subcategories, tasks, filed, handling>>
  PROVE  ServicesInvariant'
  BY DEF ServicesInvariant, FilingShape, FilingStands, HistoryKept, Deletes

\* A request moves on, or ends, and deletes nothing yet.
LEMMA HandlingSlotChanges ==
  ASSUME ServicesInvariant, NEW r \in Requests, NEW h, handling' = [handling EXCEPT ![r] = h],
         h # None /\ h.op = "delete" =>
           h.category \in CategoryIds /\ \A row \in tasks : row.service_category_id # h.category,
         UNCHANGED <<subcategories, tasks, filed>>
  PROVE  ServicesInvariant'
<1> USE DEF ServicesInvariant
<1>1. /\ DOMAIN handling' = Requests /\ handling'[r] = h
      /\ \A q \in Requests \ {r} : handling'[q] = handling[q]
  BY DEF FilingShape
<1>2. FilingShape'
  BY <1>1 DEF FilingShape
<1>3. HistoryKept'
  BY DEF HistoryKept
<1>4. FilingStands'
  <2> SUFFICES ASSUME NEW row \in tasks, ~ filed[row.id].raced, NEW q \in Requests
               PROVE  ~ Deletes(q, filed[row.id].category)'
    BY DEF FilingStands
  <2>1. row.service_category_id = filed[row.id].category
    BY DEF HistoryKept
  <2>2. CASE q = r
    BY <2>1, <2>2, <1>1 DEF Deletes
  <2>3. CASE q # r
    BY <2>3, <1>1 DEF Deletes, FilingStands
  <2> QED
    BY <2>2, <2>3
<1> QED
  BY <1>2, <1>3, <1>4

\* Subcategories are added or change their wording; those there are keep their
\* id and their category.
LEMMA SubcategoriesChange ==
  ASSUME ServicesInvariant, UNCHANGED <<tasks, filed, handling>>,
         NEW row \in Subcategory,
         subcategories' = {other \in subcategories : other.id # row.id} \cup {row},
         \A old \in subcategories : old.id = row.id => old.category_id = row.category_id
  PROVE  ServicesInvariant'
<1> USE DEF ServicesInvariant
<1>1. \A s \in subcategories' : s = row \/ (s \in subcategories /\ s.id # row.id)
  OBVIOUS
<1>2. Ids(subcategories') = Ids(subcategories) \cup {row.id}
  BY DEF Ids
<1>3. FilingShape'
  <2>1. subcategories' \subseteq Subcategory /\ OneEach(subcategories')
    BY <1>1 DEF FilingShape, OneEach
  <2> QED
    BY <2>1, <1>2 DEF FilingShape
<1>4. HistoryKept'
  BY DEF HistoryKept
<1>5. FilingStands'
  <2> SUFFICES ASSUME NEW task \in tasks, ~ filed[task.id].raced,
                      filed[task.id].parent = filed[task.id].category,
                      NEW s \in subcategories', s.id = filed[task.id].sub
               PROVE  s.category_id = filed[task.id].category
    BY DEF FilingStands, Deletes
  <2>1. CASE s \in subcategories
    BY <2>1 DEF FilingStands
  <2>2. CASE s = row
    <3>1. row.id \in SubIds /\ row.id # None
      BY ServicesAssumption DEF Subcategory
    <3>2. task.service_subcategory_id = row.id
      BY <2>2 DEF HistoryKept
    <3>3. PICK old \in subcategories : old.id = row.id
      BY <3>1, <3>2 DEF FilingShape, Ids
    <3> QED
      BY <2>2, <3>3 DEF FilingStands
  <2> QED
    BY <2>1, <2>2, <1>1
<1> QED
  BY <1>3, <1>4, <1>5

\* Archiving takes nothing out of the tables.
LEMMA ArchiveSubcategoryPreserves ==
  ASSUME ServicesInvariant, NEW row \in subcategories, ArchiveSubcategory(row)
  PROVE  ServicesInvariant'
<1> DEFINE new == Archived(row)
<1>1. row \in Subcategory /\ OneEach(subcategories)
  BY DEF ServicesInvariant, FilingShape
<1>2. new \in Subcategory /\ new.id = row.id /\ new.category_id = row.category_id
  BY <1>1 DEF Archived, Subcategory
<1>3. /\ subcategories' = (subcategories \ {row}) \cup {new}
      /\ UNCHANGED <<tasks, filed, handling>>
  BY DEF ArchiveSubcategory, Elsewhere
<1> HIDE DEF new
<1>4. subcategories' = {other \in subcategories : other.id # new.id} \cup {new}
  BY <1>1, <1>2, <1>3 DEF OneEach
<1>5. \A old \in subcategories : old.id = new.id => old.category_id = new.category_id
  BY <1>1, <1>2 DEF OneEach
<1> QED
  BY <1>2, <1>3, <1>4, <1>5, SubcategoriesChange

\* A task is filed under a category that exists; if it is being deleted meanwhile,
\* its filing is raced.
LEMMA FileTaskPreserves ==
  ASSUME ServicesInvariant, NEW t \in TaskIds, NEW c \in CategoryIds \cup {None},
         NEW s \in SubIds \cup {None}, FileTask(t, c, s)
  PROVE  ServicesInvariant'
<1> USE DEF ServicesInvariant
<1> DEFINE task == [id |-> t, service_category_id |-> c, service_subcategory_id |-> s]
           last == [category |-> c, sub |-> s, parent |-> Parent(s),
                    raced |-> \E r \in Requests :
                                handling[r] # None /\ handling[r].op = "delete"
                                  /\ handling[r].category \in {c, Parent(s)}]
<1>1. /\ tasks' = {row \in tasks : row.id # t} \cup {task}
      /\ filed' = [filed EXCEPT ![t] = last]
      /\ UNCHANGED <<subcategories, handling>>
      /\ s \in Ids(subcategories) \cup {None}
  BY DEF FileTask, taxonomyVars
<1>2. /\ task \in TaskRow /\ task.id = t /\ task.service_category_id = c
      /\ task.service_subcategory_id = s
  BY DEF TaskRow
<1>3. /\ last.category = c /\ last.sub = s /\ last.parent = Parent(s)
      /\ ~ last.raced => \A r \in Requests : ~ Deletes(r, c)
  BY DEF Deletes
<1>4. ASSUME s # None, NEW row \in subcategories, row.id = s
      PROVE  row.category_id = Parent(s)
  BY <1>4 DEF Parent, FilingShape, OneEach
<1> HIDE DEF task, last
<1>5. /\ DOMAIN filed' = TaskIds /\ filed'[t] = last
      /\ \A other \in TaskIds \ {t} : filed'[other] = filed[other]
  BY <1>1 DEF FilingShape
<1>6. \A row \in tasks' : row = task \/ (row \in tasks /\ row.id \in TaskIds \ {t})
  BY <1>1 DEF FilingShape, TaskRow
<1>7. FilingShape'
  <2>1. tasks' \subseteq TaskRow
    BY <1>2, <1>6 DEF FilingShape
  <2>2. \A row \in tasks' : row.service_subcategory_id \in Ids(subcategories) \cup {None}
    BY <1>1, <1>2, <1>6 DEF FilingShape
  <2> QED
    BY <2>1, <2>2, <1>1, <1>5 DEF FilingShape, Ids
<1>8. FilingStands'
  <2> SUFFICES ASSUME NEW row \in tasks', ~ filed'[row.id].raced
               PROVE  /\ \A r \in Requests : ~ Deletes(r, filed'[row.id].category)
                      /\ filed'[row.id].parent = filed'[row.id].category =>
                           \A sub \in subcategories : sub.id = filed'[row.id].sub =>
                             sub.category_id = filed'[row.id].category
    BY <1>1 DEF FilingStands, Deletes
  <2>1. CASE row = task
    <3>1. \A sub \in subcategories : sub.id # None
      BY ServicesAssumption DEF FilingShape, Subcategory
    <3> QED
      BY <2>1, <3>1, <1>2, <1>3, <1>4, <1>5
  <2>2. CASE row \in tasks /\ row.id \in TaskIds \ {t}
    <3>1. filed'[row.id] = filed[row.id]
      BY <2>2, <1>5
    <3> QED
      BY <2>2, <3>1 DEF FilingStands
  <2> QED
    BY <2>1, <2>2, <1>6
<1>9. HistoryKept'
  BY <1>2, <1>3, <1>5, <1>6 DEF HistoryKept
<1> QED
  BY <1>7, <1>8, <1>9

\* The rows of a category that is deleted go, or forget it.
LEMMA CommitDeletionPreserves ==
  ASSUME ServicesInvariant, NEW r \in Requests, CommitDeletion(r)
  PROVE  ServicesInvariant'
<1> USE DEF ServicesInvariant
<1> DEFINE c == handling[r].category
           subs == {row.id : row \in {s \in subcategories : s.category_id \in {c}}}
           forget(row, column, gone) ==
             IF row[column] \in gone THEN [row EXCEPT ![column] = None] ELSE row
           first(row) == forget(row, "service_category_id", {c})
           then(row) == forget(first(row), "service_subcategory_id", subs)
<1>1. /\ Deletes(r, c) /\ c \in CategoryIds
      /\ subcategories' = {s \in subcategories : s.category_id # c}
      /\ tasks' = {then(row) : row \in tasks}
      /\ handling' = [handling EXCEPT ![r] = None]
      /\ filed' = filed
  <2>1. /\ subcategories' = AfterDelete("service_subcategories", "category_id", subcategories, {c})
        /\ tasks' = AfterDelete("tasks", "service_subcategory_id",
                      AfterDelete("tasks", "service_category_id", tasks, {c}), subs)
        /\ handling' = [handling EXCEPT ![r] = None] /\ filed' = filed
        /\ handling[r] # None /\ handling[r].op = "delete"
    BY DEF CommitDeletion
  <2>2. subcategories' = {s \in subcategories : s.category_id # c}
    BY <2>1, RulesOfDeletion DEF AfterDelete
  <2>3. AfterDelete("tasks", "service_category_id", tasks, {c}) = {first(row) : row \in tasks}
    BY RulesOfDeletion DEF AfterDelete
  <2>4. tasks' = {forget(row, "service_subcategory_id", subs) : row \in {first(x) : x \in tasks}}
    BY <2>1, <2>3, RulesOfDeletion DEF AfterDelete
  <2>5. tasks' = {then(row) : row \in tasks}
    <3> DEFINE once == {first(x) : x \in tasks}
    <3>1. \A row : row \in once <=> \E x \in tasks : row = first(x)
      OBVIOUS
    <3>2. tasks' = {forget(row, "service_subcategory_id", subs) : row \in once}
      BY <2>4
    <3> HIDE DEF forget, first, subs, once
    <3> QED
      BY <3>1, <3>2
  <2> QED
    BY <2>1, <2>2, <2>5 DEF Deletes, FilingShape
<1>2. ASSUME NEW row \in tasks
      PROVE  /\ then(row) \in TaskRow /\ then(row).id = row.id
             /\ then(row).service_category_id =
                  IF row.service_category_id = c THEN None ELSE row.service_category_id
             /\ then(row).service_subcategory_id =
                  IF row.service_subcategory_id \in subs THEN None ELSE row.service_subcategory_id
  <2>1. row \in TaskRow
    BY DEF FilingShape
  <2>2. /\ first(row) \in TaskRow /\ first(row).id = row.id
        /\ first(row).service_category_id =
             IF row.service_category_id = c THEN None ELSE row.service_category_id
        /\ first(row).service_subcategory_id = row.service_subcategory_id
    BY <2>1 DEF TaskRow
  <2> HIDE DEF first, subs
  <2> QED
    BY <2>2 DEF TaskRow
<1>3. \A s \in subcategories : s.id \in subs <=> s.category_id = c
  BY DEF FilingShape, OneEach
<1>4. None \notin subs
  BY ServicesAssumption DEF FilingShape, Subcategory
<1> HIDE DEF c, subs, first, then
<1>5. /\ DOMAIN handling' = Requests
      /\ \A q \in Requests : \A d : Deletes(q, d)' => Deletes(q, d)
  BY <1>1 DEF FilingShape, Deletes
<1>6. FilingShape'
  <2>1. subcategories' \subseteq Subcategory /\ OneEach(subcategories')
    BY <1>1 DEF FilingShape, OneEach
  <2>2. tasks' \subseteq TaskRow
    BY <1>1, <1>2
  <2>3. ASSUME NEW row \in tasks
        PROVE  then(row).service_subcategory_id \in Ids(subcategories') \cup {None}
    <3>1. CASE row.service_subcategory_id \in subs
      BY <3>1, <1>2
    <3>2. CASE row.service_subcategory_id \notin subs
      BY <3>2, <1>1, <1>2, <1>3 DEF FilingShape, Ids
    <3> QED
      BY <3>1, <3>2
  <2>4. \A q \in Requests :
          handling'[q] # None /\ handling'[q].op = "delete" => handling'[q].category \in CategoryIds
    BY <1>1 DEF FilingShape
  <2> QED
    BY <2>1, <2>2, <2>3, <2>4, <1>1, <1>5 DEF FilingShape
<1>7. FilingStands'
  <2> SUFFICES ASSUME NEW row \in tasks', ~ filed[row.id].raced
               PROVE  /\ \A q \in Requests : ~ Deletes(q, filed[row.id].category)'
                      /\ filed[row.id].parent = filed[row.id].category =>
                           \A s \in subcategories' : s.id = filed[row.id].sub =>
                             s.category_id = filed[row.id].category
    BY <1>1 DEF FilingStands
  <2>1. PICK old \in tasks : row.id = old.id
    BY <1>1, <1>2
  <2> QED
    BY <2>1, <1>1, <1>5 DEF FilingStands
\* Nobody deletes what a task is filed under, unless its filing was raced.
<1>8. HistoryKept'
  <2> SUFFICES ASSUME NEW row \in tasks', ~ filed[row.id].raced
               PROVE  /\ row.service_category_id = filed[row.id].category
                      /\ row.service_subcategory_id = filed[row.id].sub
                           \/ filed[row.id].parent # filed[row.id].category
    BY <1>1 DEF HistoryKept
  <2>1. PICK old \in tasks : row = then(old)
    BY <1>1
  <2>2. row.id = old.id
    BY <2>1, <1>2
  <2>3. /\ old.service_category_id = filed[old.id].category
        /\ old.service_subcategory_id = filed[old.id].sub
             \/ filed[old.id].parent # filed[old.id].category
        /\ filed[old.id].category # c
    BY <2>2, <1>1 DEF HistoryKept, FilingStands
  <2>4. row.service_category_id = filed[row.id].category
    BY <2>1, <2>2, <2>3, <1>2
  <2>5. ASSUME filed[row.id].parent = filed[row.id].category
        PROVE  row.service_subcategory_id = filed[row.id].sub
    <3>1. filed[old.id].sub \notin subs
      <4> SUFFICES ASSUME filed[old.id].sub \in subs PROVE FALSE
        OBVIOUS
      <4>1. PICK s \in subcategories : s.id = filed[old.id].sub /\ s.category_id = c
        BY DEF subs
      <4> QED
        BY <4>1, <2>2, <2>3, <2>5 DEF FilingStands
    <3> QED
      BY <3>1, <2>1, <2>2, <2>3, <2>5, <1>2
  <2> QED
    BY <2>4, <2>5
<1> QED
  BY <1>6, <1>7, <1>8

\* What editors of the taxonomy delete is nothing that a task is filed under.
LEMMA TaxonomyPreserves == ServicesInvariant /\ TaxonomyNext => ServicesInvariant'
<1> SUFFICES ASSUME ServicesInvariant, TaxonomyNext PROVE ServicesInvariant'
  OBVIOUS
<1>1. ASSUME NEW row \in Region, SaveRegion(row)
      PROVE  ServicesInvariant'
  BY <1>1, FilingUntouched DEF SaveRegion, Elsewhere
<1>2. ASSUME NEW row \in regions, DeleteRegion(row)
      PROVE  ServicesInvariant'
  BY <1>2, FilingUntouched DEF DeleteRegion
<1>3. ASSUME NEW row \in Category, SaveCategory(row)
      PROVE  ServicesInvariant'
  BY <1>3, FilingUntouched DEF SaveCategory, Elsewhere
<1>4. ASSUME NEW row \in categories, ArchiveCategory(row) \/ RestoreCategory(row)
      PROVE  ServicesInvariant'
  BY <1>4, FilingUntouched DEF ArchiveCategory, RestoreCategory, Elsewhere
<1>5. ASSUME NEW row \in Subcategory, SaveSubcategory(row)
      PROVE  ServicesInvariant'
  <2>1. /\ subcategories' = {other \in subcategories : other.id # row.id} \cup {row}
        /\ UNCHANGED <<tasks, filed, handling>>
    BY <1>5 DEF SaveSubcategory, Elsewhere
  <2>2. \A old \in subcategories : old.id = row.id => old.category_id = row.category_id
    BY <1>5 DEF SaveSubcategory, Ids, ServicesInvariant, FilingShape, OneEach
  <2> QED
    BY <2>1, <2>2, SubcategoriesChange
<1>6. ASSUME NEW row \in subcategories, ArchiveSubcategory(row)
      PROVE  ServicesInvariant'
  BY <1>6, ArchiveSubcategoryPreserves
<1>7. ASSUME NEW row \in Detail, CreateDetail(row)
      PROVE  ServicesInvariant'
  BY <1>7, FilingUntouched DEF CreateDetail, Elsewhere
<1>8. ASSUME NEW row \in details, DeleteDetail(row)
      PROVE  ServicesInvariant'
  BY <1>8, FilingUntouched DEF DeleteDetail, Elsewhere
<1>9. ASSUME NEW r \in Requests, NEW row \in Availability, BeginTick(r, row)
      PROVE  ServicesInvariant'
  <2>1. PICK found : handling' = [handling EXCEPT ![r] = [op |-> "tick", row |-> row, found |-> found]]
    BY <1>9 DEF BeginTick
  <2>2. UNCHANGED <<subcategories, tasks, filed>>
    BY <1>9 DEF BeginTick, Elsewhere, taxonomyVars
  <2> QED
    BY <2>1, <2>2, HandlingSlotChanges
<1>10. ASSUME NEW r \in Requests, CommitTick(r)
       PROVE  ServicesInvariant'
  BY <1>10, HandlingSlotChanges DEF CommitTick, Elsewhere
<1>11. ASSUME NEW r \in Requests, AbortHandling(r)
       PROVE  ServicesInvariant'
  BY <1>11, HandlingSlotChanges DEF AbortHandling, Elsewhere, taxonomyVars
<1> QED
  BY <1>1, <1>2, <1>3, <1>4, <1>5, <1>6, <1>7, <1>8, <1>9, <1>10, <1>11 DEF TaxonomyNext

LEMMA NextServices ==
  ServicesInvariant /\ [ServicesNext]_servicesVars => ServicesInvariant'
<1> SUFFICES ASSUME ServicesInvariant, [ServicesNext]_servicesVars PROVE ServicesInvariant'
  OBVIOUS
<1>1. CASE TaxonomyNext
  BY <1>1, TaxonomyPreserves
<1>2. ASSUME NEW t \in TaskIds, NEW c \in CategoryIds \cup {None}, NEW s \in SubIds \cup {None},
             FileTask(t, c, s)
      PROVE  ServicesInvariant'
  BY <1>2, FileTaskPreserves
<1>3. ASSUME NEW r \in Requests, NEW c \in CategoryIds, BeginDeletion(r, c)
      PROVE  ServicesInvariant'
  <2>1. /\ handling' = [handling EXCEPT ![r] = [op |-> "delete", category |-> c]]
        /\ \A row \in tasks : row.service_category_id # c
        /\ UNCHANGED <<subcategories, tasks, filed>>
    BY <1>3 DEF BeginDeletion, Elsewhere, taxonomyVars
  <2> QED
    BY <2>1, HandlingSlotChanges
<1>4. ASSUME NEW r \in Requests, CommitDeletion(r)
      PROVE  ServicesInvariant'
  BY <1>4, CommitDeletionPreserves
<1>5. ASSUME NEW r \in Requests, NEW client \in ServedClients, NEW wanted \in SUBSET CategoryIds,
             BeginEngagement(r, client, wanted)
      PROVE  ServicesInvariant'
  <2>1. /\ handling' = [handling EXCEPT ![r] = [op |-> "engage", client |-> client,
                          wanted |-> wanted, found |-> EngagedFor(client)]]
        /\ UNCHANGED <<subcategories, tasks, filed>>
    BY <1>5 DEF BeginEngagement, Elsewhere, taxonomyVars
  <2> QED
    BY <2>1, HandlingSlotChanges
<1>6. ASSUME NEW r \in Requests, CommitEngagement(r)
      PROVE  ServicesInvariant'
  BY <1>6, HandlingSlotChanges DEF CommitEngagement, taxonomyVars
<1>7. CASE UNCHANGED servicesVars
  BY <1>7, FilingUntouched DEF servicesVars, taxonomyVars
<1> QED
  BY <1>1, <1>2, <1>3, <1>4, <1>5, <1>6, <1>7 DEF ServicesNext

\* archive_category and the foreign keys of tasks: a task stays under what it was
\* last filed under, for every taxonomy, whatever editors do to it meanwhile.
THEOREM TaskHistoryKept == ServicesSpec => []HistoryKept
<1>1. ServicesInvariant => HistoryKept
  BY DEF ServicesInvariant
<1> QED
  BY <1>1, InitServices, NextServices, PTL DEF ServicesSpec

\* A table in which a row is new, or takes the place of the one with its id.
LEMMA RowSaved ==
  ASSUME NEW rows, NEW S, NEW row \in S, NEW saved,
         rows \subseteq S, OneEach(rows),
         saved = {other \in rows : other.id # row.id} \cup {row}
  PROVE  saved \subseteq S /\ OneEach(saved) /\ Ids(rows) \subseteq Ids(saved)
  BY DEF OneEach, Ids

\* The references to categories and to regions that a deletion cascades along.
LEMMA CascadesOfDeletion ==
  /\ Rule("service_details", "category_id") = "CASCADE"
  /\ Rule("service_region_availability", "category_id") = "CASCADE"
  /\ Rule("service_region_availability", "region_id") = "CASCADE"
  /\ Rule("client_services", "category_id") = "CASCADE"
<1>1. /\ Cascade("service_details", "category_id", "service_categories") \in References
      /\ Cascade("service_region_availability", "category_id", "service_categories") \in References
      /\ Cascade("service_region_availability", "region_id", "regions") \in References
      /\ Cascade("client_services", "category_id", "service_categories") \in References
  BY DEF References, FormReferences, ClientServicesReferences
<1>2. \A a, b, c : /\ Cascade(a, b, c).child = a /\ Cascade(a, b, c).column = b
                   /\ Cascade(a, b, c).rule = "CASCADE"
  BY DEF Cascade
<1> QED
  BY <1>1, <1>2, RuleOfReference

LEMMA InitTables == ServicesInit => ServicesTypeOK
<1> SUFFICES ASSUME ServicesInit PROVE ServicesTypeOK
  OBVIOUS
<1> QED
  BY ServicesAssumption, SeedsAssumption DEF ServicesInit, ServicesTypeOK, OneEach

\* Editors add and change rows of the taxonomy, which refer to categories there are.
LEMMA TablesGrow ==
  ASSUME ServicesTypeOK,
         regions' \subseteq Region, OneEach(regions'), Ids(regions) \subseteq Ids(regions'),
         categories' \subseteq Category, OneEach(categories'),
         Ids(categories) \subseteq Ids(categories'),
         subcategories' \subseteq Subcategory, OneEach(subcategories'),
         Ids(subcategories) \subseteq Ids(subcategories'),
         details' \subseteq Detail, OneEach(details'),
         \A row \in subcategories' \cup details' : row.category_id \in Ids(categories),
         UNCHANGED <<availability, tasks, clientServices, handling>>
  PROVE  ServicesTypeOK'
<1>1. /\ Ids(regions') = Ids(regions)' /\ Ids(categories') = Ids(categories)'
      /\ Ids(subcategories') = Ids(subcategories)'
  BY DEF Ids
<1>2. \A row \in (subcategories \cup details \cup availability \cup clientServices)' :
        row.category_id \in Ids(categories)'
  BY <1>1 DEF ServicesTypeOK
<1>3. /\ \A link \in availability' : link.region_id \in Ids(regions)'
      /\ \A row \in tasks' :
           /\ row.service_category_id \in Ids(categories)' \cup {None}
           /\ row.service_subcategory_id \in Ids(subcategories)' \cup {None}
  BY <1>1 DEF ServicesTypeOK
<1> QED
  BY <1>2, <1>3 DEF ServicesTypeOK, OneEach

LEMMA EditorsKeepTables ==
  ASSUME ServicesTypeOK,
         \/ \E row \in Region : SaveRegion(row)
         \/ \E row \in Category : SaveCategory(row)
         \/ \E row \in categories : ArchiveCategory(row) \/ RestoreCategory(row)
         \/ \E row \in Subcategory : SaveSubcategory(row)
         \/ \E row \in subcategories : ArchiveSubcategory(row)
         \/ \E row \in Detail : CreateDetail(row)
         \/ \E row \in details : DeleteDetail(row)
  PROVE  ServicesTypeOK'
<1>1. /\ regions \subseteq Region /\ OneEach(regions)
      /\ categories \subseteq Category /\ OneEach(categories)
      /\ subcategories \subseteq Subcategory /\ OneEach(subcategories)
      /\ details \subseteq Detail /\ OneEach(details)
      /\ \A row \in subcategories \cup details : row.category_id \in Ids(categories)
  BY DEF ServicesTypeOK
<1>2. ASSUME NEW row \in Region, SaveRegion(row)
      PROVE  ServicesTypeOK'
  <2>1. /\ regions' = {other \in regions : other.id # row.id} \cup {row}
        /\ UNCHANGED <<categories, subcategories, details, availability, handling,
                       tasks, clientServices>>
    BY <1>2 DEF SaveRegion, Elsewhere
  <2>2. /\ regions' \subseteq Region /\ OneEach(regions') /\ Ids(regions) \subseteq Ids(regions')
    BY <1>1, <2>1, RowSaved, SMTT(30)
  <2> QED
    BY <1>1, <2>1, <2>2, TablesGrow
<1>3. ASSUME NEW row \in Category, SaveCategory(row)
      PROVE  ServicesTypeOK'
  <2>1. /\ categories' = {other \in categories : other.id # row.id} \cup {row}
        /\ UNCHANGED <<regions, subcategories, details, availability, handling,
                       tasks, clientServices>>
    BY <1>3 DEF SaveCategory, Elsewhere
  <2>2. /\ categories' \subseteq Category /\ OneEach(categories')
        /\ Ids(categories) \subseteq Ids(categories')
    BY <1>1, <2>1, RowSaved
  <2> QED
    BY <1>1, <2>1, <2>2, TablesGrow
<1>4. ASSUME NEW row \in categories, NEW new \in Category, new.id = row.id,
             categories' = (categories \ {row}) \cup {new},
             UNCHANGED <<regions, subcategories, details, availability, handling,
                         tasks, clientServices>>
      PROVE  ServicesTypeOK'
  <2>1. /\ categories' \subseteq Category /\ OneEach(categories')
        /\ Ids(categories) \subseteq Ids(categories')
    BY <1>1, <1>4 DEF OneEach, Ids
  <2> QED
    BY <1>1, <1>4, <2>1, TablesGrow
<1>5. ASSUME NEW row \in categories, ArchiveCategory(row) \/ RestoreCategory(row)
      PROVE  ServicesTypeOK'
  <2>1. row \in Category
    BY <1>1
  <2>2. Archived(row) \in Category /\ Archived(row).id = row.id
    BY <2>1 DEF Archived, Category
  <2>3. [row EXCEPT !.is_archived = FALSE] \in Category /\ [row EXCEPT !.is_archived = FALSE].id = row.id
    BY <2>1 DEF Category
  <2> QED
    BY <1>4, <1>5, <2>2, <2>3 DEF ArchiveCategory, RestoreCategory, Elsewhere
<1>6. ASSUME NEW row \in Subcategory, SaveSubcategory(row)
      PROVE  ServicesTypeOK'
  <2>1. /\ subcategories' = {other \in subcategories : other.id # row.id} \cup {row}
        /\ row.category_id \in Ids(categories)
        /\ UNCHANGED <<regions, categories, details, availability, handling,
                       tasks, clientServices>>
    BY <1>6 DEF SaveSubcategory, Elsewhere
  <2>2. /\ subcategories' \subseteq Subcategory /\ OneEach(subcategories')
        /\ Ids(subcategories) \subseteq Ids(subcategories')
    BY <1>1, <2>1, RowSaved
  <2>3. \A s \in subcategories' \cup details' : s.category_id \in Ids(categories)
    BY <1>1, <2>1
  <2> QED
    BY <1>1, <2>1, <2>2, <2>3, TablesGrow
<1>7. ASSUME NEW row \in subcategories, ArchiveSubcategory(row)
      PROVE  ServicesTypeOK'
  <2>1. row \in Subcategory /\ row.category_id \in Ids(categories)
    BY <1>1
  <2>2. /\ Archived(row) \in Subcategory /\ Archived(row).id = row.id
        /\ Archived(row).category_id = row.category_id
    BY <2>1 DEF Archived, Subcategory
  <2>3. /\ subcategories' = (subcategories \ {row}) \cup {Archived(row)}
        /\ UNCHANGED <<regions, categories, details, availability, handling,
                       tasks, clientServices>>
    BY <1>7 DEF ArchiveSubcategory, Elsewhere
  <2>4. /\ subcategories' \subseteq Subcategory /\ OneEach(subcategories')
        /\ Ids(subcategories) \subseteq Ids(subcategories')
    BY <1>1, <2>2, <2>3 DEF OneEach, Ids
  <2>5. \A s \in subcategories' \cup details' : s.category_id \in Ids(categories)
    BY <1>1, <2>1, <2>2, <2>3
  <2> QED
    BY <1>1, <2>3, <2>4, <2>5, TablesGrow
<1>8. ASSUME NEW row \in Detail, CreateDetail(row)
      PROVE  ServicesTypeOK'
  <2>1. /\ details' = details \cup {row} /\ row.id \notin Ids(details)
        /\ row.category_id \in Ids(categories)
        /\ UNCHANGED <<regions, categories, subcategories, availability, handling,
                       tasks, clientServices>>
    BY <1>8 DEF CreateDetail, Elsewhere
  <2>2. details' \subseteq Detail /\ OneEach(details')
    BY <1>1, <2>1 DEF OneEach, Ids
  <2>3. \A s \in subcategories' \cup details' : s.category_id \in Ids(categories)
    BY <1>1, <2>1
  <2> QED
    BY <1>1, <2>1, <2>2, <2>3, TablesGrow
<1>9. ASSUME NEW row \in details, DeleteDetail(row)
      PROVE  ServicesTypeOK'
  <2>1. /\ details' = details \ {row}
        /\ UNCHANGED <<regions, categories, subcategories, availability, handling,
                       tasks, clientServices>>
    BY <1>9 DEF DeleteDetail, Elsewhere
  <2>2. /\ details' \subseteq Detail /\ OneEach(details')
        /\ \A s \in subcategories' \cup details' : s.category_id \in Ids(categories)
    BY <1>1, <2>1 DEF OneEach
  <2> QED
    BY <1>1, <2>1, <2>2, TablesGrow
<1> QED
  BY <1>2, <1>3, <1>5, <1>6, <1>7, <1>8, <1>9

\* What is done to a region or a category leaves the cells of the others.
LEMMA RegionDeleted ==
  ASSUME ServicesTypeOK, NEW row \in regions, DeleteRegion(row)
  PROVE  ServicesTypeOK'
<1>1. /\ regions' = regions \ {row}
      /\ availability' = {link \in availability : link.region_id # row.id}
      /\ UNCHANGED <<categories, subcategories, details, tasks, clientServices, handling>>
  BY CascadesOfDeletion DEF DeleteRegion, AfterDelete
<1>2. \A link \in availability' : link.region_id \in Ids(regions')
  <2> SUFFICES ASSUME NEW link \in availability'
               PROVE  link.region_id \in Ids(regions')
    OBVIOUS
  <2>1. PICK other \in regions : other.id = link.region_id
    BY <1>1 DEF ServicesTypeOK, Ids
  <2> QED
    BY <1>1, <2>1 DEF Ids
<1> QED
  BY <1>1, <1>2 DEF ServicesTypeOK, OneEach, Ids

\* The request in a slot moves on, or ends, and has written nothing.
LEMMA SlotKeepsTables ==
  ASSUME ServicesTypeOK, NEW r \in Requests,
         NEW h \in Tick \cup Deletion \cup Engagement \cup {None},
         handling' = [handling EXCEPT ![r] = h],
         UNCHANGED <<taxonomyVars, tasks, clientServices>>
  PROVE  ServicesTypeOK'
  BY DEF ServicesTypeOK, OneEach, Ids, taxonomyVars

\* A cell is inserted for a category and a region there are, or changes in place.
LEMMA CommitTickKeepsTables ==
  ASSUME ServicesTypeOK, NEW r \in Requests, CommitTick(r)
  PROVE  ServicesTypeOK'
<1> DEFINE row == handling[r].row
           found == handling[r].found
<1>1. /\ row \in Availability /\ found \in Availability \cup {None}
      /\ handling' = [handling EXCEPT ![r] = None]
      /\ UNCHANGED <<regions, categories, subcategories, details, tasks, clientServices>>
  BY DEF CommitTick, Elsewhere, ServicesTypeOK, Tick, Deletion, Engagement
<1>2. ASSUME availability' \subseteq Availability,
             \A link, other \in availability' :
               link.category_id = other.category_id /\ link.region_id = other.region_id => link = other,
             \A link \in availability' :
               link.category_id \in Ids(categories) /\ link.region_id \in Ids(regions)
      PROVE  ServicesTypeOK'
  BY <1>1, <1>2 DEF ServicesTypeOK, OneEach, Ids
<1>3. CASE found = None
  <2>1. /\ row.category_id \in Ids(categories) /\ row.region_id \in Ids(regions)
        /\ Cell(row.category_id, row.region_id) = {}
        /\ availability' = availability \cup {row}
    BY <1>3 DEF CommitTick
  <2> HIDE DEF row, found
  <2> QED
    BY <1>1, <1>2, <2>1 DEF ServicesTypeOK, Cell
<1>4. CASE found # None
  <2>1. PICK now \in Cell(row.category_id, row.region_id) :
          availability' = (availability \ {now}) \cup
            {[now EXCEPT !.is_offered = Written(@, found.is_offered, row.is_offered),
                         !.name_override = Written(@, found.name_override, row.name_override)]}
    BY <1>4 DEF CommitTick
  <2> DEFINE new == [now EXCEPT !.is_offered = Written(@, found.is_offered, row.is_offered),
                         !.name_override = Written(@, found.name_override, row.name_override)]
  <2>2. now \in availability /\ now \in Availability
    BY DEF ServicesTypeOK, Cell
  <2>3. /\ new \in Availability
        /\ new.category_id = now.category_id /\ new.region_id = now.region_id
    BY <1>1, <2>2 DEF Availability, Written
  <2>4. availability' = (availability \ {now}) \cup {new}
    BY <2>1
  <2> HIDE DEF new, row, found
  <2>5. availability' \subseteq Availability
    BY <2>3, <2>4 DEF ServicesTypeOK
  <2>6. \A link \in availability' :
          link.category_id \in Ids(categories) /\ link.region_id \in Ids(regions)
    BY <2>2, <2>3, <2>4 DEF ServicesTypeOK
  <2>7. \A link, other \in availability' :
          link.category_id = other.category_id /\ link.region_id = other.region_id => link = other
    BY <2>2, <2>3, <2>4 DEF ServicesTypeOK
  <2> QED
    BY <1>2, <2>5, <2>6, <2>7
<1> QED
  BY <1>3, <1>4

LEMMA TaxonomyKeepsTables ==
  ASSUME ServicesTypeOK, TaxonomyNext
  PROVE  ServicesTypeOK'
<1>1. ASSUME NEW r \in Requests, NEW row \in Availability, BeginTick(r, row)
      PROVE  ServicesTypeOK'
  <2>1. PICK found \in Availability \cup {None} :
          handling' = [handling EXCEPT ![r] = [op |-> "tick", row |-> row, found |-> found]]
    BY <1>1 DEF BeginTick, Cell, ServicesTypeOK
  <2>2. [op |-> "tick", row |-> row, found |-> found] \in Tick
    BY DEF Tick
  <2> QED
    BY <1>1, <2>1, <2>2, SlotKeepsTables DEF BeginTick, Elsewhere
<1>2. ASSUME NEW r \in Requests, AbortHandling(r)
      PROVE  ServicesTypeOK'
  BY <1>2, SlotKeepsTables DEF AbortHandling, Elsewhere
<1> QED
  BY <1>1, <1>2, EditorsKeepTables, RegionDeleted, CommitTickKeepsTables DEF TaxonomyNext

\* A task is filed under what there is.
LEMMA FileTaskKeepsTables ==
  ASSUME ServicesTypeOK, NEW t \in TaskIds, NEW c \in CategoryIds \cup {None},
         NEW s \in SubIds \cup {None}, FileTask(t, c, s)
  PROVE  ServicesTypeOK'
<1> DEFINE row == [id |-> t, service_category_id |-> c, service_subcategory_id |-> s]
<1>1. /\ tasks' = {other \in tasks : other.id # row.id} \cup {row}
      /\ c \in Ids(categories) \cup {None} /\ s \in Ids(subcategories) \cup {None}
      /\ UNCHANGED <<taxonomyVars, clientServices, handling>>
  BY DEF FileTask
<1>2. row \in TaskRow
  BY DEF TaskRow
<1>3. row.id = t
  OBVIOUS
<1> HIDE DEF row
<1>4. tasks' \subseteq TaskRow /\ OneEach(tasks')
  BY <1>1, <1>2, RowSaved DEF ServicesTypeOK
<1>5. \A other \in tasks' : other \in tasks \/ other = row
  BY <1>1
<1>6. row.service_category_id = c /\ row.service_subcategory_id = s
  BY DEF row
<1> QED
  BY <1>1, <1>4, <1>5, <1>6 DEF ServicesTypeOK, OneEach, Ids, taxonomyVars

\* The rows of a category that is deleted go, and the tasks forget what has gone.
LEMMA CommitDeletionKeepsTables ==
  ASSUME ServicesTypeOK, NEW r \in Requests, CommitDeletion(r)
  PROVE  ServicesTypeOK'
<1> DEFINE c == handling[r].category
           subs == {row.id : row \in {s \in subcategories : s.category_id \in {c}}}
           forget(row, column, gone) ==
             IF row[column] \in gone THEN [row EXCEPT ![column] = None] ELSE row
           first(row) == forget(row, "service_category_id", {c})
           then(row) == forget(first(row), "service_subcategory_id", subs)
<1>1. /\ categories' = {row \in categories : row.id # c}
      /\ subcategories' = {row \in subcategories : row.category_id # c}
      /\ details' = {row \in details : row.category_id # c}
      /\ availability' = {row \in availability : row.category_id # c}
      /\ clientServices' = {row \in clientServices : row.category_id # c}
      /\ handling' = [handling EXCEPT ![r] = None]
      /\ UNCHANGED regions
  BY RulesOfDeletion, CascadesOfDeletion DEF CommitDeletion, AfterDelete
<1>2. tasks' = {then(row) : row \in tasks}
  <2>1. tasks' = AfterDelete("tasks", "service_subcategory_id",
                   AfterDelete("tasks", "service_category_id", tasks, {c}), subs)
    BY DEF CommitDeletion
  <2>2. AfterDelete("tasks", "service_category_id", tasks, {c}) = {first(row) : row \in tasks}
    BY RulesOfDeletion DEF AfterDelete
  <2>3. tasks' = {forget(row, "service_subcategory_id", subs) : row \in {first(x) : x \in tasks}}
    BY <2>1, <2>2, RulesOfDeletion DEF AfterDelete
  <2> DEFINE once == {first(x) : x \in tasks}
  <2>4. \A row : row \in once <=> \E x \in tasks : row = first(x)
    OBVIOUS
  <2>5. tasks' = {forget(row, "service_subcategory_id", subs) : row \in once}
    BY <2>3
  <2> HIDE DEF forget, first, subs, once
  <2> QED
    BY <2>4, <2>5
<1>3. ASSUME NEW row \in tasks
      PROVE  /\ then(row) \in TaskRow /\ then(row).id = row.id
             /\ then(row).service_category_id =
                  IF row.service_category_id = c THEN None ELSE row.service_category_id
             /\ then(row).service_subcategory_id =
                  IF row.service_subcategory_id \in subs THEN None ELSE row.service_subcategory_id
  <2>1. row \in TaskRow
    BY DEF ServicesTypeOK
  <2>2. /\ first(row) \in TaskRow /\ first(row).id = row.id
        /\ first(row).service_category_id =
             IF row.service_category_id = c THEN None ELSE row.service_category_id
        /\ first(row).service_subcategory_id = row.service_subcategory_id
    BY <2>1 DEF TaskRow
  <2> HIDE DEF first, subs
  <2> QED
    BY <2>2 DEF TaskRow
<1>4. \A id : id \in Ids(categories) /\ id # c => id \in Ids(categories')
  BY <1>1 DEF Ids
<1>5. \A id : id \in Ids(subcategories) /\ id \notin subs => id \in Ids(subcategories')
  BY <1>1 DEF Ids
<1> HIDE DEF c, subs, first, then
<1>6. /\ categories' \subseteq Category /\ OneEach(categories')
      /\ subcategories' \subseteq Subcategory /\ OneEach(subcategories')
      /\ details' \subseteq Detail /\ OneEach(details')
      /\ availability' \subseteq Availability /\ clientServices' \subseteq ClientService
      /\ \A link, other \in availability' :
           link.category_id = other.category_id /\ link.region_id = other.region_id => link = other
      /\ handling' \in [Requests -> Tick \cup Deletion \cup Engagement \cup {None}]
      /\ \A link \in availability' : link.region_id \in Ids(regions')
  BY <1>1 DEF ServicesTypeOK, OneEach
<1>7. tasks' \subseteq TaskRow /\ OneEach(tasks')
  <2>1. \A row, other \in tasks : then(row).id = then(other).id => then(row) = then(other)
    BY <1>3 DEF ServicesTypeOK, OneEach
  <2> QED
    BY <1>2, <1>3, <2>1 DEF OneEach
<1>8. \A row \in subcategories' \cup details' \cup availability' \cup clientServices' :
        row.category_id \in Ids(categories')
  BY <1>1, <1>4 DEF ServicesTypeOK
<1>9. \A row \in tasks' :
        /\ row.service_category_id \in Ids(categories') \cup {None}
        /\ row.service_subcategory_id \in Ids(subcategories') \cup {None}
  <2> SUFFICES ASSUME NEW row \in tasks
               PROVE  /\ then(row).service_category_id \in Ids(categories') \cup {None}
                      /\ then(row).service_subcategory_id \in Ids(subcategories') \cup {None}
    BY <1>2
  <2>1. /\ row.service_category_id \in Ids(categories) \cup {None}
        /\ row.service_subcategory_id \in Ids(subcategories) \cup {None}
    BY DEF ServicesTypeOK
  <2> QED
    BY <1>3, <1>4, <1>5, <2>1
<1>10. /\ Ids(regions') = Ids(regions)' /\ Ids(categories') = Ids(categories)'
       /\ Ids(subcategories') = Ids(subcategories)'
       /\ OneEach(categories') = OneEach(categories)'
       /\ OneEach(subcategories') = OneEach(subcategories)'
       /\ OneEach(details') = OneEach(details)' /\ OneEach(tasks') = OneEach(tasks)'
  BY DEF Ids, OneEach
<1>11. regions' \subseteq Region /\ OneEach(regions)'
  BY <1>1 DEF ServicesTypeOK, OneEach
<1> QED
  BY <1>6, <1>7, <1>8, <1>9, <1>10, <1>11 DEF ServicesTypeOK

LEMMA EngagementsKeepTables ==
  ASSUME ServicesTypeOK, NEW r \in Requests,
         \/ \E client \in ServedClients, wanted \in SUBSET CategoryIds :
              BeginEngagement(r, client, wanted)
         \/ CommitEngagement(r)
  PROVE  ServicesTypeOK'
<1>1. ASSUME NEW client \in ServedClients, NEW wanted \in SUBSET CategoryIds,
             BeginEngagement(r, client, wanted)
      PROVE  ServicesTypeOK'
  <2>1. EngagedFor(client) \subseteq CategoryIds
    BY DEF ServicesTypeOK, EngagedFor, ClientService
  <2>2. [op |-> "engage", client |-> client, wanted |-> wanted, found |-> EngagedFor(client)]
          \in Engagement
    BY <2>1 DEF Engagement
  <2> QED
    BY <1>1, <2>2, SlotKeepsTables DEF BeginEngagement, Elsewhere
<1>2. CASE CommitEngagement(r)
  <2> DEFINE h == handling[r]
             added == h.wanted \ h.found
             removed == h.found \ h.wanted
  <2>1. /\ h \in Engagement /\ added \subseteq Ids(categories)
        /\ clientServices' =
             (clientServices \ [client_id: {h.client}, category_id: removed])
               \cup [client_id: {h.client}, category_id: added]
        /\ handling' = [handling EXCEPT ![r] = None]
        /\ UNCHANGED <<taxonomyVars, tasks>>
    BY <1>2 DEF CommitEngagement, ServicesTypeOK, Tick, Deletion, Engagement
  <2>2. h.client \in ServedClients /\ added \subseteq CategoryIds
    BY <2>1 DEF Engagement
  <2> HIDE DEF h, added, removed
  <2>3. \A row \in [client_id: {h.client}, category_id: added] :
          row \in ClientService /\ row.category_id \in Ids(categories)
    BY <2>1, <2>2 DEF ClientService
  <2> QED
    BY <2>1, <2>3 DEF ServicesTypeOK, OneEach, Ids, taxonomyVars
<1> QED
  BY <1>1, <1>2

LEMMA NextTables ==
  ServicesTypeOK /\ [ServicesNext]_servicesVars => ServicesTypeOK'
<1> SUFFICES ASSUME ServicesTypeOK, [ServicesNext]_servicesVars
             PROVE  ServicesTypeOK'
  OBVIOUS
<1>1. CASE UNCHANGED servicesVars
  BY <1>1 DEF servicesVars, taxonomyVars, ServicesTypeOK, OneEach, Ids
<1>2. ASSUME NEW r \in Requests, NEW c \in CategoryIds, BeginDeletion(r, c)
      PROVE  ServicesTypeOK'
  <2>1. [op |-> "delete", category |-> c] \in Deletion
    BY DEF Deletion
  <2> QED
    BY <1>2, <2>1, SlotKeepsTables DEF BeginDeletion, Elsewhere
<1> QED
  BY <1>1, <1>2, TaxonomyKeepsTables, FileTaskKeepsTables, CommitDeletionKeepsTables,
     EngagementsKeepTables
  DEF ServicesNext

\* The foreign and unique keys, with the look-up before the insert of
\* set_availability and the hard deletion of archive_category: however requests
\* overlap, a cell of the grid has one row and nothing refers to a row that is gone.
THEOREM TablesSound == ServicesSpec => []ServicesTypeOK
<1> QED
  BY InitTables, NextTables, PTL DEF ServicesSpec

(***************************************************************************)
(* Enquiries                                                               *)
(***************************************************************************)

\* The catalogue of the form has the page of every service, under the same name
\* and with the same below it.
LEMMA PageInCatalogue ==
  ASSUME OneEach(categories), NEW id, NEW region \in PublishedRegions,
         NEW page \in ServicePage(region, id)
  PROVE  \E market \in EnquiryCatalogue : \E service \in market.services :
           /\ market.country = page.country
           /\ service.name = page.service /\ service.subs = page.subs
<1> DEFINE below(c, r) == {row \in subcategories :
                             /\ row.is_published /\ ~ row.is_archived
                             /\ row.category_id = c
                             /\ <<row.id, r>> \notin Withheld}
           named(rows) == [i \in DOMAIN rows |-> rows[i].name]
           merged(c, r) == Range(MergeSubServices(named(InOrder(below(c, r))), DetailBullets(c)))
           links == {link \in availability : link.is_offered /\ link.category_id \in Ids(LiveCategories)}
           category(link) == CHOOSE c \in categories : c.id = link.category_id
           entry(link) == [name |-> Resolved(category(link), link).name,
                           subs |-> merged(link.category_id, link.region_id)]
           market(r) == [country |-> r.name,
                         services |-> {entry(link) : link \in {x \in links : x.region_id = r.id}}]
<1>1. EnquiryCatalogue = {market(r) : r \in PublishedRegions}
  BY DEF EnquiryCatalogue
<1>2. SubcategoriesForRegion(id, region) = named(InOrder(below(id, region.id)))
  <2> DEFINE shown == {row \in subcategories :
                         /\ row.category_id = id /\ row.is_published /\ ~ row.is_archived
                         /\ <<row.id, region.id>> \notin Withheld}
  <2>1. SubcategoriesForRegion(id, region) = named(InOrder(shown))
    BY DEF SubcategoriesForRegion
  <2>2. shown = below(id, region.id)
    OBVIOUS
  <2> QED
    BY <2>1, <2>2
<1> HIDE DEF merged, named, below
<1>3. PICK service \in ServiceInRegion(region, id) :
        page = [country |-> region.name, service |-> service.name,
                subs |-> merged(id, region.id), elsewhere |-> OtherRegionsOffering(id, region)]
  BY <1>2 DEF ServicePage, merged
<1>4. PICK c \in LiveCategories, link \in availability :
        /\ link.category_id = c.id /\ link.region_id = region.id /\ link.is_offered
        /\ service = Resolved(c, link) /\ service.id = id
  BY DEF ServiceInRegion, ServicesForRegion
<1>5. c.id = id /\ c \in categories /\ c.id \in Ids(LiveCategories)
  BY <1>4 DEF Resolved, LiveCategories, Ids
<1>6. category(link) = c
  BY <1>4, <1>5 DEF OneEach
<1>7. link \in {x \in links : x.region_id = region.id}
  BY <1>4, <1>5
<1> HIDE DEF category, links
<1>8. /\ entry(link).name = page.service /\ entry(link).subs = page.subs
      /\ entry(link) \in market(region).services
  BY <1>3, <1>4, <1>5, <1>6, <1>7
<1> HIDE DEF entry
<1>9. market(region) \in EnquiryCatalogue /\ market(region).country = page.country
  BY <1>1, <1>3
<1> QED
  BY <1>8, <1>9

\* validate_and_clean takes what the page and the form of the moment offer.
LEMMA OfferedIsValid ==
  ASSUME OneEach(categories), NEW visitor, StillOffered(visitor)
  PROVE  \A plain : Valid(visitor.answers, plain)
<1> DEFINE answers == visitor.answers
           cleaned == Cleaned(answers)
           country == Given(cleaned, COUNTRY_FIELD)
           chosen == Given(cleaned, SERVICE_FIELD)
           subs == Given(cleaned, SUB_SERVICE_FIELD)
<1>1. PICK region \in PublishedRegions :
        \E page \in ServicePage(region, visitor.service) : Offers(page, DescribeForm, answers)
  BY DEF StillOffered, GetRegion
<1>2. PICK page \in ServicePage(region, visitor.service) : Offers(page, DescribeForm, answers)
  BY <1>1
<1>3. PICK market \in EnquiryCatalogue : \E service \in market.services :
        /\ market.country = page.country
        /\ service.name = page.service /\ service.subs = page.subs
  BY PageInCatalogue
<1>4. PICK service \in market.services :
        /\ market.country = page.country
        /\ service.name = page.service /\ service.subs = page.subs
  BY <1>3
<1>5. /\ DOMAIN DescribeForm = ActiveFields
      /\ \A key \in ActiveFields :
           /\ DescribeForm[key].is_required = fields[key].is_required
           /\ fields[key].options # None => DescribeForm[key].options = fields[key].options
  BY DEF DescribeForm
<1>6. /\ DOMAIN cleaned = {key \in ActiveFields : answers[key] # {}}
      /\ \A key \in DOMAIN cleaned : cleaned[key] = answers[key]
  BY DEF Cleaned, Restrict
<1>7. \A key \in ActiveFields : fields[key].is_required => key \in DOMAIN cleaned
  BY <1>2, <1>5, <1>6 DEF Offers
<1>8. ASSUME NEW key \in DOMAIN cleaned, fields[key].options # None
      PROVE  cleaned[key] \subseteq fields[key].options
  <2>1. key \in ActiveFields /\ cleaned[key] = answers[key]
    BY <1>6
  <2> QED
    BY <2>1, <1>2, <1>5, <1>8 DEF Offers
<1> HIDE DEF cleaned
<1>9. /\ country \subseteq {page.country} /\ chosen \subseteq {page.service}
      /\ subs \subseteq {page.service} \X page.subs
  BY <1>2, <1>6 DEF Offers, Given
<1> HIDE DEF country, chosen, subs
\* Whichever country was given, the market of the page is among those looked at.
<1>10. market \in Markets(country)
  BY <1>4, <1>9 DEF Markets
<1>11. service \in UNION {m.services : m \in Markets(country)}
  BY <1>4, <1>10
<1>12. page.service \in ServiceOptions(country)
  <2>1. \A s \in UNION {m.services : m \in Markets(country)} : s.name \in ServiceOptions(country)
    BY DEF ServiceOptions
  <2> QED
    BY <2>1, <1>4, <1>11
<1>13. {page.service} \X page.subs \subseteq SubServiceOptions(country, chosen)
  <2> DEFINE all == UNION {m.services : m \in Markets(country)}
             wanted == {s \in all : chosen = {} \/ s.name \in chosen}
  <2>1. SubServiceOptions(country, chosen) = UNION {{s.name} \X s.subs : s \in wanted}
    BY DEF SubServiceOptions
  <2>2. service \in wanted
    BY <1>4, <1>9, <1>11
  <2> HIDE DEF wanted
  <2>3. {service.name} \X service.subs \subseteq UNION {{s.name} \X s.subs : s \in wanted}
    BY <2>2
  <2> QED
    BY <2>1, <2>3, <1>4
<1>14. CheckedAgainstCatalogue(cleaned)
  BY <1>9, <1>12, <1>13 DEF CheckedAgainstCatalogue, country, chosen, subs
<1> QED
  BY <1>7, <1>8, <1>14 DEF Valid, cleaned

LEMMA InitEnquiries == EnquiriesInit => EnquiriesInvariant
  BY ServicesAssumption
  DEF EnquiriesInit, ServicesInit, EnquiriesInvariant, VisitorsShaped, OfferedIsAccepted

\* Archiving or renaming a category leaves it its id.
LEMMA CategoryChanges ==
  ASSUME OneEach(categories), NEW old \in categories, NEW new, new.id = old.id,
         categories' = (categories \ {old}) \cup {new}
  PROVE  OneEach(categories')
  BY DEF OneEach

\* No edit of the taxonomy gives two categories one id.
LEMMA TaxonomyKeepsIds ==
  ASSUME OneEach(categories), TaxonomyNext
  PROVE  OneEach(categories')
<1>1. ASSUME NEW row \in Category, SaveCategory(row)
      PROVE  OneEach(categories')
  BY <1>1 DEF SaveCategory, OneEach
<1>2. ASSUME NEW row \in categories, ArchiveCategory(row)
      PROVE  OneEach(categories')
  <2>1. Archived(row).id = row.id
    BY DEF Archived
  <2> QED
    BY <1>2, <2>1, CategoryChanges DEF ArchiveCategory
<1>3. ASSUME NEW row \in categories, RestoreCategory(row)
      PROVE  OneEach(categories')
  <2>1. [row EXCEPT !.is_archived = FALSE].id = row.id
    OBVIOUS
  <2> QED
    BY <1>3, <2>1, CategoryChanges DEF RestoreCategory
<1>4. CASE UNCHANGED categories
  BY <1>4 DEF OneEach
<1> QED
  BY <1>1, <1>2, <1>3, <1>4
  DEF TaxonomyNext, SaveRegion, DeleteRegion, SaveSubcategory, ArchiveSubcategory,
      CreateDetail, DeleteDetail, BeginTick, CommitTick, AbortHandling, taxonomyVars

\* A step of a visitor v, to a state that does not break the promise.
LEMMA VisitorSteps ==
  ASSUME EnquiriesInvariant, NEW v \in Visitors, NEW region, NEW service, NEW answers,
         NEW outcome, NEW offered, UNCHANGED categories,
         visitors' = [visitors EXCEPT ![v] =
           [region |-> region, service |-> service, answers |-> answers,
            outcome |-> outcome, offered |-> offered]],
         outcome = "refused" => ~ offered
  PROVE  EnquiriesInvariant'
<1> DEFINE visitor == [region |-> region, service |-> service, answers |-> answers,
                       outcome |-> outcome, offered |-> offered]
<1>1. /\ visitors'[v] = visitor /\ DOMAIN visitors' = Visitors
      /\ \A w \in Visitors \ {v} : visitors'[w] = visitors[w]
  BY DEF EnquiriesInvariant, VisitorsShaped
<1>2. /\ visitor = [region |-> visitor.region, service |-> visitor.service,
                    answers |-> visitor.answers, outcome |-> visitor.outcome,
                    offered |-> visitor.offered]
      /\ visitor.outcome = outcome /\ visitor.offered = offered
  OBVIOUS
<1> HIDE DEF visitor
<1>3. OfferedIsAccepted'
  BY <1>1, <1>2 DEF EnquiriesInvariant, VisitorsShaped, OfferedIsAccepted
<1>4. \A w \in Visitors : visitors'[w] # None =>
        visitors'[w] = [region |-> visitors'[w].region, service |-> visitors'[w].service,
                        answers |-> visitors'[w].answers, outcome |-> visitors'[w].outcome,
                        offered |-> visitors'[w].offered]
  <2> TAKE w \in Visitors
  <2>1. CASE w = v
    BY <2>1, <1>1, <1>2
  <2>2. CASE w # v
    BY <2>2, <1>1 DEF EnquiriesInvariant, VisitorsShaped
  <2> QED
    BY <2>1, <2>2
<1>5. OneEach(categories)'
  BY DEF EnquiriesInvariant, VisitorsShaped, OneEach
<1> QED
  BY <1>1, <1>3, <1>4, <1>5 DEF EnquiriesInvariant, VisitorsShaped

\* What is refused was not valid, and what is still offered is.
LEMMA SubmitPreserves ==
  ASSUME EnquiriesInvariant, NEW v \in Visitors, NEW outcome, Submit(v, outcome)
  PROVE  EnquiriesInvariant'
<1> DEFINE visitor == visitors[v]
           offered == StillOffered(visitor)
<1>1. /\ visitors[v] # None
      /\ outcome = "refused" => \E plain : ~ Valid(visitor.answers, plain)
      /\ visitors' = [visitors EXCEPT ![v] = [visitor EXCEPT !.outcome = outcome, !.offered = offered]]
      /\ UNCHANGED categories
  BY DEF Submit, servicesVars, taxonomyVars
<1>2. PICK region, service, answers, before, old :
        visitor = [region |-> region, service |-> service, answers |-> answers,
                   outcome |-> before, offered |-> old]
  BY <1>1 DEF EnquiriesInvariant, VisitorsShaped
<1>3. outcome = "refused" => ~ offered
  BY <1>1, OfferedIsValid DEF EnquiriesInvariant, VisitorsShaped
<1> HIDE DEF offered, visitor
<1>4. [visitor EXCEPT !.outcome = outcome, !.offered = offered] =
        [region |-> region, service |-> service, answers |-> answers,
         outcome |-> outcome, offered |-> offered]
  <2> DEFINE sent == [visitor EXCEPT !.outcome = outcome]
  <2>1. [visitor EXCEPT !.outcome = outcome, !.offered = offered] = [sent EXCEPT !.offered = offered]
    BY Zenon
  <2>2. sent = [region |-> region, service |-> service, answers |-> answers,
                outcome |-> outcome, offered |-> old]
    BY <1>2
  <2> HIDE DEF sent
  <2> QED
    BY <2>1, <2>2
<1>5. visitors' = [visitors EXCEPT ![v] =
        [region |-> region, service |-> service, answers |-> answers,
         outcome |-> outcome, offered |-> offered]]
  BY <1>1, <1>4
<1>6. UNCHANGED categories
  BY <1>1
<1> QED
  BY <1>3, <1>5, <1>6, VisitorSteps

LEMMA NextEnquiries ==
  EnquiriesInvariant /\ [EnquiriesNext]_enquiriesVars => EnquiriesInvariant'
<1> SUFFICES ASSUME EnquiriesInvariant, [EnquiriesNext]_enquiriesVars
             PROVE  EnquiriesInvariant'
  OBVIOUS
<1>1. ASSUME UNCHANGED visitors, OneEach(categories')
      PROVE  EnquiriesInvariant'
  BY <1>1 DEF EnquiriesInvariant, VisitorsShaped, OfferedIsAccepted, OneEach
<1>2. CASE TaxonomyNext /\ UNCHANGED <<fields, visitors, enquiries>>
  BY <1>1, <1>2, TaxonomyKeepsIds DEF EnquiriesInvariant, VisitorsShaped
<1>3. ASSUME NEW v \in Visitors, NEW region \in PublishedRegions, NEW service \in CategoryIds,
             OpenPage(v, region, service)
      PROVE  EnquiriesInvariant'
  <2>1. PICK answers :
          visitors' = [visitors EXCEPT ![v] =
            [region |-> region.id, service |-> service, answers |-> answers,
             outcome |-> None, offered |-> FALSE]]
    BY <1>3 DEF OpenPage
  <2>2. UNCHANGED categories
    BY <1>3 DEF OpenPage, servicesVars, taxonomyVars
  <2> QED
    BY <2>1, <2>2, VisitorSteps
<1>4. ASSUME NEW v \in Visitors, NEW outcome \in {"stored", "refused", "throttled"},
             Submit(v, outcome)
      PROVE  EnquiriesInvariant'
  BY <1>4, SubmitPreserves
<1>5. ASSUME UNCHANGED <<categories, visitors>>
      PROVE  EnquiriesInvariant'
  BY <1>1, <1>5 DEF EnquiriesInvariant, VisitorsShaped, OneEach
<1>6. ASSUME NEW i \in DOMAIN enquiries, NEW handled \in BOOLEAN, UpdateEnquiry(i, handled)
      PROVE  EnquiriesInvariant'
  BY <1>5, <1>6 DEF UpdateEnquiry, servicesVars, taxonomyVars
<1>7. ASSUME FieldsEdited
      PROVE  EnquiriesInvariant'
  BY <1>5, <1>7 DEF FieldsEdited, taxonomyVars
<1>8. ASSUME NEW key, NEW newKey, NEW row,
             CreateField(key, row) \/ UpdateField(key, newKey, row) \/ DeactivateField(key)
      PROVE  EnquiriesInvariant'
  BY <1>7, <1>8 DEF CreateField, UpdateField, DeactivateField
<1>9. CASE UNCHANGED enquiriesVars
  BY <1>5, <1>9 DEF enquiriesVars, servicesVars, taxonomyVars
<1> QED
  BY <1>2, <1>3, <1>4, <1>6, <1>8, <1>9 DEF EnquiriesNext

\* validate_and_clean against region_service_detail: an enquiry that the page and
\* the form of the moment offer is never refused, whatever is edited meanwhile.
THEOREM OffersAccepted == EnquiriesSpec => []OfferedIsAccepted
<1>1. EnquiriesInvariant => OfferedIsAccepted
  BY DEF EnquiriesInvariant, VisitorsShaped
<1> QED
  BY <1>1, InitEnquiries, NextEnquiries, PTL DEF EnquiriesSpec

LEMMA InitForms == EnquiriesInit => EnquiriesTypeInvariant
<1> SUFFICES ASSUME EnquiriesInit PROVE EnquiriesTypeInvariant
  OBVIOUS
<1>1. ServicesTypeOK
  BY InitTables DEF EnquiriesInit
<1>2. EnquiriesTypeOK /\ VisitorsShaped /\ EnquiriesStored
  BY FormAssumption
  DEF EnquiriesInit, EnquiriesTypeOK, VisitorsShaped, EnquiriesStored
<1> QED
  BY <1>1, <1>2 DEF EnquiriesTypeInvariant

\* The tables of the taxonomy do not depend on the form, nor on who fills it in.
LEMMA TablesUntouched ==
  ASSUME ServicesTypeOK, UNCHANGED <<taxonomyVars, tasks, clientServices, handling>>
  PROVE  ServicesTypeOK'
  BY DEF ServicesTypeOK, OneEach, Ids, taxonomyVars

\* A page is of a region and a service there are, and a form has all the fields.
LEMMA OpenPageKeepsTypes ==
  ASSUME EnquiriesTypeInvariant, NEW v \in Visitors, NEW region \in PublishedRegions,
         NEW service \in CategoryIds, OpenPage(v, region, service)
  PROVE  EnquiriesTypeInvariant'
<1>1. PICK page \in ServicePage(region, service) : \E answers \in Answers(page, DescribeForm) :
        visitors' = [visitors EXCEPT ![v] =
          [region |-> region.id, service |-> service, answers |-> answers,
           outcome |-> None, offered |-> FALSE]]
  BY DEF OpenPage
<1>2. PICK answers \in Answers(page, DescribeForm) :
        visitors' = [visitors EXCEPT ![v] =
          [region |-> region.id, service |-> service, answers |-> answers,
           outcome |-> None, offered |-> FALSE]]
  BY <1>1
<1>3. DOMAIN answers = FieldKeys
  BY DEF Answers
<1>4. region.id \in RegionIds
  BY DEF PublishedRegions, EnquiriesTypeInvariant, ServicesTypeOK, Region
<1>5. UNCHANGED <<taxonomyVars, tasks, clientServices, handling, fields, enquiries>>
  BY DEF OpenPage, servicesVars
<1> DEFINE visitor == [region |-> region.id, service |-> service, answers |-> answers,
                       outcome |-> None, offered |-> FALSE]
<1>6. /\ visitors'[v] = visitor /\ DOMAIN visitors' = Visitors
      /\ \A w \in Visitors \ {v} : visitors'[w] = visitors[w]
  BY <1>2 DEF EnquiriesTypeInvariant, VisitorsShaped
<1>7. EnquiriesTypeOK'
  BY <1>3, <1>4, <1>5, <1>6 DEF EnquiriesTypeInvariant, EnquiriesTypeOK
<1>8. VisitorsShaped'
  BY <1>6 DEF EnquiriesTypeInvariant, VisitorsShaped
<1> QED
  BY <1>5, <1>7, <1>8, TablesUntouched DEF EnquiriesTypeInvariant, EnquiriesStored

\* What is stored is what remains of the answers without the blank ones.
LEMMA SubmitKeepsTypes ==
  ASSUME EnquiriesTypeInvariant, NEW v \in Visitors,
         NEW outcome \in {"stored", "refused", "throttled"}, Submit(v, outcome)
  PROVE  EnquiriesTypeInvariant'
<1> USE DEF EnquiriesTypeInvariant
<1> DEFINE visitor == visitors[v]
           offered == StillOffered(visitor)
           sent == [payload |-> Cleaned(visitor.answers), is_handled |-> FALSE]
<1>1. /\ visitor # None
      /\ visitors' = [visitors EXCEPT ![v] = [visitor EXCEPT !.outcome = outcome, !.offered = offered]]
      /\ \/ outcome = "stored" /\ Len(enquiries) < MaxEnquiries /\ enquiries' = Append(enquiries, sent)
         \/ enquiries' = enquiries
      /\ UNCHANGED <<taxonomyVars, tasks, clientServices, handling, fields>>
  BY DEF Submit, CreateEnquiry, servicesVars
<1>2. {} \notin Range(sent.payload)
  BY DEF Cleaned, Restrict, Range
<1> HIDE DEF offered, sent
<1>3. PICK region, service, answers, before, old :
        visitor = [region |-> region, service |-> service, answers |-> answers,
                   outcome |-> before, offered |-> old]
  BY <1>1 DEF VisitorsShaped
<1> DEFINE once == [visitor EXCEPT !.outcome = outcome]
           then == [once EXCEPT !.offered = offered]
<1>4. visitors' = [visitors EXCEPT ![v] = then]
  BY <1>1, Zenon
<1>5. then = [region |-> region, service |-> service, answers |-> answers,
              outcome |-> outcome, offered |-> offered]
  <2>1. once = [region |-> region, service |-> service, answers |-> answers,
                outcome |-> outcome, offered |-> old]
    BY <1>3
  <2> HIDE DEF once
  <2> QED
    BY <2>1
<1> HIDE DEF then
<1>6. /\ visitors'[v] = then /\ DOMAIN visitors' = Visitors
      /\ \A w \in Visitors \ {v} : visitors'[w] = visitors[w]
  BY <1>4 DEF VisitorsShaped
<1>7. VisitorsShaped'
  BY <1>5, <1>6 DEF VisitorsShaped
<1>8. /\ region \in RegionIds /\ service \in CategoryIds /\ DOMAIN answers = FieldKeys
  BY <1>1, <1>3 DEF EnquiriesTypeOK
<1>9. \A w \in Visitors : visitors'[w] # None =>
       /\ visitors'[w].region \in RegionIds /\ visitors'[w].service \in CategoryIds
       /\ DOMAIN visitors'[w].answers = FieldKeys
       /\ visitors'[w].outcome \in {None, "stored", "refused", "throttled"}
  <2> TAKE w \in Visitors
  <2>1. CASE w = v
    BY <2>1, <1>5, <1>6, <1>8
  <2>2. CASE w # v
    BY <2>2, <1>6 DEF EnquiriesTypeOK
  <2> QED
    BY <2>1, <2>2
<1>10. CASE enquiries' = enquiries
  BY <1>1, <1>7, <1>9, <1>10, TablesUntouched DEF EnquiriesTypeOK, EnquiriesStored
<1>11. CASE Len(enquiries) < MaxEnquiries /\ enquiries' = Append(enquiries, sent)
  <2>1. /\ Len(enquiries) \in Nat /\ DOMAIN enquiries = 1 .. Len(enquiries)
        /\ DOMAIN enquiries' = 1 .. (Len(enquiries) + 1)
        /\ Len(enquiries') = Len(enquiries) + 1
        /\ enquiries'[Len(enquiries) + 1] = sent
        /\ \A i \in DOMAIN enquiries : enquiries'[i] = enquiries[i]
    <3> DEFINE S == Range(enquiries) \cup {sent}
    <3>1. enquiries \in Seq(S) /\ sent \in S
      BY DEF EnquiriesStored
    <3> HIDE DEF S
    <3> QED
      BY <3>1, <1>11
  <2>2. enquiries' \in Seq(Range(enquiries'))
    <3>1. \A i \in 1 .. (Len(enquiries) + 1) : enquiries'[i] \in Range(enquiries')
      BY <2>1 DEF Range
    <3>2. enquiries' = [i \in 1 .. (Len(enquiries) + 1) |-> enquiries'[i]]
      <4> DEFINE S == Range(enquiries) \cup {sent}
      <4>1. enquiries \in Seq(S) /\ sent \in S
        BY DEF EnquiriesStored
      <4> HIDE DEF S
      <4>2. enquiries' \in Seq(S)
        BY <4>1, <1>11
      <4> QED
        BY <4>2, <2>1
    <3> QED
      BY <3>1, <3>2, <2>1
  <2>3. \A i \in DOMAIN enquiries' : i \in DOMAIN enquiries \/ i = Len(enquiries) + 1
    BY <2>1
  <2>4. sent = [payload |-> sent.payload, is_handled |-> sent.is_handled]
    BY DEF sent
  <2>5. EnquiriesStored'
    BY <2>1, <2>2, <2>3, <2>4 DEF EnquiriesStored
  <2>6. /\ Len(enquiries') <= MaxEnquiries
        /\ \A i \in DOMAIN enquiries' : {} \notin Range(enquiries'[i].payload)
    BY <1>2, <1>11, <2>1, <2>3, FormAssumption DEF EnquiriesTypeOK
  <2> QED
    BY <1>1, <1>7, <1>9, <2>5, <2>6, TablesUntouched DEF EnquiriesTypeOK
<1> QED
  BY <1>1, <1>10, <1>11

LEMMA UpdateEnquiryKeepsTypes ==
  ASSUME EnquiriesTypeInvariant, NEW i \in DOMAIN enquiries, NEW handled \in BOOLEAN,
         UpdateEnquiry(i, handled)
  PROVE  EnquiriesTypeInvariant'
<1> USE DEF EnquiriesTypeInvariant
<1> DEFINE new == [enquiries[i] EXCEPT !.is_handled = handled]
<1>1. /\ enquiries' = [enquiries EXCEPT ![i] = new]
      /\ UNCHANGED <<taxonomyVars, tasks, clientServices, handling, fields, visitors>>
  BY DEF UpdateEnquiry, servicesVars
<1>2. new = [payload |-> enquiries[i].payload, is_handled |-> handled]
  BY DEF EnquiriesStored
<1> HIDE DEF new
<1>3. /\ Len(enquiries) \in Nat /\ DOMAIN enquiries = 1 .. Len(enquiries)
      /\ enquiries = [j \in 1 .. Len(enquiries) |-> enquiries[j]]
  BY DEF EnquiriesStored
<1>4. /\ enquiries' = [j \in 1 .. Len(enquiries) |-> enquiries'[j]]
      /\ DOMAIN enquiries' = 1 .. Len(enquiries) /\ enquiries'[i] = new
      /\ \A j \in DOMAIN enquiries \ {i} : enquiries'[j] = enquiries[j]
  BY <1>1, <1>3
<1>5. \A j \in 1 .. Len(enquiries) : enquiries'[j] \in Range(enquiries')
  BY <1>4 DEF Range
<1>6. enquiries' \in Seq(Range(enquiries')) /\ Len(enquiries') = Len(enquiries)
  BY <1>3, <1>4, <1>5
<1>7. EnquiriesStored'
  <2> SUFFICES ASSUME NEW j \in DOMAIN enquiries'
               PROVE  enquiries'[j] = [payload |-> enquiries'[j].payload,
                                       is_handled |-> enquiries'[j].is_handled]
    BY <1>6 DEF EnquiriesStored
  <2>1. CASE j = i
    BY <2>1, <1>2, <1>4
  <2>2. CASE j # i
    BY <2>2, <1>3, <1>4 DEF EnquiriesStored
  <2> QED
    BY <2>1, <2>2
<1>8. \A j \in DOMAIN enquiries' : enquiries'[j].payload = enquiries[j].payload
  BY <1>2, <1>3, <1>4
<1>9. EnquiriesTypeOK'
  BY <1>1, <1>3, <1>4, <1>6, <1>8 DEF EnquiriesTypeOK
<1> QED
  BY <1>1, <1>7, <1>9, TablesUntouched DEF VisitorsShaped

LEMMA FieldsKeepTypes ==
  ASSUME EnquiriesTypeInvariant,
         DOMAIN fields' \subseteq FieldKeys, \A key \in DOMAIN fields' : fields'[key] \in Field,
         UNCHANGED <<taxonomyVars, tasks, clientServices, handling, visitors, enquiries>>
  PROVE  EnquiriesTypeInvariant'
  BY TablesUntouched
  DEF EnquiriesTypeInvariant, EnquiriesTypeOK, VisitorsShaped, EnquiriesStored

LEMMA NextForms ==
  EnquiriesTypeInvariant /\ [EnquiriesNext]_enquiriesVars => EnquiriesTypeInvariant'
<1> SUFFICES ASSUME EnquiriesTypeInvariant, [EnquiriesNext]_enquiriesVars
             PROVE  EnquiriesTypeInvariant'
  OBVIOUS
<1>1. CASE TaxonomyNext /\ UNCHANGED <<fields, visitors, enquiries>>
  <2>1. ServicesTypeOK'
    BY <1>1, TaxonomyKeepsTables DEF EnquiriesTypeInvariant
  <2> QED
    BY <1>1, <2>1 DEF EnquiriesTypeInvariant, EnquiriesTypeOK, VisitorsShaped, EnquiriesStored
<1>2. ASSUME NEW key \in FieldKeys, NEW old \in SUBSET FieldKeys, NEW row \in Field,
             fields' = [k \in (DOMAIN fields \ old) \cup {key} |->
                          IF k = key THEN row ELSE fields[k]],
             FieldsEdited
      PROVE  EnquiriesTypeInvariant'
  <2>1. UNCHANGED <<taxonomyVars, tasks, clientServices, handling, visitors, enquiries>>
    BY <1>2 DEF FieldsEdited
  <2>2. DOMAIN fields' \subseteq FieldKeys /\ \A k \in DOMAIN fields' : fields'[k] \in Field
    BY <1>2 DEF EnquiriesTypeInvariant, EnquiriesTypeOK
  <2> QED
    BY <2>1, <2>2, FieldsKeepTypes
<1>5. ASSUME NEW edit \in FieldEdits, CreateField(edit[1], edit[2])
      PROVE  EnquiriesTypeInvariant'
  <2>1. edit[1] \in FieldKeys /\ edit[2] \in Field
    BY FormAssumption
  <2>2. /\ fields' = [k \in (DOMAIN fields \ {}) \cup {edit[1]} |->
                        IF k = edit[1] THEN edit[2] ELSE fields[k]]
        /\ FieldsEdited
    BY <1>5 DEF CreateField
  <2> QED
    BY <2>1, <2>2, <1>2
<1>6. ASSUME NEW key \in DOMAIN fields, NEW newKey \in FieldKeys, NEW row \in Field,
             UpdateField(key, newKey, row)
      PROVE  EnquiriesTypeInvariant'
  <2>1. {key} \in SUBSET FieldKeys
    BY DEF EnquiriesTypeInvariant, EnquiriesTypeOK
  <2>2. /\ fields' = [k \in (DOMAIN fields \ {key}) \cup {newKey} |->
                        IF k = newKey THEN row ELSE fields[k]]
        /\ FieldsEdited
    BY <1>6 DEF UpdateField
  <2> QED
    BY <2>1, <2>2, <1>2
<1>7. ASSUME NEW key \in DOMAIN fields, NEW edit \in FieldEdits, UpdateField(key, edit[1], edit[2])
      PROVE  EnquiriesTypeInvariant'
  BY <1>6, <1>7, FormAssumption
<1>8. ASSUME NEW key \in DOMAIN fields, NEW newKey \in FieldKeys, UpdateField(key, newKey, fields[key])
      PROVE  EnquiriesTypeInvariant'
  BY <1>6, <1>8 DEF EnquiriesTypeInvariant, EnquiriesTypeOK
<1>3. ASSUME NEW key \in DOMAIN fields, DeactivateField(key)
      PROVE  EnquiriesTypeInvariant'
  <2>1. /\ fields' = [fields EXCEPT ![key] = [fields[key] EXCEPT !.is_active = FALSE]]
        /\ UNCHANGED <<taxonomyVars, tasks, clientServices, handling, visitors, enquiries>>
    BY <1>3 DEF DeactivateField, FieldsEdited
  <2>2. fields[key] \in Field /\ DOMAIN fields \subseteq FieldKeys
    BY DEF EnquiriesTypeInvariant, EnquiriesTypeOK
  <2>3. [fields[key] EXCEPT !.is_active = FALSE] \in Field
    BY <2>2 DEF Field
  <2>4. DOMAIN fields' \subseteq FieldKeys /\ \A k \in DOMAIN fields' : fields'[k] \in Field
    BY <2>1, <2>2, <2>3 DEF EnquiriesTypeInvariant, EnquiriesTypeOK
  <2> QED
    BY <2>1, <2>4, FieldsKeepTypes
<1>4. CASE UNCHANGED enquiriesVars
  BY <1>4, TablesUntouched
  DEF enquiriesVars, servicesVars, EnquiriesTypeInvariant, EnquiriesTypeOK, VisitorsShaped,
      EnquiriesStored
<1> QED
  BY <1>1, <1>3, <1>4, <1>5, <1>7, <1>8, OpenPageKeepsTypes, SubmitKeepsTypes, UpdateEnquiryKeepsTypes
  DEF EnquiriesNext

\* What visitors and editors of the form leave behind has its shape, and so have the
\* tables of the taxonomy underneath - the key of an answer is that of a field, and
\* what is stored of an enquiry is what a form can hold.
THEOREM EnquiriesTypeCorrect == EnquiriesSpec => [](ServicesTypeOK /\ EnquiriesTypeOK)
<1>1. EnquiriesTypeInvariant => ServicesTypeOK /\ EnquiriesTypeOK
  BY DEF EnquiriesTypeInvariant
<1> QED
  BY <1>1, InitForms, NextForms, PTL DEF EnquiriesSpec

(***************************************************************************)
(* Content                                                                 *)
(***************************************************************************)

\* A value that no migration looked at is what the editor wrote.
LEMMA UntouchedByMigrations ==
  ASSUME NEW column, NEW written, NEW n \in Nat \ {0}
  PROVE  MadeByMigrations(column, written, written, n)
<1> DEFINE held == [i \in 1 .. n |-> written]
<1>1. /\ held[1] = written /\ held[n] = written
      /\ \A i \in 2 .. n : held[i] = held[i - 1]
  OBVIOUS
<1>2. ASSUME NEW values, written \in values
      PROVE  held \in [1 .. n -> values]
  BY <1>2
<1> HIDE DEF held
<1> QED
  BY <1>1, <1>2 DEF MadeByMigrations

\* A migration that leaves a value alone, or replaces what it expects to find,
\* makes one more step.
LEMMA MigrationAdds ==
  ASSUME NEW column, NEW written, NEW old, NEW new, NEW n \in Nat \ {0},
         n + 1 \in DOMAIN Releases,
         MadeByMigrations(column, written, old, n),
         \/ new = old
         \/ \E i \in DOMAIN Releases[n + 1].changes :
              LET change == Releases[n + 1].changes[i] IN
                /\ column \in DOMAIN change.new
                /\ new = change.new[column]
                /\ column = change.guard => old = change.old
  PROVE  MadeByMigrations(column, written, new, n + 1)
<1> DEFINE changes(k) == {i \in DOMAIN Releases[k].changes :
                            column \in DOMAIN Releases[k].changes[i].new}
           made == UNION {{Releases[k].changes[i].new[column] : i \in changes(k)} :
                          k \in DOMAIN Releases}
           values == {written} \cup made
           step(k, from, to) ==
             \/ to = from
             \/ \E i \in changes(k) :
                  LET change == Releases[k].changes[i] IN
                    /\ to = change.new[column]
                    /\ column = change.guard => from = change.old
           path(k, f) == /\ f[1] = written
                         /\ \A j \in 2 .. k : step(j, f[j - 1], f[j])
<1>1. PICK f \in [1 .. n -> values] : path(n, f) /\ f[n] = old
  BY Zenon DEF MadeByMigrations
<1>2. step(n + 1, old, new)
  OBVIOUS
<1>3. new \in values
  <2>1. CASE new = old
    BY <2>1, <1>1
  <2>2. ASSUME NEW i \in changes(n + 1), new = Releases[n + 1].changes[i].new[column]
        PROVE  new \in made
    <3> DEFINE sets(k) == {Releases[k].changes[j].new[column] : j \in changes(k)}
    <3>1. new \in sets(n + 1)
      BY <2>2
    <3> HIDE DEF sets
    <3>2. new \in UNION {sets(k) : k \in DOMAIN Releases}
      BY <3>1
    <3> QED
      BY <3>2 DEF sets
  <2> QED
    BY <2>1, <2>2, <1>2
<1> DEFINE g == [k \in 1 .. n + 1 |-> IF k = n + 1 THEN new ELSE f[k]]
<1> HIDE DEF values, step
<1>4. g \in [1 .. n + 1 -> values]
  BY <1>1, <1>3
<1>5. g[n + 1] = new /\ g[1] = written
  BY <1>1
<1>6. ASSUME NEW j \in 2 .. n + 1
      PROVE  step(j, g[j - 1], g[j])
  <2>1. CASE j = n + 1
    <3>1. g[j - 1] = old /\ g[j] = new
      BY <2>1, <1>1
    <3> QED
      BY <3>1, <2>1, <1>2
  <2>2. CASE j # n + 1
    <3>1. j \in 2 .. n /\ g[j - 1] = f[j - 1] /\ g[j] = f[j]
      BY <2>2
    <3> QED
      BY <3>1, <1>1
  <2> QED
    BY <2>1, <2>2
<1> HIDE DEF g
<1>7. \E h \in [1 .. n + 1 -> values] :
        /\ h[1] = written
        /\ h[n + 1] = new
        /\ \A j \in 2 .. n + 1 : step(j, h[j - 1], h[j])
  BY <1>4, <1>5, <1>6
<1> QED
  BY <1>7, Zenon DEF MadeByMigrations, values, step

\* A row with all of its columns and nothing else.
Whole(row) == row = [c \in Columns \cup {"id"} |-> row[c]]

\* Adding rows keeps those there are, and makes whole ones.
LEMMA AddedRows ==
  ASSUME NEW rows, NEW added
  PROVE  /\ rows \subseteq WithAdded(rows, added)
         /\ \A row \in WithAdded(rows, added) : row \in rows \/ Whole(row)
<1> DEFINE new(id, key) ==
      [id |-> id, key |-> key, value |-> added[key].value,
       detail |-> added[key].detail, is_published |-> added[key].is_published]
<1>1. ASSUME NEW id, NEW key
      PROVE  Whole(new(id, key))
  BY DEF Whole, Columns
<1>2. PICK ids : WithAdded(rows, added) = rows \cup {new(ids[key], key) : key \in DOMAIN added}
  BY DEF WithAdded
<1> HIDE DEF new
<1> QED
  BY <1>1, <1>2

LEMMA InitContent == ContentInit => ContentInvariant
<1> SUFFICES ASSUME ContentInit PROVE ContentInvariant
  OBVIOUS
<1> DEFINE seeds == Releases[1].seeds
           new(id, key) ==
             [id |-> id, key |-> key, value |-> seeds[key].value,
              detail |-> seeds[key].detail, is_published |-> seeds[key].is_published]
<1>1. /\ code = 1 /\ revision = 1 /\ wrote = [id \in RowIds |-> <<>>]
      /\ 1 \in DOMAIN Releases
  BY ContentAssumption DEF ContentInit
<1>2. PICK ids : contents = {new(ids[key], key) : key \in DOMAIN seeds}
  BY DEF ContentInit
<1>3. ASSUME NEW id, NEW key
      PROVE  Whole(new(id, key))
  BY DEF Whole, Columns
<1> HIDE DEF new, seeds
<1>4. \A row \in contents : Whole(row)
  BY <1>2, <1>3
<1>5. \A id \in RowIds : DOMAIN wrote[id] = {}
  BY <1>1
<1> QED
  BY <1>1, <1>4, <1>5 DEF ContentInvariant, EditsSurvive, Whole

\* A step that only adds rows, and does not migrate.
LEMMA RowsOnlyAdded ==
  ASSUME ContentInvariant, contents \subseteq contents',
         \A row \in contents' : row \in contents \/ Whole(row),
         UNCHANGED <<revision, wrote>>, code' \in DOMAIN Releases, revision \in 1 .. code'
  PROVE  ContentInvariant'
<1>1. EditsSurvive'
  BY DEF ContentInvariant, EditsSurvive
<1> QED
  BY <1>1 DEF ContentInvariant, Whole

\* Once editors have written a column, that is what it holds.
LEMMA EditorsWrite ==
  ASSUME ContentInvariant, UNCHANGED <<code, revision>>,
         DOMAIN wrote' = RowIds, \A id \in RowIds : DOMAIN wrote'[id] \subseteq Columns,
         \A row \in contents' : Whole(row),
         \A id \in RowIds : \A column \in DOMAIN wrote'[id] :
           \E row \in contents' :
             /\ row.id = id
             /\ \/ row[column] = wrote'[id][column]
                \/ /\ column \in DOMAIN wrote[id] /\ wrote'[id][column] = wrote[id][column]
                   /\ MadeByMigrations(column, wrote[id][column], row[column], revision)
  PROVE  ContentInvariant'
<1>1. revision \in Nat \ {0}
  BY ContentAssumption DEF ContentInvariant
<1>2. ASSUME NEW id \in RowIds, NEW column \in DOMAIN wrote'[id]
      PROVE  \E row \in contents' :
               /\ row.id = id
               /\ MadeByMigrations(column, wrote'[id][column], row[column], revision')
  <2> DEFINE now == wrote'[id][column]
  <2>1. PICK row \in contents' :
          /\ row.id = id
          /\ \/ row[column] = now
             \/ /\ now = wrote[id][column]
                /\ MadeByMigrations(column, wrote[id][column], row[column], revision)
    OBVIOUS
  <2>2. MadeByMigrations(column, now, now, revision)
    BY <1>1, UntouchedByMigrations
  <2> QED
    BY <2>1, <2>2
<1>3. EditsSurvive'
  BY <1>2 DEF EditsSurvive
<1> QED
  BY <1>3 DEF ContentInvariant, Whole

\* A row that an editor creates is the editor's from the start.
LEMMA CreateRowPreserves ==
  ASSUME ContentInvariant, NEW key, NEW value, CreateRow(key, value)
  PROVE  ContentInvariant'
<1>1. PICK id :
        /\ contents' = contents \cup
             {[id |-> id, key |-> key, value |-> value, detail |-> None, is_published |-> TRUE]}
        /\ wrote' = [wrote EXCEPT ![id] =
             [key |-> key, value |-> value, detail |-> None, is_published |-> TRUE]]
        /\ UNCHANGED <<code, revision>>
  BY Zenon DEF CreateRow, Reworded
<1> DEFINE said == [key |-> key, value |-> value, detail |-> None, is_published |-> TRUE]
           new == [id |-> id, key |-> key, value |-> value, detail |-> None, is_published |-> TRUE]
<1>2. /\ DOMAIN said = Columns /\ Whole(new) /\ new.id = id
      /\ \A column \in Columns : new[column] = said[column]
  BY DEF Columns, Whole
<1>3. contents' = contents \cup {new} /\ wrote' = [wrote EXCEPT ![id] = said]
  BY <1>1
<1> HIDE DEF said, new
<1>4. /\ DOMAIN wrote' = RowIds
      /\ \A i \in RowIds : DOMAIN wrote'[i] \subseteq Columns
      /\ \A row \in contents' : Whole(row)
  BY <1>2, <1>3 DEF ContentInvariant, Whole
<1>5. ASSUME NEW i \in RowIds, NEW column \in DOMAIN wrote'[i]
      PROVE  \E row \in contents' :
               /\ row.id = i
               /\ \/ row[column] = wrote'[i][column]
                  \/ /\ column \in DOMAIN wrote[i] /\ wrote'[i][column] = wrote[i][column]
                     /\ MadeByMigrations(column, wrote[i][column], row[column], revision)
  <2>1. CASE i = id
    BY <2>1, <1>2, <1>3 DEF ContentInvariant
  <2>2. CASE i # id
    BY <2>2, <1>3 DEF ContentInvariant, EditsSurvive
  <2> QED
    BY <2>1, <2>2
<1> QED
  BY <1>1, <1>4, <1>5, EditorsWrite

\* A row keeps its id, and has from now on what the editor wrote.
LEMMA UpdateRowPreserves ==
  ASSUME ContentInvariant, NEW old \in contents, NEW edited \in Columns, NEW content,
         UpdateRow(old, edited, content)
  PROVE  ContentInvariant'
<1> DEFINE new == [old EXCEPT ![edited] = content]
           said == [c \in DOMAIN wrote[old.id] \cup {edited} |->
                      IF c = edited THEN content ELSE wrote[old.id][c]]
<1>1. /\ contents' = (contents \ {old}) \cup {new}
      /\ wrote' = [wrote EXCEPT ![old.id] = said]
      /\ UNCHANGED <<code, revision>>
  BY DEF UpdateRow, Reworded
<1>2. Whole(old) /\ "id" \notin Columns
  BY DEF ContentInvariant, Whole, Columns
<1>3. /\ Whole(new) /\ new.id = old.id /\ new[edited] = content
      /\ \A column \in Columns \ {edited} : new[column] = old[column]
  BY <1>2 DEF Whole
<1>4. /\ DOMAIN said = DOMAIN wrote[old.id] \cup {edited}
      /\ said[edited] = content
      /\ \A column \in DOMAIN wrote[old.id] \ {edited} : said[column] = wrote[old.id][column]
  OBVIOUS
<1> HIDE DEF said, new
<1>5. /\ DOMAIN wrote' = RowIds
      /\ \A i \in RowIds : DOMAIN wrote'[i] \subseteq Columns
      /\ \A row \in contents' : Whole(row)
  BY <1>1, <1>3, <1>4 DEF ContentInvariant, Whole
<1>6. ASSUME NEW i \in RowIds, NEW column \in DOMAIN wrote'[i]
      PROVE  \E row \in contents' :
               /\ row.id = i
               /\ \/ row[column] = wrote'[i][column]
                  \/ /\ column \in DOMAIN wrote[i] /\ wrote'[i][column] = wrote[i][column]
                     /\ MadeByMigrations(column, wrote[i][column], row[column], revision)
  <2>1. CASE i = old.id /\ column = edited
    BY <2>1, <1>1, <1>3, <1>4 DEF ContentInvariant
  <2>2. CASE i # old.id \/ column # edited
    <3>1. column \in DOMAIN wrote[i] /\ wrote'[i][column] = wrote[i][column]
      BY <2>2, <1>1, <1>4 DEF ContentInvariant
    <3>2. PICK was \in contents :
            /\ was.id = i
            /\ MadeByMigrations(column, wrote[i][column], was[column], revision)
      BY <3>1 DEF ContentInvariant, EditsSurvive
    <3>3. CASE was = old
      <4>1. new.id = i /\ new[column] = was[column] /\ new \in contents'
        BY <3>1, <3>2, <3>3, <2>2, <1>1, <1>3 DEF ContentInvariant
      <4> QED
        BY <4>1, <3>1, <3>2
    <3>4. CASE was # old
      BY <3>1, <3>2, <3>4, <1>1
    <3> QED
      BY <3>3, <3>4
  <2> QED
    BY <2>1, <2>2
<1> QED
  BY <1>1, <1>5, <1>6, EditorsWrite

\* A deleted row takes what was written to it along.
LEMMA DeleteRowPreserves ==
  ASSUME ContentInvariant, NEW old \in contents, DeleteRow(old)
  PROVE  ContentInvariant'
<1>1. /\ contents' = contents \ {old}
      /\ wrote' = [wrote EXCEPT ![old.id] = <<>>]
      /\ UNCHANGED <<code, revision>>
  BY DEF DeleteRow, Reworded
<1>2. /\ DOMAIN wrote' = RowIds
      /\ \A i \in RowIds : DOMAIN wrote'[i] \subseteq Columns
      /\ \A row \in contents' : Whole(row)
  <2>1. DOMAIN wrote' = RowIds /\ \A row \in contents' : Whole(row)
    BY <1>1 DEF ContentInvariant, Whole
  <2>2. ASSUME NEW i \in RowIds
        PROVE  DOMAIN wrote'[i] \subseteq Columns
    <3>1. CASE i = old.id
      <4>1. wrote'[i] = <<>>
        BY <3>1, <1>1 DEF ContentInvariant
      <4>2. DOMAIN <<>> = {}
        OBVIOUS
      <4> QED
        BY <4>1, <4>2
    <3>2. CASE i # old.id
      BY <3>2, <1>1 DEF ContentInvariant
    <3> QED
      BY <3>1, <3>2
  <2> QED
    BY <2>1, <2>2
<1>3. ASSUME NEW i \in RowIds, NEW column \in DOMAIN wrote'[i]
      PROVE  \E row \in contents' :
               /\ row.id = i
               /\ \/ row[column] = wrote'[i][column]
                  \/ /\ column \in DOMAIN wrote[i] /\ wrote'[i][column] = wrote[i][column]
                     /\ MadeByMigrations(column, wrote[i][column], row[column], revision)
  <2>1. i # old.id /\ wrote'[i] = wrote[i]
    BY <1>1 DEF ContentInvariant
  <2> QED
    BY <2>1, <1>1 DEF ContentInvariant, EditsSurvive
<1> QED
  BY <1>1, <1>2, <1>3, EditorsWrite

\* What a migration makes of a row is a row, and each of its columns has made one
\* more step.
LEMMA ChangedRow ==
  ASSUME NEW n \in Nat \ {0}, n + 1 \in DOMAIN Releases, NEW row, Whole(row),
         NEW i \in DOMAIN Releases[n + 1].changes, IsDue(Releases[n + 1].changes[i], row)
  PROVE  LET now == Changed(row, Releases[n + 1].changes[i]) IN
           /\ Whole(now) /\ now.id = row.id
           /\ \A column \in Columns : \A written :
                MadeByMigrations(column, written, row[column], n)
                  => MadeByMigrations(column, written, now[column], n + 1)
<1> DEFINE change == Releases[n + 1].changes[i]
           now == Changed(row, change)
<1>1. DOMAIN change.new \subseteq Columns \ {"key"} /\ "id" \notin Columns
  BY ContentAssumption DEF Columns
<1>2. row[change.guard] = change.old
  BY DEF IsDue
<1>3. DOMAIN row = Columns \cup {"id"}
  BY DEF Whole
<1>4. now = [c \in Columns \cup {"id"} |-> IF c \in DOMAIN change.new THEN change.new[c] ELSE row[c]]
  BY <1>3 DEF Changed
<1> HIDE DEF now
<1>5. Whole(now) /\ now.id = row.id
  BY <1>1, <1>4 DEF Whole
<1>6. ASSUME NEW column \in Columns, NEW written,
             MadeByMigrations(column, written, row[column], n)
      PROVE  MadeByMigrations(column, written, now[column], n + 1)
  <2>1. \/ now[column] = row[column]
        \/ /\ column \in DOMAIN change.new
           /\ now[column] = change.new[column]
           /\ column = change.guard => row[column] = change.old
    BY <1>2, <1>4
  <2> QED
    BY <2>1, <1>6, MigrationAdds
<1> QED
  BY <1>5, <1>6 DEF now

\* A release goes over each row once, and over each value only by its guard.
LEMMA MigratePreserves ==
  ASSUME ContentInvariant, Migrate
  PROVE  ContentInvariant'
<1> DEFINE n == revision
           release == Releases[n + 1]
           due(row) == {i \in DOMAIN release.changes : IsDue(release.changes[i], row)}
           now(row) == IF due(row) = {} THEN row
                       ELSE Changed(row, release.changes[CHOOSE i \in due(row) : TRUE])
           kept == {now(row) : row \in contents}
<1>1. /\ revision < code /\ revision' = revision + 1
      /\ UNCHANGED <<code, wrote>>
  BY DEF Migrate
<1>2. PICK added : contents' = WithAdded(kept, added)
  BY Zenon DEF Migrate
<1>3. n \in Nat \ {0} /\ n + 1 \in DOMAIN Releases /\ n + 1 \in 1 .. code
  BY <1>1, ContentAssumption DEF ContentInvariant
<1>4. ASSUME NEW row \in contents
      PROVE  /\ Whole(now(row)) /\ now(row).id = row.id
             /\ \A column \in Columns : \A written :
                  MadeByMigrations(column, written, row[column], n)
                    => MadeByMigrations(column, written, now(row)[column], n + 1)
  <2>1. Whole(row)
    BY DEF ContentInvariant, Whole
  <2>2. CASE due(row) = {}
    <3>1. now(row) = row
      BY <2>2
    <3> QED
      BY <3>1, <2>1, <1>3, MigrationAdds
  <2>3. CASE due(row) # {}
    <3>1. PICK i \in due(row) : now(row) = Changed(row, release.changes[i])
      BY <2>3
    <3>2. i \in DOMAIN release.changes /\ IsDue(release.changes[i], row)
      OBVIOUS
    <3> HIDE DEF now, due
    <3> QED
      BY <3>1, <3>2, <2>1, <1>3, ChangedRow
  <2> QED
    BY <2>2, <2>3
<1> HIDE DEF now, due, release
<1>5. /\ \A row \in contents : now(row) \in contents'
      /\ \A row \in contents' : Whole(row)
  <2>1. \A row \in kept : Whole(row)
    BY <1>4
  <2>2. \A row \in contents : now(row) \in kept
    OBVIOUS
  <2> QED
    BY <2>1, <2>2, <1>2, AddedRows
<1>6. ASSUME NEW id \in RowIds, NEW column \in DOMAIN wrote[id]
      PROVE  \E row \in contents' :
               /\ row.id = id
               /\ MadeByMigrations(column, wrote[id][column], row[column], n + 1)
  <2>1. column \in Columns
    BY DEF ContentInvariant
  <2>2. PICK row \in contents :
          row.id = id /\ MadeByMigrations(column, wrote[id][column], row[column], n)
    BY DEF ContentInvariant, EditsSurvive
  <2> QED
    BY <2>1, <2>2, <1>4, <1>5
<1>7. EditsSurvive'
  BY <1>1, <1>6 DEF EditsSurvive
<1> QED
  BY <1>1, <1>3, <1>5, <1>7 DEF ContentInvariant, Whole

LEMMA NextContent == ContentInvariant /\ [ContentNext]_contentVars => ContentInvariant'
<1> SUFFICES ASSUME ContentInvariant, [ContentNext]_contentVars PROVE ContentInvariant'
  OBVIOUS
<1>1. ASSUME NEW key \in ContentKeys, NEW value \in Wordings, CreateRow(key, value)
      PROVE  ContentInvariant'
  BY <1>1, CreateRowPreserves
<1>2. ASSUME NEW row \in contents, NEW column \in Columns, NEW content,
             UpdateRow(row, column, content)
      PROVE  ContentInvariant'
  BY <1>2, UpdateRowPreserves
<1>3. ASSUME NEW row \in contents, DeleteRow(row)
      PROVE  ContentInvariant'
  BY <1>3, DeleteRowPreserves
<1>4. CASE Pull
  <2>1. code' \in DOMAIN Releases /\ revision \in 1 .. code'
    BY <1>4, ContentAssumption DEF Pull, ContentInvariant
  <2> QED
    BY <2>1, <1>4, RowsOnlyAdded DEF Pull
<1>5. CASE Migrate
  BY <1>5, MigratePreserves
<1>6. ASSUME NEW r \in Requests, BeginSeed(r) \/ AbortSeed(r)
      PROVE  ContentInvariant'
  BY <1>6, RowsOnlyAdded DEF BeginSeed, AbortSeed, ContentInvariant
<1>7. ASSUME NEW r \in Requests, CommitSeed(r)
      PROVE  ContentInvariant'
  <2>1. contents' = WithAdded(contents, seeding[r]) /\ UNCHANGED <<code, revision, wrote>>
    BY <1>7 DEF CommitSeed
  <2> QED
    BY <2>1, AddedRows, RowsOnlyAdded DEF ContentInvariant
<1>8. CASE UNCHANGED contentVars
  BY <1>8, RowsOnlyAdded DEF contentVars, ContentInvariant
<1> QED
  BY <1>1, <1>2, <1>3, <1>4, <1>5, <1>6, <1>7, <1>8 DEF ContentNext, Columns

\* app/seeds/run.py and the guarded migrations: what editors wrote survives any
\* number of releases, whatever they seed and change.
THEOREM EditsSurviveReleases == ContentSpec => []EditsSurvive
<1>1. ContentInvariant => EditsSurvive
  BY DEF ContentInvariant
<1> QED
  BY <1>1, InitContent, NextContent, PTL DEF ContentSpec

\* A finite set fits into one that has no fewer elements.
LEMMA FitsInto ==
  ASSUME NEW S, NEW T, IsFiniteSet(S), IsFiniteSet(T), Cardinality(S) <= Cardinality(T)
  PROVE  \E f \in [S -> T] : IsInjective(f)
<1> DEFINE m == Cardinality(S)
           n == Cardinality(T)
<1>1. m \in Nat /\ n \in Nat /\ ExistsBijection(1 .. m, S) /\ ExistsBijection(1 .. n, T)
  BY FS_CardinalityType
<1>2. PICK f \in [1 .. m -> S] : \A x \in S : \E i \in 1 .. m : f[i] = x
  BY <1>1 DEF ExistsBijection, Bijection, Injection, Surjection
<1>3. PICK g \in [1 .. n -> T] : \A i, j \in 1 .. n : g[i] = g[j] => i = j
  BY <1>1 DEF ExistsBijection, Bijection, Injection, IsInjective
<1> DEFINE place == [x \in S |-> CHOOSE i \in 1 .. m : f[i] = x]
           into == [x \in S |-> g[place[x]]]
<1>4. \A x \in S : place[x] \in 1 .. m /\ f[place[x]] = x
  BY <1>2
<1>5. 1 .. m \subseteq 1 .. n
  BY <1>1
<1> HIDE DEF place, m, n
<1>6. into \in [S -> T]
  BY <1>4, <1>5
<1>7. ASSUME NEW x \in S, NEW y \in S, into[x] = into[y]
      PROVE  x = y
  <2>1. place[x] = place[y]
    BY <1>3, <1>4, <1>5, <1>7
  <2> QED
    BY <2>1, <1>4
<1> QED
  BY <1>6, <1>7 DEF IsInjective

\* A set of numbers has a least one.
LEMMA LeastNumber ==
  ASSUME NEW S, S \subseteq Nat, S # {}
  PROVE  \E i \in S : \A j \in S : i <= j
<1>1. PICK i \in S : \A j \in S : ~ (<<j, i>> \in OpToRel(<, Nat))
  BY NatLessThanWellFounded, WFMin
<1>2. \A j \in S : ~ (j < i)
  BY <1>1 DEF OpToRel
<1> QED
  BY <1>2

\* Rows are added with ids that are not in use.
LEMMA AddedTypes ==
  ASSUME ContentTypeInvariant, NEW rows, NEW K \in SUBSET ContentKeys, NEW added \in [K -> Wanted],
         rows \subseteq Row,
         \A row \in rows : \E old \in contents : row.id = old.id /\ row.key = old.key,
         \A row, other \in rows :
           (row.id = other.id \/ (row.key = other.key /\ row.key \in UniqueKeys)) => row = other,
         Cardinality(K) <= Cardinality(Unused),
         \A key \in K \cap UniqueKeys : Keyed(key) = {},
         contents' = WithAdded(rows, added)
  PROVE  /\ contents' \subseteq Row
         /\ \A row, other \in contents' :
              (row.id = other.id \/ (row.key = other.key /\ row.key \in UniqueKeys)) => row = other
<1> DEFINE new(id, key) ==
      [id |-> id, key |-> key, value |-> added[key].value,
       detail |-> added[key].detail, is_published |-> added[key].is_published]
           ids == CHOOSE f \in [K -> Unused] : IsInjective(f)
<1>1. IsFiniteSet(K)
  BY ContentAssumption, FS_Subset
<1>2. IsFiniteSet(Unused)
  <2>1. IsFiniteSet(RowIds)
    <3>1. 1 \in Int /\ MaxRows \in Int
      BY ContentAssumption
    <3> QED
      BY <3>1, FS_Interval DEF RowIds
  <2> QED
    BY <2>1, FS_Subset DEF Unused
<1>3. ids \in [K -> Unused] /\ \A a, b \in K : ids[a] = ids[b] => a = b
  <2>1. \E f \in [K -> Unused] : IsInjective(f)
    BY <1>1, <1>2, FitsInto
  <2>2. ids \in [K -> Unused] /\ IsInjective(ids)
    BY <2>1
  <2> QED
    BY <2>2 DEF IsInjective
<1>4. contents' = rows \cup {new(ids[key], key) : key \in K}
  <2>1. DOMAIN added = K
    OBVIOUS
  <2>2. WithAdded(rows, added) =
          rows \cup {new((CHOOSE f \in [DOMAIN added -> Unused] : IsInjective(f))[key], key) :
                    key \in DOMAIN added}
    BY Zenon DEF WithAdded
  <2> QED
    BY <2>1, <2>2
<1> HIDE DEF ids
<1>5. ASSUME NEW key \in K
      PROVE  /\ new(ids[key], key) \in Row /\ new(ids[key], key).id = ids[key]
             /\ new(ids[key], key).key = key
  BY <1>3 DEF Row, Wanted, Unused
<1>6. ASSUME NEW key \in K, NEW row \in rows
      PROVE  row.id # ids[key] /\ (row.key = key => key \notin UniqueKeys)
  <2>1. PICK old \in contents : row.id = old.id /\ row.key = old.key
    OBVIOUS
  <2>2. ids[key] \in Unused
    BY <1>3
  <2>3. old.id # ids[key]
    BY <2>2 DEF Unused
  <2>4. key \in UniqueKeys => old.key # key
    BY DEF Keyed
  <2> QED
    BY <2>1, <2>3, <2>4
<1> HIDE DEF new
<1> QED
  BY <1>3, <1>4, <1>5, <1>6

LEMMA InitContentTypes == ContentInit => ContentTypeInvariant
<1> SUFFICES ASSUME ContentInit PROVE ContentTypeInvariant
  OBVIOUS
<1> DEFINE seeds == Releases[1].seeds
           new(id, key) ==
             [id |-> id, key |-> key, value |-> seeds[key].value,
              detail |-> seeds[key].detail, is_published |-> seeds[key].is_published]
           ids == CHOOSE f \in [DOMAIN seeds -> RowIds] : IsInjective(f)
<1>1. 1 \in DOMAIN Releases /\ Cardinality(DOMAIN seeds) <= MaxRows
  BY ContentAssumption
<1>2. PICK K \in SUBSET ContentKeys : seeds \in [K -> Wanted]
  BY <1>1, ContentAssumption
<1>3. DOMAIN seeds = K /\ IsFiniteSet(K)
  BY <1>2, ContentAssumption, FS_Subset
<1>4. IsFiniteSet(RowIds) /\ Cardinality(RowIds) = MaxRows
  BY ContentAssumption, FS_Interval DEF RowIds
<1>5. ids \in [K -> RowIds] /\ \A a, b \in K : ids[a] = ids[b] => a = b
  <2>1. \E f \in [K -> RowIds] : IsInjective(f)
    BY <1>1, <1>3, <1>4, FitsInto
  <2>2. ids \in [K -> RowIds] /\ IsInjective(ids)
    BY <1>3, <2>1
  <2> QED
    BY <2>2 DEF IsInjective
<1>6. contents = {new(ids[key], key) : key \in K}
  BY <1>3 DEF ContentInit
<1>7. ASSUME NEW key \in K
      PROVE  /\ new(ids[key], key) \in Row /\ new(ids[key], key).id = ids[key]
             /\ new(ids[key], key).key = key
  BY <1>2, <1>5 DEF Row, Wanted
<1>8. code = 1 /\ revision = 1 /\ seeding = [r \in Requests |-> None]
      /\ wrote = [id \in RowIds |-> <<>>]
  BY DEF ContentInit
<1> HIDE DEF new, ids, seeds
<1>9. /\ contents \subseteq Row
      /\ \A row, other \in contents :
           (row.id = other.id \/ (row.key = other.key /\ row.key \in UniqueKeys)) => row = other
  BY <1>5, <1>6, <1>7
<1>10. \A id \in RowIds : DOMAIN wrote[id] \subseteq Columns
  BY <1>8
<1> QED
  BY <1>1, <1>8, <1>9, <1>10 DEF ContentTypeInvariant, ContentTypeOK

\* An editor adds a row under the least id that is free.
LEMMA CreateRowTypes ==
  ASSUME ContentTypeInvariant, NEW key \in ContentKeys, NEW value \in Wordings,
         CreateRow(key, value)
  PROVE  ContentTypeInvariant'
<1> DEFINE id == CHOOSE i \in Unused : \A j \in Unused : i <= j
           row == [id |-> id, key |-> key, value |-> value, detail |-> None, is_published |-> TRUE]
           fresh == [key |-> key, value |-> value, detail |-> None, is_published |-> TRUE]
<1>1. Unused # {} /\ Unused \subseteq Nat
  BY ContentAssumption DEF CreateRow, Unused, RowIds
<1>2. id \in Unused
  BY <1>1, LeastNumber
<1>3. /\ key \in UniqueKeys => \A other \in contents : other.key # key
      /\ contents' = contents \cup {row}
      /\ wrote' = [wrote EXCEPT ![id] = fresh] /\ UNCHANGED <<code, revision, seeding>>
  BY DEF CreateRow, Reworded, Keyed
<1>4. /\ row \in Row /\ row.id = id /\ row.key = key
      /\ \A other \in contents : other.id # id
  BY <1>2 DEF Row, Unused, Wording
<1>5. DOMAIN fresh \subseteq Columns
  BY DEF Columns
<1> HIDE DEF id, row, fresh
<1>6. /\ contents' \subseteq Row
      /\ \A this, other \in contents' :
           (this.id = other.id \/ (this.key = other.key /\ this.key \in UniqueKeys)) => this = other
  BY <1>3, <1>4 DEF ContentTypeInvariant, ContentTypeOK
<1>7. DOMAIN wrote' = RowIds /\ \A i \in RowIds : DOMAIN wrote'[i] \subseteq Columns
  BY <1>3, <1>5 DEF ContentTypeInvariant, ContentTypeOK
<1> QED
  BY <1>3, <1>6, <1>7 DEF ContentTypeInvariant, ContentTypeOK

\* A row that editors change keeps its id, and has no other row's unique key.
LEMMA UpdateRowTypes ==
  ASSUME ContentTypeInvariant, NEW row \in contents, NEW column \in Columns, NEW content,
         column = "key" => content \in ContentKeys,
         column \in {"value", "detail"} => content \in Wording,
         column = "is_published" => content \in BOOLEAN,
         UpdateRow(row, column, content)
  PROVE  ContentTypeInvariant'
<1> DEFINE now == [row EXCEPT ![column] = content]
           grown == [c \in DOMAIN wrote[row.id] \cup {column} |->
                       IF c = column THEN content ELSE wrote[row.id][c]]
<1>1. /\ contents' = (contents \ {row}) \cup {now}
      /\ wrote' = [wrote EXCEPT ![row.id] = grown]
      /\ UNCHANGED <<code, revision, seeding>>
      /\ column = "key" =>
           (content \in UniqueKeys => content = row.key \/ \A other \in contents : other.key # content)
  BY DEF UpdateRow, MayBeRenamed, Keyed, Reworded
<1>2. row \in Row
  BY DEF ContentTypeInvariant, ContentTypeOK
<1>3. /\ now \in Row /\ now.id = row.id
      /\ now.key # row.key =>
           (now.key \in UniqueKeys => \A other \in contents : other.key # now.key)
  <2>1. CASE column = "key"
    BY <2>1, <1>1, <1>2 DEF Row
  <2>2. CASE column = "value"
    BY <2>2, <1>2 DEF Row
  <2>3. CASE column = "detail"
    BY <2>3, <1>2 DEF Row
  <2>4. CASE column = "is_published"
    BY <2>4, <1>2 DEF Row
  <2> QED
    BY <2>1, <2>2, <2>3, <2>4 DEF Columns
<1>4. row.id \in RowIds
  BY <1>2 DEF Row
<1>5. DOMAIN grown \subseteq Columns
  BY <1>4 DEF ContentTypeInvariant, ContentTypeOK
<1> HIDE DEF now, grown
<1>6. /\ contents' \subseteq Row
      /\ \A this, other \in contents' :
           (this.id = other.id \/ (this.key = other.key /\ this.key \in UniqueKeys)) => this = other
  <2>1. /\ contents \subseteq Row
        /\ \A this, other \in contents :
             (this.id = other.id \/ (this.key = other.key /\ this.key \in UniqueKeys)) => this = other
    BY DEF ContentTypeInvariant, ContentTypeOK
  <2>2. ASSUME NEW other \in contents, other # row
        PROVE  /\ other.id # now.id
               /\ now.key = other.key => now.key \notin UniqueKeys
    <3>1. /\ other.id # row.id
          /\ other.key = row.key => other.key \notin UniqueKeys
      BY <2>1, <2>2
    <3>2. CASE now.key = row.key
      BY <1>3, <3>1, <3>2
    <3>3. CASE now.key # row.key
      BY <1>3, <3>1, <3>3
    <3> QED
      BY <3>2, <3>3
  <2>3. contents' \subseteq Row
    BY <1>1, <1>3, <2>1
  <2>4. ASSUME NEW this \in contents', NEW other \in contents',
               this.id = other.id \/ (this.key = other.key /\ this.key \in UniqueKeys)
        PROVE  this = other
    <3>1. CASE this = now /\ other # now
      BY <1>1, <2>2, <2>4, <3>1
    <3>2. CASE this # now /\ other = now
      BY <1>1, <2>2, <2>4, <3>2
    <3>3. CASE this # now /\ other # now
      BY <1>1, <2>1, <2>4, <3>3
    <3> QED
      BY <3>1, <3>2, <3>3
  <2> QED
    BY <2>3, <2>4
<1>7. DOMAIN wrote' = RowIds /\ \A i \in RowIds : DOMAIN wrote'[i] \subseteq Columns
  BY <1>1, <1>5 DEF ContentTypeInvariant, ContentTypeOK
<1> QED
  BY <1>1, <1>6, <1>7 DEF ContentTypeInvariant, ContentTypeOK

\* What a migration makes of a row is a row of the same id and key.
LEMMA ChangedTypes ==
  ASSUME NEW n \in DOMAIN Releases, NEW i \in DOMAIN Releases[n].changes, NEW row \in Row
  PROVE  LET now == Changed(row, Releases[n].changes[i]) IN
           now \in Row /\ now.id = row.id /\ now.key = row.key
<1> DEFINE change == Releases[n].changes[i]
           now == Changed(row, change)
<1>1. /\ DOMAIN change.new \subseteq Columns \ {"key"}
      /\ \A c \in DOMAIN change.new :
           change.new[c] \in IF c = "is_published" THEN BOOLEAN ELSE Wording
  BY ContentAssumption
<1> DEFINE of(c) == IF c \in DOMAIN change.new THEN change.new[c] ELSE row[c]
<1>2. now = [c \in {"id", "key", "value", "detail", "is_published"} |-> of(c)]
  BY DEF Changed, Row
<1>3. /\ of("id") = row.id /\ of("key") = row.key
      /\ of("value") \in Wording /\ of("detail") \in Wording /\ of("is_published") \in BOOLEAN
  BY <1>1 DEF Columns, Row
<1> HIDE DEF of, now, change
<1>4. now = [id |-> of("id"), key |-> of("key"), value |-> of("value"), detail |-> of("detail"),
             is_published |-> of("is_published")]
  BY <1>2
<1>5. now \in Row /\ now.id = row.id /\ now.key = row.key
  BY <1>3, <1>4 DEF Row
<1> QED
  BY <1>5 DEF now, change

LEMMA MigrateTypes ==
  ASSUME ContentTypeInvariant, Migrate
  PROVE  ContentTypeInvariant'
<1> DEFINE release == Releases[revision + 1]
           due(row) == {i \in DOMAIN release.changes : IsDue(release.changes[i], row)}
           now(row) == IF due(row) = {} THEN row
                       ELSE Changed(row, release.changes[CHOOSE i \in due(row) : TRUE])
           kept == {now(row) : row \in contents}
           missing == {key \in DOMAIN release.inserts : Keyed(key) = {}}
           added == Restrict(release.inserts, missing)
<1>1. /\ revision < code /\ revision' = revision + 1 /\ UNCHANGED <<code, seeding, wrote>>
      /\ Cardinality(missing) <= Cardinality(Unused)
      /\ contents' = WithAdded(kept, added)
  BY DEF Migrate
<1>2. /\ revision + 1 \in DOMAIN Releases /\ revision' \in 1 .. code' /\ code' \in DOMAIN Releases
  BY <1>1, ContentAssumption DEF ContentTypeInvariant, ContentTypeOK
<1>3. ASSUME NEW row \in contents
      PROVE  now(row) \in Row /\ now(row).id = row.id /\ now(row).key = row.key
  <2>1. row \in Row
    BY DEF ContentTypeInvariant, ContentTypeOK
  <2>2. CASE due(row) = {}
    BY <2>1, <2>2
  <2>3. CASE due(row) # {}
    <3> DEFINE i == CHOOSE i \in due(row) : TRUE
    <3>1. i \in DOMAIN release.changes /\ now(row) = Changed(row, release.changes[i])
      BY <2>3
    <3> HIDE DEF i, now
    <3> QED
      BY <3>1, <2>1, <1>2, ChangedTypes
  <2> QED
    BY <2>2, <2>3
<1>4. missing \in SUBSET ContentKeys /\ added \in [missing -> Wanted]
      /\ \A key \in missing : Keyed(key) = {}
  <2>1. PICK K \in SUBSET UniqueKeys : release.inserts \in [K -> Wanted]
    BY <1>2, ContentAssumption
  <2> QED
    BY <2>1, ContentAssumption DEF Restrict
<1> HIDE DEF now, missing, added
<1>5. /\ kept \subseteq Row
      /\ \A row \in kept : \E old \in contents : row.id = old.id /\ row.key = old.key
      /\ \A row, other \in kept :
           (row.id = other.id \/ (row.key = other.key /\ row.key \in UniqueKeys)) => row = other
  BY <1>3 DEF ContentTypeInvariant, ContentTypeOK
<1> HIDE DEF kept
<1>6. /\ contents' \subseteq Row
      /\ \A row, other \in contents' :
           (row.id = other.id \/ (row.key = other.key /\ row.key \in UniqueKeys)) => row = other
  BY <1>1, <1>4, <1>5, AddedTypes
<1> QED
  BY <1>1, <1>2, <1>6 DEF ContentTypeInvariant, ContentTypeOK

\* A seeder's slot is empty, or holds wordings for keys.
LEMMA SeedingChanges ==
  ASSUME ContentTypeInvariant, NEW r \in Requests, NEW found,
         found # None => \E K \in SUBSET ContentKeys : found \in [K -> Wanted],
         seeding' = [seeding EXCEPT ![r] = found], UNCHANGED <<code, revision, wrote>>,
         contents' \subseteq Row,
         \A row, other \in contents' :
           (row.id = other.id \/ (row.key = other.key /\ row.key \in UniqueKeys)) => row = other
  PROVE  ContentTypeInvariant'
<1>1. DOMAIN seeding' = Requests
      /\ \A q \in Requests : seeding'[q] = IF q = r THEN found ELSE seeding[q]
  BY DEF ContentTypeInvariant
<1>2. \A q \in Requests : seeding'[q] # None =>
        \E K \in SUBSET ContentKeys : seeding'[q] \in [K -> Wanted]
  BY <1>1 DEF ContentTypeInvariant, ContentTypeOK
<1> QED
  BY <1>1, <1>2 DEF ContentTypeInvariant, ContentTypeOK

LEMMA SeedTypes ==
  ASSUME ContentTypeInvariant, NEW r \in Requests,
         BeginSeed(r) \/ CommitSeed(r) \/ AbortSeed(r)
  PROVE  ContentTypeInvariant'
<1>1. /\ contents \subseteq Row
      /\ \A row, other \in contents :
           (row.id = other.id \/ (row.key = other.key /\ row.key \in UniqueKeys)) => row = other
  BY DEF ContentTypeInvariant, ContentTypeOK
<1>2. CASE BeginSeed(r)
  <2> DEFINE seeds == Releases[code].seeds
             missing == {key \in DOMAIN seeds : Keyed(key) = {}}
             found == Restrict(seeds, missing)
  <2>1. seeding' = [seeding EXCEPT ![r] = found] /\ UNCHANGED <<contents, code, revision, wrote>>
    BY <1>2 DEF BeginSeed
  <2>2. PICK K \in SUBSET ContentKeys : seeds \in [K -> Wanted]
    BY ContentAssumption DEF ContentTypeInvariant, ContentTypeOK
  <2>3. missing \in SUBSET ContentKeys /\ found \in [missing -> Wanted]
    BY <2>2 DEF Restrict
  <2> HIDE DEF found, missing
  <2> QED
    BY <2>1, <2>3, <1>1, SeedingChanges
<1>3. CASE CommitSeed(r)
  <2>1. /\ seeding[r] # None /\ \A key \in DOMAIN seeding[r] \cap UniqueKeys : Keyed(key) = {}
        /\ Cardinality(DOMAIN seeding[r]) <= Cardinality(Unused)
        /\ contents' = WithAdded(contents, seeding[r])
        /\ seeding' = [seeding EXCEPT ![r] = None] /\ UNCHANGED <<code, revision, wrote>>
    BY <1>3 DEF CommitSeed
  <2>2. PICK K \in SUBSET ContentKeys : seeding[r] \in [K -> Wanted]
    BY <2>1 DEF ContentTypeInvariant, ContentTypeOK
  <2>3. DOMAIN seeding[r] = K
    BY <2>2
  <2>4. /\ contents' \subseteq Row
        /\ \A row, other \in contents' :
             (row.id = other.id \/ (row.key = other.key /\ row.key \in UniqueKeys)) => row = other
    BY <2>1, <2>2, <2>3, <1>1, AddedTypes
  <2> QED
    BY <2>1, <2>4, SeedingChanges
<1>4. CASE AbortSeed(r)
  BY <1>1, <1>4, SeedingChanges DEF AbortSeed
<1> QED
  BY <1>2, <1>3, <1>4

LEMMA NextContentTypes ==
  ContentTypeInvariant /\ [ContentNext]_contentVars => ContentTypeInvariant'
<1> SUFFICES ASSUME ContentTypeInvariant, [ContentNext]_contentVars
             PROVE  ContentTypeInvariant'
  OBVIOUS
<1>1. ASSUME NEW row \in contents, DeleteRow(row)
      PROVE  ContentTypeInvariant'
  <2>1. /\ contents' \subseteq contents /\ wrote' = [wrote EXCEPT ![row.id] = <<>>]
        /\ UNCHANGED <<code, revision, seeding>>
    BY <1>1 DEF DeleteRow, Reworded
  <2>2. DOMAIN wrote' = RowIds /\ \A id \in RowIds : DOMAIN wrote'[id] \subseteq Columns
    BY <2>1 DEF ContentTypeInvariant, ContentTypeOK
  <2> QED
    BY <2>1, <2>2 DEF ContentTypeInvariant, ContentTypeOK
<1>2. CASE Pull
  <2>1. code' \in DOMAIN Releases /\ revision' \in 1 .. code'
    BY <1>2, ContentAssumption DEF Pull, ContentTypeInvariant, ContentTypeOK
  <2> QED
    BY <1>2, <2>1 DEF Pull, ContentTypeInvariant, ContentTypeOK
<1>3. CASE UNCHANGED contentVars
  BY <1>3 DEF contentVars, ContentTypeInvariant, ContentTypeOK
<1>4. ASSUME NEW row \in contents, NEW published \in BOOLEAN,
             UpdateRow(row, "is_published", published)
      PROVE  ContentTypeInvariant'
  BY <1>4, UpdateRowTypes DEF Columns
<1>5. ASSUME NEW row \in contents, NEW key \in ContentKeys, UpdateRow(row, "key", key)
      PROVE  ContentTypeInvariant'
  BY <1>5, UpdateRowTypes DEF Columns
<1>6. ASSUME NEW row \in contents, NEW column \in {"value", "detail"}, NEW wording \in Wording,
             UpdateRow(row, column, wording)
      PROVE  ContentTypeInvariant'
  BY <1>6, UpdateRowTypes DEF Columns
<1> QED
  BY <1>1, <1>2, <1>3, <1>4, <1>5, <1>6, CreateRowTypes, MigrateTypes, SeedTypes DEF ContentNext

\* update.py and the editors: however releases, seeders and edits interleave, rows
\* keep their shape, and a unique key or an id never has two of them.
THEOREM ContentTypeCorrect == ContentSpec => []ContentTypeOK
<1>1. ContentTypeInvariant => ContentTypeOK
  BY DEF ContentTypeInvariant
<1> QED
  BY <1>1, InitContentTypes, NextContentTypes, PTL DEF ContentSpec

(***************************************************************************)
(* The rate limiter                                                        *)
(***************************************************************************)

LEMMA InitRateLimit == RateLimitInit => RateLimitInvariant
  BY RateLimitAssumption
  DEF RateLimitInit, RateLimitInvariant, RateLimitTypeOK, OwedAtOnce, EndsInWindow, Missed

\* INCR, whether its reply arrives or not.
LEMMA IncrPreserves ==
  ASSUME RateLimitInvariant, NEW r \in Requests, NEW p \in Processes, NEW answered \in BOOLEAN,
         Incr(r, p, answered)
  PROVE  RateLimitInvariant'
<1> USE RateLimitAssumption DEF RateLimitInvariant
<1>1. Count \in 1 .. MaxCount
  BY DEF Incr, Count, RateLimitTypeOK, Counter
<1>2. CASE counter = None
  <2>1. counter' = [count |-> 1, ttl |-> None, age |-> 0] /\ cutOff' = ~ answered /\ Count = 1
    BY <1>2 DEF Incr, Count
  <2>2. counter' \in Counter
    BY <2>1, <1>1 DEF Counter
  <2>3. answered => /\ checks'[r] = [process |-> p, count |-> 1]
                    /\ checks'[r] \in Check
    BY <2>1, <1>1 DEF Incr, RateLimitTypeOK, Check
  <2>4. answered => Missed(r)'
    BY <2>3 DEF Missed, IsFirstOfWindow
  <2>5. RateLimitTypeOK'
    BY <2>1, <2>2, <2>3 DEF Incr, RateLimitTypeOK
  <2> QED
    BY <2>1, <2>4, <2>5 DEF OwedAtOnce, EndsInWindow
<1>3. CASE counter # None
  <2>1. /\ counter' = [counter EXCEPT !.count = Count]
        /\ cutOff' = cutOff
        /\ Count = counter.count + 1 /\ counter \in Counter
    BY <1>3 DEF Incr, Count, RateLimitTypeOK
  <2>2. /\ counter' \in Counter /\ counter'.ttl = counter.ttl /\ counter'.age = counter.age
        /\ Count # 1
    BY <2>1, <1>1 DEF Counter
  <2>3. RateLimitTypeOK'
    BY <2>1, <2>2, <1>1 DEF Incr, RateLimitTypeOK, Check
  <2>4. \A q \in Requests : Missed(q)' <=> Missed(q)
    <3> TAKE q \in Requests
    <3>1. CASE q = r
      <4>1. checks[r] = None
        BY DEF Incr
      <4>2. checks'[r] = None \/ checks'[r].count = Count
        BY <1>1 DEF Incr, RateLimitTypeOK
      <4> QED
        BY <3>1, <4>1, <4>2, <2>2 DEF Missed, IsFirstOfWindow
    <3>2. CASE q # r
      BY <3>2 DEF Incr, Missed, RateLimitTypeOK
    <3> QED
      BY <3>1, <3>2
  <2> QED
    BY <1>3, <2>1, <2>2, <2>3, <2>4 DEF OwedAtOnce, EndsInWindow
<1> QED
  BY <1>2, <1>3

\* The step after INCR: EXPIRE gives the counter a whole window from where it is,
\* and it has not aged.
LEMMA ConcludePreserves ==
  ASSUME RateLimitInvariant, NEW r \in Requests, Conclude(r)
  PROVE  RateLimitInvariant'
<1> USE RateLimitAssumption DEF RateLimitInvariant
<1>1. /\ checks' \in [Requests -> Check \cup {None}] /\ checks'[r] = None
      /\ \A q \in Requests \ {r} : checks'[q] = checks[q]
  BY DEF Conclude, RateLimitTypeOK
<1>2. \A q \in Requests : Missed(q)' => q # r /\ Missed(q)
  BY <1>1 DEF Missed
<1>3. CASE Missed(r)
  <2>1. /\ cutOff' = FALSE
        /\ counter' = IF counter = None THEN None ELSE [counter EXCEPT !.ttl = Window]
    BY <1>3 DEF Conclude, Missed
  <2>2. CASE counter = None
    BY <1>1, <2>1, <2>2 DEF Conclude, RateLimitTypeOK, OwedAtOnce, EndsInWindow
  <2>3. CASE counter # None
    <3>1. counter \in Counter /\ counter.age = 0
      BY <1>3, <2>3 DEF RateLimitTypeOK, OwedAtOnce
    <3>2. counter' \in Counter /\ counter'.age = 0 /\ counter'.ttl = Window
      BY <2>1, <2>3, <3>1 DEF Counter
    <3>3. RateLimitTypeOK'
      BY <1>1, <2>1, <3>2 DEF Conclude, RateLimitTypeOK
    <3>4. OwedAtOnce'
      BY <3>2 DEF OwedAtOnce
    <3>5. EndsInWindow'
      BY <3>2 DEF EndsInWindow
    <3> QED
      BY <3>3, <3>4, <3>5
  <2> QED
    BY <2>2, <2>3
<1>4. CASE ~ Missed(r)
  <2>1. counter' = counter /\ cutOff' = cutOff
    BY <1>4 DEF Conclude, Missed
  <2>2. \A q \in Requests : Missed(q) => Missed(q)'
    BY <1>1, <1>4 DEF Missed
  <2> QED
    BY <1>1, <1>2, <2>1, <2>2 DEF Conclude, RateLimitTypeOK, OwedAtOnce, EndsInWindow
<1> QED
  BY <1>3, <1>4

\* A check that fails before its EXPIRE leaves the counter as it is.
LEMMA FailExpirePreserves ==
  ASSUME RateLimitInvariant, NEW r \in Requests, FailExpire(r)
  PROVE  RateLimitInvariant'
<1> USE RateLimitAssumption DEF RateLimitInvariant
<1>1. /\ checks' \in [Requests -> Check \cup {None}] /\ checks'[r] = None
      /\ \A q \in Requests \ {r} : checks'[q] = checks[q]
      /\ counter' = counter /\ cutOff' = Endless
  BY DEF FailExpire, RateLimitTypeOK
<1>2. RateLimitTypeOK'
  BY <1>1 DEF FailExpire, RateLimitTypeOK, Endless
<1>3. OwedAtOnce'
  BY <1>1 DEF OwedAtOnce, Missed
<1>4. EndsInWindow'
  BY <1>1 DEF EndsInWindow, Endless
<1> QED
  BY <1>2, <1>3, <1>4

\* A process that ends takes its checks with it.
LEMMA RestartPreserves ==
  ASSUME RateLimitInvariant, NEW p \in Processes, RestartProcess(p)
  PROVE  RateLimitInvariant'
<1> USE RateLimitAssumption DEF RateLimitInvariant
<1> DEFINE its == {r \in Requests : checks[r] # None /\ checks[r].process = p}
<1>1. /\ checks' = [r \in Requests |-> IF r \in its THEN None ELSE checks[r]]
      /\ cutOff' = IF \E r \in its : Missed(r) THEN Endless ELSE cutOff
      /\ counter' = counter
  BY DEF RestartProcess
<1>2. RateLimitTypeOK'
  BY <1>1 DEF RestartProcess, RateLimitTypeOK, Endless
<1>3. \A r \in Requests : Missed(r)' <=> r \notin its /\ Missed(r)
  BY <1>1 DEF Missed
<1>4. OwedAtOnce'
  BY <1>1, <1>3 DEF OwedAtOnce
<1>5. EndsInWindow'
  <2>1. CASE \E r \in its : Missed(r)
    BY <1>1, <2>1 DEF EndsInWindow, Endless
  <2>2. CASE ~ \E r \in its : Missed(r)
    BY <1>1, <1>3, <2>2 DEF EndsInWindow
  <2> QED
    BY <2>1, <2>2
<1> QED
  BY <1>2, <1>4, <1>5

\* Time passes only when no check owes an EXPIRE.
LEMMA PassTimePreserves ==
  ASSUME RateLimitInvariant, PassTime
  PROVE  RateLimitInvariant'
<1> USE RateLimitAssumption DEF RateLimitInvariant
<1>1. counter \in Counter /\ counter # None /\ counter.age <= Window
  BY DEF PassTime, RateLimitTypeOK
<1>2. \A r \in Requests : checks'[r] = None
  BY DEF PassTime
<1>3. cutOff' \in BOOLEAN
  BY DEF PassTime
<1>4. CASE counter.ttl = 1
  <2>1. counter' = None
    BY <1>4 DEF PassTime
  <2>2. RateLimitTypeOK'
    BY <1>3, <2>1 DEF PassTime, RateLimitTypeOK
  <2> QED
    BY <2>1, <2>2 DEF OwedAtOnce, EndsInWindow
<1>5. CASE counter.ttl = None
  <2>1. cutOff
    BY <1>1, <1>5 DEF PassTime, EndsInWindow, Missed
  <2>2. counter' = [counter EXCEPT !.ttl = None, !.age = @ + 1]
    BY <1>5 DEF PassTime, RateLimitTypeOK
  <2>3. counter' \in Counter /\ counter'.ttl = None
    <3>1. counter' = [count |-> counter.count, ttl |-> None, age |-> counter.age + 1]
      BY <1>1, <2>2 DEF Counter
    <3>2. counter.count \in 1 .. MaxCount /\ counter.age + 1 \in 0 .. Window + 1
      BY <1>1 DEF Counter
    <3> QED
      BY <3>1, <3>2 DEF Counter
  <2>4. cutOff'
    BY <2>1, <2>3 DEF PassTime
  <2>5. RateLimitTypeOK'
    BY <1>3, <2>3 DEF PassTime, RateLimitTypeOK
  <2> QED
    BY <1>2, <2>3, <2>4, <2>5 DEF OwedAtOnce, EndsInWindow, Missed
<1>6. CASE counter.ttl \notin {1, None}
  <2>1. counter' = [counter EXCEPT !.ttl = @ - 1, !.age = @ + 1]
    BY <1>6 DEF PassTime
  <2>2. /\ counter' \in Counter /\ counter'.ttl # None
        /\ counter'.age + counter'.ttl = counter.age + counter.ttl
    <3>1. counter' = [count |-> counter.count, ttl |-> counter.ttl - 1, age |-> counter.age + 1]
      BY <1>1, <2>1 DEF Counter
    <3>2. /\ counter.count \in 1 .. MaxCount /\ counter.age \in 0 .. Window
          /\ counter.ttl \in 2 .. Window
      BY <1>1, <1>6 DEF Counter
    <3>3. counter.ttl - 1 \in 1 .. Window /\ counter.age + 1 \in 0 .. Window + 1
      BY <3>2
    <3> QED
      BY <3>1, <3>2, <3>3 DEF Counter
  <2>3. counter.age + counter.ttl <= Window
    BY <1>1, <1>6 DEF EndsInWindow
  <2>4. RateLimitTypeOK'
    BY <1>3, <2>2 DEF PassTime, RateLimitTypeOK
  <2> QED
    BY <1>2, <2>2, <2>3, <2>4 DEF OwedAtOnce, EndsInWindow, Missed
<1> QED
  BY <1>4, <1>5, <1>6

LEMMA NextRateLimit ==
  RateLimitInvariant /\ [RateLimitNext]_rateLimitVars => RateLimitInvariant'
<1> SUFFICES ASSUME RateLimitInvariant, [RateLimitNext]_rateLimitVars
             PROVE  RateLimitInvariant'
  OBVIOUS
<1> USE RateLimitAssumption DEF RateLimitInvariant
<1>1. ASSUME NEW p \in Processes, Connect(p) PROVE RateLimitInvariant'
  <2>1. /\ connections' \in [Processes -> {"new", "connected", "unavailable"}]
        /\ redisUp' = redisUp /\ counter' = counter /\ checks' = checks /\ cutOff' = cutOff
    BY <1>1 DEF Connect, RateLimitTypeOK
  <2> QED
    BY <2>1 DEF RateLimitTypeOK, OwedAtOnce, EndsInWindow, Missed
<1>2. CASE SwitchRedis
  <2>1. /\ counter' \in {counter, None} /\ checks' = checks
        /\ counter' # None => cutOff' = cutOff
    BY <1>2 DEF SwitchRedis, RateLimitTypeOK
  <2>2. RateLimitTypeOK'
    BY <1>2, <2>1 DEF SwitchRedis, RateLimitTypeOK
  <2> QED
    BY <2>1, <2>2 DEF OwedAtOnce, EndsInWindow, Missed
<1>3. CASE UNCHANGED rateLimitVars
  BY <1>3 DEF rateLimitVars, RateLimitTypeOK, OwedAtOnce, EndsInWindow, Missed
<1> QED
  BY <1>1, <1>2, <1>3, IncrPreserves, ConcludePreserves, FailExpirePreserves,
     RestartPreserves, PassTimePreserves
  DEF RateLimitNext

\* RateLimitInvariant holds in every reachable state.
THEOREM RateLimitInvariantHolds == RateLimitSpec => []RateLimitInvariant
<1>1. RateLimitInit => RateLimitInvariant
  BY InitRateLimit
<1>2. RateLimitInvariant /\ [RateLimitNext]_rateLimitVars => RateLimitInvariant'
  BY NextRateLimit
<1> QED
  BY <1>1, <1>2, PTL DEF RateLimitSpec

\* The variables of the limiter keep their shape.
THEOREM RateLimitTypeCorrect == RateLimitSpec => []RateLimitTypeOK
<1>1. RateLimitInvariant => RateLimitTypeOK
  BY DEF RateLimitInvariant
<1> QED
  BY <1>1, RateLimitInvariantHolds, PTL

\* A caller who was turned away is let in again when the window ends, unless the
\* check that created the counter did not get to its EXPIRE.
THEOREM WindowsEnd == RateLimitSpec => []WindowHonoured
<1>1. RateLimitInvariant => WindowHonoured
  <2> SUFFICES ASSUME RateLimitInvariant, counter # None, ~ cutOff
               PROVE  counter.age <= Window
    BY DEF WindowHonoured
  <2>1. counter \in Counter
    BY DEF RateLimitInvariant, RateLimitTypeOK
  <2>2. CASE counter.ttl = None
    <3>1. counter.age = 0
      BY <2>2 DEF RateLimitInvariant, EndsInWindow, OwedAtOnce
    <3> QED
      BY <3>1, RateLimitAssumption
  <2>3. CASE counter.ttl # None
    BY <2>1, <2>3, RateLimitAssumption DEF RateLimitInvariant, EndsInWindow, Counter
  <2> QED
    BY <2>2, <2>3
<1> QED
  BY <1>1, RateLimitInvariantHolds, PTL

(***************************************************************************)
(* The components side by side, as they are run                            *)
(***************************************************************************)

\* What the component in focus keeps so, and the others keep by standing still.
AllShaped ==
  EnquiriesTypeInvariant /\ OnboardingInvariant /\ ContentTypeInvariant /\ RateLimitInvariant

LEMMA InitAll == MCInit => AllShaped
  BY InitForms, InitOnboarding, InitContentTypes, InitRateLimit DEF MCInit, AllShaped

LEMMA NextAll == AllShaped /\ [MCNext]_mcVars => AllShaped'
<1> SUFFICES ASSUME AllShaped, [MCNext]_mcVars PROVE AllShaped'
  OBVIOUS
<1>1. EnquiriesTypeInvariant'
  <2>1. CASE ServicesNext /\ UNCHANGED <<fields, visitors, enquiries>>
    <3>1. ServicesTypeOK'
      BY <2>1, NextTables DEF AllShaped, EnquiriesTypeInvariant
    <3> QED
      BY <2>1, <3>1
      DEF AllShaped, EnquiriesTypeInvariant, EnquiriesTypeOK, VisitorsShaped, EnquiriesStored
  <2>2. CASE [EnquiriesNext]_enquiriesVars
    BY <2>2, NextForms DEF AllShaped
  <2> QED
    BY <2>1, <2>2 DEF MCNext, mcVars
<1>2. OnboardingInvariant'
  <2>1. [OnboardingNext]_onboardingVars
    BY DEF MCNext, mcVars
  <2> QED
    BY <2>1, NextOnboarding DEF AllShaped
<1>3. ContentTypeInvariant'
  <2>1. [ContentNext]_contentVars
    BY DEF MCNext, mcVars
  <2> QED
    BY <2>1, NextContentTypes DEF AllShaped
<1>4. RateLimitInvariant'
  <2>1. [RateLimitNext]_rateLimitVars
    BY DEF MCNext, mcVars
  <2> QED
    BY <2>1, NextRateLimit DEF AllShaped
<1> QED
  BY <1>1, <1>2, <1>3, <1>4 DEF AllShaped

\* The types of every component of the website, whichever is in focus: the tables of
\* the taxonomy, the form, the wizard, the content and the counters of the limiter.
THEOREM TypesCorrect == MCSpec => []TypesOK
<1>1. AllShaped => TypesOK
  BY DEF AllShaped, TypesOK, EnquiriesTypeInvariant, OnboardingInvariant, ContentTypeInvariant,
         RateLimitInvariant
<1> QED
  BY <1>1, InitAll, NextAll, PTL DEF MCSpec
=============================================================================
