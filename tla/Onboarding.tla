----------------------------- MODULE Onboarding -----------------------------
(***************************************************************************)
(* The onboarding wizard, whose steps and questions are rows that editors  *)
(* change, and one client's answers to it: the second half of              *)
(* app/services/profile_service.py with app/api/v1/portal/profile.py and   *)
(* the wizard routes of app/api/v1/admin/notes.py.                         *)
(*                                                                         *)
(* Answers are stored by question, submitted and read by the question's    *)
(* key, and keys are unique within a step only.                            *)
(***************************************************************************)
EXTENDS Handlers, Naturals, Sequences, Functions

CONSTANTS
  Steps,         \* numbers of the steps, in the order they are shown
  QuestionKeys,  \* keys of questions
  SeededQuestions,   \* the wizard that seed_wizard leaves: pairs of step and key
  Submissions,   \* what clients may submit: functions from keys to Answer
  MaxQuestions   \* bound on the questions ever created

Answer == {"given", "blank"}

ASSUME OnboardingAssumption ==
  /\ Steps \subseteq Nat
  /\ SeededQuestions \in Seq(Steps \X QuestionKeys)
  /\ \A i, j \in DOMAIN SeededQuestions : SeededQuestions[i] = SeededQuestions[j] => i = j
  /\ Submissions \subseteq UNION {[K -> Answer] : K \in SUBSET QuestionKeys}
  /\ MaxQuestions \in Nat /\ Len(SeededQuestions) <= MaxQuestions
  /\ None \notin Answer

VARIABLES
  closed,      \* steps that are not active
  questions,   \* questions[q]: the question with id q, in the order of creation
  responses,   \* responses[q]: the committed answer to q, or None
  completed,   \* None until the wizard is completed, then the questions that it
               \* vouches for: those required as it was, less those whose key is
               \* not theirs alone, or whose answer was blanked or overlapped on
               \* since (beyond None or not, and late, these are for the property)
  filling      \* filling[r]: the save in slot r, or None

onboardingVars == <<closed, questions, responses, completed, filling>>

-----------------------------------------------------------------------------
QuestionIds == DOMAIN questions

Question == [step: Steps, key: QuestionKeys, required: BOOLEAN, active: BOOLEAN]

OverQuestions(S) == UNION {[Q -> S] : Q \in SUBSET (1 .. MaxQuestions)}

\* answers: what it is going to store, by question.  had: the rows it found,
\* before the flush for those, and then for the others it checked.  required:
\* the questions to check, None if the wizard is not to be completed.  late:
\* those it stored an answer of over one that it had not seen.
Filling == [pc: {"flush", "commit"}, answers: OverQuestions(Answer),
            had: OverQuestions(Answer \cup {None}),
            required: (SUBSET (1 .. MaxQuestions)) \cup {None},
            late: SUBSET (1 .. MaxQuestions)]

\* wizard_steps: what the wizard shows.
Shown == {q \in QuestionIds : questions[q].active /\ questions[q].step \notin closed}

\* By step, and within a step by creation (sort_order).
Before(p, q) ==
  \/ questions[p].step < questions[q].step
  \/ questions[p].step = questions[q].step /\ p < q

\* active_questions: a dict by key, in which the last question of a key stays.
ActiveQuestions ==
  {q \in Shown : \A p \in Shown : questions[p].key = questions[q].key /\ p # q => Before(p, q)}

OnboardingInit ==
  /\ closed = {}
  /\ questions = [q \in DOMAIN SeededQuestions |->
       [step |-> SeededQuestions[q][1], key |-> SeededQuestions[q][2],
        required |-> TRUE, active |-> TRUE]]
  /\ responses = [q \in 1 .. MaxQuestions |-> None]
  /\ completed = None
  /\ filling = [r \in Requests |-> None]

-----------------------------------------------------------------------------
(* The client: save_answers in three steps. *)

\* Up to the flush.  Submitted keys without a question are ignored.
BeginFilling(r, submitted, complete) ==
  /\ filling[r] = None
  /\ LET stored == {q \in ActiveQuestions : questions[q].key \in DOMAIN submitted} IN
       filling' = [filling EXCEPT ![r] =
         [pc |-> "flush",
          answers |-> [q \in stored |-> submitted[questions[q].key]],
          had |-> Restrict(responses, stored),
          required |-> IF complete THEN {q \in ActiveQuestions : questions[q].required} ELSE None,
          late |-> {}]]
  /\ UNCHANGED <<closed, questions, responses, completed>>

\* read_answers after the flush: its own answers, also where the row has
\* changed since it was loaded, and what is committed of the others.
ReadAnswer(h, p) == IF p \in DOMAIN h.answers THEN h.answers[p] ELSE responses[p]

\* Deviation: an answer left blank will do.
IsAnsweredAtAll(h, q) ==
  \E p \in QuestionIds : questions[p].key = questions[q].key /\ ReadAnswer(h, p) # None

\* By key: where questions share one, active or not, any of their answers may
\* be the one that read_answers returns.
IsAnswered(h, q) ==
  \E p \in QuestionIds : questions[p].key = questions[q].key /\ ReadAnswer(h, p) = "given"

\* The flush and the check.  The flush waits for a save that has flushed an
\* answer to the same question, and fails if that had none and now has one.
FlushFilling(r) ==
  /\ filling[r] # None /\ filling[r].pc = "flush"
  /\ LET h == filling[r] IN
       /\ \A other \in Requests \ {r} : filling[other] # None /\ filling[other].pc = "commit"
            => DOMAIN h.answers \cap DOMAIN filling[other].answers = {}
       /\ \A q \in DOMAIN h.answers : h.had[q] = None => responses[q] = None    \* uq_onboarding_response
       /\ h.required # None => \A q \in h.required : IsAnswered(h, q)
       /\ filling' = [filling EXCEPT ![r] =
            [h EXCEPT !.pc = "commit",
                      !.answers = [q \in DOMAIN h.answers |->
                                     Written(responses[q], h.had[q], h.answers[q])],
                      !.had = IF h.required = None THEN <<>>
                              ELSE Restrict(responses, h.required \ DOMAIN h.answers),
                      !.late = {q \in DOMAIN h.answers : responses[q] # h.had[q]}]]
  /\ UNCHANGED <<closed, questions, responses, completed>>

SharesKey(q) == \E p \in QuestionIds \ {q} : questions[p].key = questions[q].key

CommitFilling(r) ==
  /\ filling[r] # None /\ filling[r].pc = "commit"
  /\ LET h == filling[r]
         stored == DOMAIN h.answers
         moved == {q \in DOMAIN h.had : responses[q] # h.had[q]} IN
       /\ responses' = [q \in DOMAIN responses |->
            IF q \in stored THEN h.answers[q] ELSE responses[q]]
       /\ completed' =
            LET kept == IF h.required = None THEN completed
                        ELSE {q \in h.required : ~ SharesKey(q)}
                blanked == {q \in stored : h.answers[q] = "blank"}
            IN IF kept = None THEN None ELSE kept \ (blanked \cup h.late \cup moved)
  /\ filling' = [filling EXCEPT ![r] = None]
  /\ UNCHANGED <<closed, questions>>

AbortFilling(r) ==
  /\ filling[r] # None
  /\ filling' = [filling EXCEPT ![r] = None]
  /\ UNCHANGED <<closed, questions, responses, completed>>

-----------------------------------------------------------------------------
(* The editors.  Each is one short transaction. *)

\* create_question.  Its look-up has uq_wizard_question_key behind it, so two
\* at once are no different from one after the other.
CreateQuestion(step, key, required) ==
  /\ Len(questions) < MaxQuestions
  /\ \A q \in QuestionIds : questions[q].step = step => questions[q].key # key
  /\ questions' = Append(questions,
       [step |-> step, key |-> key, required |-> required, active |-> TRUE])
  /\ UNCHANGED <<closed, responses, completed, filling>>

DeactivateQuestion(q) ==
  /\ questions[q].active
  /\ questions' = [questions EXCEPT ![q].active = FALSE]
  /\ UNCHANGED <<closed, responses, completed, filling>>

\* deactivate_step, and update_step, which may activate it again.
SetStepActive(step, active) ==
  /\ \E q \in QuestionIds : questions[q].step = step     \* no difference without
  /\ closed' = IF active THEN closed \ {step} ELSE closed \cup {step}
  /\ UNCHANGED <<questions, responses, completed, filling>>

OnboardingNext ==
  \/ \E r \in Requests :
       \/ \E submitted \in Submissions, complete \in BOOLEAN : BeginFilling(r, submitted, complete)
       \/ FlushFilling(r)
       \/ CommitFilling(r)
       \/ AbortFilling(r)
  \/ \E s \in Steps, k \in QuestionKeys, required \in BOOLEAN : CreateQuestion(s, k, required)
  \/ \E q \in QuestionIds : DeactivateQuestion(q)
  \/ \E s \in Steps, active \in BOOLEAN : SetStepActive(s, active)

OnboardingSpec == OnboardingInit /\ [][OnboardingNext]_onboardingVars

-----------------------------------------------------------------------------
(***************************************************************************)
(* Properties                                                              *)
(***************************************************************************)

\* The variables keep their shape; only questions that exist are answered, no
\* step has two questions of a key, and no two saves hold one answer's row.
OnboardingTypeOK ==
  /\ closed \subseteq Steps
  /\ questions \in Seq(Question) /\ Len(questions) <= MaxQuestions
  /\ responses \in [1 .. MaxQuestions -> Answer \cup {None}]
  /\ \A q \in DOMAIN responses \ QuestionIds : responses[q] = None
  /\ completed # None => completed \subseteq QuestionIds
  /\ filling \in [Requests -> Filling \cup {None}]
  /\ \A p, q \in QuestionIds : questions[p].step = questions[q].step /\ questions[p].key = questions[q].key
                         => p = q
  /\ \A r, other \in Requests :
       /\ r # other /\ filling[r] # None /\ filling[other] # None
       /\ filling[r].pc = "commit" /\ filling[other].pc = "commit"
       => DOMAIN filling[r].answers \cap DOMAIN filling[other].answers = {}

\* "Required answers are checked at completion": of a client whose onboarding is
\* complete, every question that was required has an answer that is not blank,
\* whatever editors and other saves do meanwhile - unless a save blanked it or
\* overlapped on it, or another question has, or had, the same key.
CompletionAnswered ==
  completed # None => \A q \in completed : responses[q] = "given"

-----------------------------------------------------------------------------
\* The inductive invariant behind CompletionAnswered: a save answers and checks
\* questions that exist, what it found answered stays answered, and of what it
\* checked and does not store it has seen the answer - its own, unless another
\* question has the key.
FillingKnows(h) ==
  /\ DOMAIN h.answers \subseteq QuestionIds
  /\ h.required # None => h.required \subseteq QuestionIds
  /\ h.pc = "flush" =>
       /\ DOMAIN h.had = DOMAIN h.answers
       /\ \A q \in DOMAIN h.had : h.had[q] # None => responses[q] # None
  /\ h.pc = "commit" /\ h.required # None =>
       /\ DOMAIN h.had = h.required \ DOMAIN h.answers
       /\ \A q \in DOMAIN h.had : h.had[q] = "given" \/ SharesKey(q)

FillingsKnow == \A r \in Requests : filling[r] # None => FillingKnows(filling[r])

OnboardingInvariant == OnboardingTypeOK /\ FillingsKnow /\ CompletionAnswered
=============================================================================
