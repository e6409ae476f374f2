-------------------------------- MODULE Study --------------------------------
(***************************************************************************)
(* One Study run, about a note the learner has named: a request prepares   *)
(* the diagnostic with an agent run, the learner's answers are made a path *)
(* with exercises by a model call, and each attempt at an exercise is      *)
(* graded by another and moves its review.                                 *)
(*                                                                         *)
(* Every request is an HTTP handler that reads first and writes later; its *)
(* client may have gone by then, and sends it again when no answer came.   *)
(***************************************************************************)
EXTENDS Naturals, FiniteSets

CONSTANTS
    StudyHandlers,
    Objectives,
    VaultNotes,         \* what a search may find and a model may cite
    AttemptKeys,        \* idempotency keys of attempts
    MaxPrepares,        \* bound: times the specification is replaced
    MaxStudyEdits,      \* bound: versions of the target note
    MaxStudyEnds        \* bound: handlers dropped and stops of Core

ASSUME StudyAssumption == {MaxPrepares, MaxStudyEdits, MaxStudyEnds} \subseteq Nat

VARIABLES
    studyRun,           \* the run: state, version, what its specification asks
    session,            \* study_sessions
    studyNote,          \* version of the target note in the Vault
    student,            \* what each handler is doing, and has read
    agent,              \* the spawned task of the run
    exercises,          \* study_exercise_rubrics, by the submission they are of
    attempts,           \* study_attempts
    review,             \* study_review_state of the exercise
    studyEnds           \* bound

studyVars == <<studyRun, session, studyNote, student, agent, exercises, attempts, review, studyEnds>>

Subject == [objective : Objectives, note : 0 .. MaxStudyEdits]
Submissions == [objective : Objectives, evidence : Objectives, asked : SUBSET Subject,
                note : 0 .. MaxStudyEdits, found : SUBSET VaultNotes, by : StudyHandlers]
IdleStudent == [step |-> "idle", about |-> {}, version |-> 0, key |-> {}, correct |-> FALSE]

StudyTypeOK ==
    /\ studyRun \in [state : {"proposed", "running", "completed", "retryable"}, version : Nat,
                     spec : {{}} \cup {{s} : s \in Subject}]
    /\ session \in [request : SUBSET Objectives, objective : SUBSET Objectives,
                    status : {"none", "pending", "ready", "invalid_output"}, asked : SUBSET Subject,
                    submitted : BOOLEAN, artifact : {{}} \cup {{s} : s \in Submissions}, cited : SUBSET VaultNotes]
    /\ studyNote \in 0 .. MaxStudyEdits
    /\ \A h \in StudyHandlers :
           /\ student[h].step \in {"idle", "checked", "saved", "replaced", "building", "grading"}
           /\ student[h].about \in {{}} \cup {{s} : s \in Subject} \cup {{s} : s \in Submissions}
    /\ agent \in {"none", "advancing", "done"}
    /\ exercises \in {{}} \cup {{s} : s \in Submissions}
    /\ attempts \in SUBSET [key : AttemptKeys, correct : BOOLEAN]
    /\ review \in [errors : Nat, successes : Nat]

StudyInit ==
    /\ studyRun = [state |-> "proposed", version |-> 1, spec |-> {}]
    /\ session = [request |-> {}, objective |-> {}, status |-> "none", asked |-> {},
                  submitted |-> FALSE, artifact |-> {}, cited |-> {}]
    /\ studyNote = 0 /\ student = [h \in StudyHandlers |-> IdleStudent] /\ agent = "none"
    /\ exercises = {} /\ attempts = {} /\ review = [errors |-> 0, successes |-> 0]
    /\ studyEnds = 0

Step(h, step) == student' = [student EXCEPT ![h].step = step]
AnswerStudent(h) == student' = [student EXCEPT ![h] = IdleStudent]
PracticeUnchanged == UNCHANGED <<exercises, attempts, review>>

EditStudyNote ==
    /\ studyNote < MaxStudyEdits /\ studyNote' = studyNote + 1
    /\ UNCHANGED <<studyRun, session, student, agent, studyEnds>> /\ PracticeUnchanged

-----------------------------------------------------------------------------
(* The diagnostic *)

\* prepare_study reads the session, the run, and the note that was named.
BeginPrepare(h, o) ==
    /\ student[h] = IdleStudent
    /\ session.status # "ready" /\ studyRun.state = "proposed"
    /\ student' = [student EXCEPT ![h] = [IdleStudent EXCEPT
           !.step = "checked", !.version = studyRun.version,
           !.about = {[objective |-> o, note |-> studyNote]}]]
    /\ UNCHANGED <<studyRun, session, studyNote, agent, studyEnds>> /\ PracticeUnchanged

\* save_study_session: a session that exists keeps its request.
SavedSession(objectives, status, asked) ==
    [session EXCEPT !.request = IF session.status = "none" THEN objectives ELSE @,
                    !.objective = objectives, !.status = status, !.asked = asked, !.artifact = {}, !.cited = {}]

SavePending(h) ==
    /\ student[h].step = "checked"
    /\ session' = SavedSession({s.objective : s \in student[h].about}, "pending", {})
    /\ Step(h, "saved")
    /\ UNCHANGED <<studyRun, studyNote, agent, studyEnds>> /\ PracticeUnchanged

Replaceable(h) == studyRun.state = "proposed" /\ studyRun.version = student[h].version

\* replace_proposed_run_task_spec
ReplaceStudySpec(h) ==
    /\ student[h].step = "saved"
    /\ studyRun.version <= MaxPrepares
    /\ IF Replaceable(h)
       THEN /\ studyRun' = [studyRun EXCEPT !.version = @ + 1, !.spec = student[h].about]
            /\ Step(h, "replaced")
       ELSE AnswerStudent(h) /\ UNCHANGED studyRun
    /\ UNCHANGED <<session, studyNote, agent, studyEnds>> /\ PracticeUnchanged

\* spawn_agent_run takes the run as it is now, or is refused: no provider, the
\* run is already advancing, or it has ended. The handler then only polls.
SpawnStudyRun(h) ==
    /\ student[h].step = "replaced"
    /\ \/ /\ agent = "none" /\ studyRun.state = "proposed"
          /\ agent' = "advancing"
          /\ studyRun' = [studyRun EXCEPT !.state = "running", !.version = @ + 1]
       \/ UNCHANGED <<agent, studyRun>>
    /\ AnswerStudent(h)
    /\ UNCHANGED <<session, studyNote, studyEnds>> /\ PracticeUnchanged

\* advance_agent_run, for a run that waits or was interrupted
AdvanceStudyRun ==
    /\ agent = "none" /\ studyRun.state \in {"proposed", "retryable"}
    /\ studyRun.version <= MaxPrepares + 2
    /\ agent' = "advancing" /\ studyRun' = [studyRun EXCEPT !.state = "running", !.version = @ + 1]
    /\ UNCHANGED <<session, studyNote, student, studyEnds>> /\ PracticeUnchanged

\* Every end that is not a completion is one that may be retried.
StudyRunEnds ==
    /\ agent = "advancing"
    /\ \/ studyRun' = [studyRun EXCEPT !.state = "completed", !.version = @ + 1] /\ agent' = "done"
       \/ studyRun' = [studyRun EXCEPT !.state = "retryable", !.version = @ + 1] /\ agent' = "none"
    /\ UNCHANGED <<session, studyNote, student, studyEnds>> /\ PracticeUnchanged

\* persist_agent_outcome, its read and its write together: a run that nobody has
\* prepared has no session, and questions that are valid make the diagnostic ready.
PersistDiagnostic ==
    /\ agent = "done" /\ agent' = "none"
    /\ \/ session.status = "none" /\ UNCHANGED session
       \/ session' = SavedSession(session.objective, "ready", studyRun.spec)
       \/ session' = SavedSession(session.objective, "invalid_output", {})
    /\ UNCHANGED <<studyRun, studyNote, student, studyEnds>> /\ PracticeUnchanged

-----------------------------------------------------------------------------
(* The path *)

\* submit_study_path; the Vault is searched for the objective of the request.
BeginPath(h) ==
    /\ student[h] = IdleStudent /\ session.status = "ready" /\ ~session.submitted
    /\ \E o \in session.objective, e \in session.request, found \in SUBSET VaultNotes :
           student' = [student EXCEPT ![h] = [IdleStudent EXCEPT !.step = "building",
               !.about = {[objective |-> o, evidence |-> e, asked |-> session.asked,
                           note |-> studyNote, found |-> found, by |-> h]}]]
    /\ UNCHANGED <<studyRun, session, studyNote, agent, studyEnds>> /\ PracticeUnchanged

\* What a model may answer with: a readiness of the three, and steps and exercises of
\* which each can be used or not; and the notes its prerequisites and steps refer to.
PathReplies == [readiness : BOOLEAN, steps : SUBSET BOOLEAN, exercises : SUBSET BOOLEAN,
                cites : SUBSET VaultNotes]

\* normalize_study_artifact gives up at the first part it cannot use ...
Usable(reply) == reply.readiness /\ reply.steps = {TRUE} /\ reply.exercises = {TRUE}

\* ... and leaves out references to notes that were not among those found.
Grounded(reply, h) == {n \in reply.cites : \E s \in student[h].about : n \in s.found}

\* Mutant: what the handler has read still holds.
SubmittableAsRead == TRUE

Submittable == ~session.submitted

\* save_study_artifact, if the model has answered with a path that passes.
FinishPath(h) ==
    /\ student[h].step = "building"
    /\ \/ \E reply \in PathReplies :
              /\ Usable(reply) /\ Submittable
              /\ session' = [session EXCEPT !.submitted = TRUE, !.artifact = student[h].about,
                                            !.cited = Grounded(reply, h)]
              /\ exercises' = exercises \cup student[h].about
       \/ UNCHANGED <<session, exercises>>
    /\ AnswerStudent(h)
    /\ UNCHANGED <<studyRun, studyNote, agent, attempts, review, studyEnds>>

-----------------------------------------------------------------------------
(* Practice *)

\* submit_study_attempt; its model call may come to either verdict, or fail.
BeginAttempt(h, k) ==
    /\ student[h] = IdleStudent /\ exercises # {}
    /\ \E verdict \in BOOLEAN :
           student' = [student EXCEPT ![h] = [IdleStudent EXCEPT
               !.step = "grading", !.key = {k}, !.correct = verdict]]
    /\ UNCHANGED <<studyRun, session, studyNote, agent, studyEnds>> /\ PracticeUnchanged

Fresh(h) == \A a \in attempts : a.key \notin student[h].key

\* save_study_attempt: the attempt and the review in one transaction, that a key
\* used before undoes.
FinishAttempt(h) ==
    /\ student[h].step = "grading"
    /\ \/ /\ Fresh(h)
          /\ attempts' = attempts \cup {[key |-> k, correct |-> student[h].correct] : k \in student[h].key}
          /\ review' = IF student[h].correct THEN [review EXCEPT !.successes = @ + 1]
                       ELSE [review EXCEPT !.errors = @ + 1]
       \/ UNCHANGED <<attempts, review>>
    /\ AnswerStudent(h)
    /\ UNCHANGED <<studyRun, session, studyNote, agent, exercises, studyEnds>>

-----------------------------------------------------------------------------
\* The client's connection ends, and its handler with it.
StudentLeaves(h) ==
    /\ student[h] # IdleStudent /\ studyEnds < MaxStudyEnds /\ studyEnds' = studyEnds + 1
    /\ AnswerStudent(h)
    /\ UNCHANGED <<studyRun, session, studyNote, agent>> /\ PracticeUnchanged

\* Core stops; a run that was advancing is for its user to retry.
StopStudy ==
    /\ studyEnds < MaxStudyEnds /\ studyEnds' = studyEnds + 1
    /\ student' = [h \in StudyHandlers |-> IdleStudent] /\ agent' = "none"
    /\ studyRun' = [studyRun EXCEPT !.state = IF @ = "running" THEN "retryable" ELSE @]
    /\ UNCHANGED <<session, studyNote>> /\ PracticeUnchanged

StudyNext ==
    \/ EditStudyNote \/ AdvanceStudyRun \/ StudyRunEnds \/ PersistDiagnostic \/ StopStudy
    \/ \E h \in StudyHandlers :
           \/ \E o \in Objectives : BeginPrepare(h, o)
           \/ SavePending(h) \/ ReplaceStudySpec(h) \/ SpawnStudyRun(h)
           \/ BeginPath(h) \/ FinishPath(h)
           \/ \E k \in AttemptKeys : BeginAttempt(h, k)
           \/ FinishAttempt(h) \/ StudentLeaves(h)

StudySpec == StudyInit /\ [][StudyNext]_studyVars

-----------------------------------------------------------------------------
(* Properties *)

\* A session's exercises are of one submission, the one whose path it shows, and what
\* is due is counted from the attempts that were kept, each key once; the questions
\* are those of the specification the run was started with (submit_study_path,
\* submit_study_attempt, replace_proposed_run_task_spec).
StudyIsConsistent ==
    /\ Cardinality(exercises) <= 1 /\ (exercises # {} <=> session.submitted)
    /\ session.artifact \subseteq exercises /\ \A a \in session.artifact : session.cited \subseteq a.found
    /\ \A a, b \in attempts : a.key = b.key => a = b
    /\ review = [errors |-> Cardinality({a \in attempts : ~a.correct}),
                 successes |-> Cardinality({a \in attempts : a.correct})]
    /\ session.status = "ready" => session.asked = studyRun.spec /\ studyRun.state = "completed"

=============================================================================
