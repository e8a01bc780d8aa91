------------------------------ MODULE Grading ------------------------------
(***************************************************************************)
(* Submitting and grading an exam: the submit screen of a student and of   *)
(* the teacher (frontend/src/components/dashboard/screens/SubmitScreen),   *)
(* the requests of lib/api/grading, and what Rails and its job workers do  *)
(* with them (backend/app).  One student, so a sheet is known by its exam. *)
(*                                                                         *)
(* Contents are versions: the n-th file sent for a sheet or a key is n, 0  *)
(* is none, and the n-th set of questions has ids of its own.  The worker  *)
(* of the grading queue has one thread; a request and a job's critical     *)
(* section are one action each.                                            *)
(***************************************************************************)
EXTENDS Integers, FiniteSets

CONSTANTS
  Exams, None,
  Numbers,                          \* the questions of an exam
  Attempts,                         \* of a grading job
  MaxImages, MaxKeys, MaxSets,      \* bounds: files and question sets of each exam
  MaxJobs                           \* bound: grading jobs of a sheet that wait for a regrade

ASSUME GradingAssumption ==
  /\ None \notin Exams
  /\ IsFiniteSet(Numbers) /\ Numbers # {}
  /\ Attempts \in Nat \ {0} /\ MaxJobs \in Nat
  /\ {MaxImages, MaxKeys, MaxSets} \subseteq [Exams -> Nat]

VARIABLES
  exams,        \* the exams the teacher has created
  key,          \* the answer key of each exam
  questions,    \* the registered set of questions of each exam
  sheet,        \* the student's sheet of each exam
  ocr,          \* OcrAnswerSheetJob: how many wait, and how many are half way
  rekey,        \* OcrAnswerKeyJob: how many wait
  waiting,      \* GradeAnswerSheetJob: how many wait that failed so often
  worker,       \* the job of the grading thread
  student,      \* the student's screen: the exam, and "done"
  upload,       \* the student's upload of each exam
  desk,         \* the teacher's screen: the exam, the step and, when a sheet is graded, TRUE
  setup,        \* registerQuestions on its way, for each exam
  view,         \* the query of each exam's sheet, with the questions
  marks,        \* correctness: the ids of the questions marked
  applied       \* aiApplied

backend == <<exams, key, questions, sheet>>
jobs == <<ocr, rekey, waiting, worker>>
pupil == <<student, upload>>
paper == <<view, marks, applied>>
teacher == <<desk, paper, setup>>
vars == <<backend, jobs, pupil, teacher>>

-----------------------------------------------------------------------------
Status == {"pending", "ocr_done", "scored"}

AiGrading == {"null", "processing", "failed", "done"}

(* ai: what ai_grading says; of: the key its results, if any, come from. *)
Sheet == [image : Nat, status : Status, ai : AiGrading, of : Nat]

NoSheet == [image |-> 0, status |-> "pending", ai |-> "null", of |-> 0]

(* What the requests write: a new image, to be read, under the ai_grading  *)
(* of the old one; no results, before a grading anew; a score.             *)
Received(e) == [sheet EXCEPT ![e].image = @ + 1, ![e].status = "pending"]
Cleared(e) == [sheet EXCEPT ![e].ai = "null", ![e].of = 0]
Scored(e) == [sheet EXCEPT ![e].status = "scored"]

Idle == [exam |-> None]
Job == [exam : Exams, failures : 0..(Attempts - 1), of : Nat]

(* The ids of the questions of the n-th set. *)
Ids(n) == IF n = 0 THEN {} ELSE {n} \X Numbers

(* What the grading step tells apart of a sheet it was served, if it was. *)
View == [status : {"none", "pending", "read"}, ai : {"none", "processing", "done"}, set : Nat]
NoView == [status |-> "none", ai |-> "none", set |-> 0]

-----------------------------------------------------------------------------
Init ==
  /\ exams = {}
  /\ key = [e \in Exams |-> 0]
  /\ questions = [e \in Exams |-> 0]
  /\ sheet = [e \in Exams |-> NoSheet]
  /\ ocr = [e \in Exams |-> [wait |-> 0, half |-> 0]]
  /\ rekey = [e \in Exams |-> 0]
  /\ waiting = [e \in Exams |-> [n \in 0..(Attempts - 1) |-> 0]]
  /\ worker = Idle
  /\ student = [exam |-> None, done |-> FALSE]
  /\ upload = [e \in Exams |-> FALSE]
  /\ desk = [exam |-> None, step |-> "questions", open |-> FALSE]
  /\ view = [e \in Exams |-> NoView]
  /\ marks = {} /\ applied = FALSE
  /\ setup = [e \in Exams |-> FALSE]

-----------------------------------------------------------------------------
(* The jobs.  Enqueue: perform_later of a grading job. *)

Enqueue(e, n) == [waiting EXCEPT ![e][n] = @ + 1]

OcrSheetMarks(e) ==
  /\ ocr[e].wait > 0
  /\ ocr' = [ocr EXCEPT ![e].wait = @ - 1, ![e].half = @ + 1]
  /\ sheet' = [sheet EXCEPT ![e].status = "ocr_done"]
  /\ UNCHANGED <<exams, key, questions, rekey, waiting, worker, pupil, teacher>>

OcrSheetAsks(e) ==
  /\ ocr[e].half > 0
  /\ ocr' = [ocr EXCEPT ![e].half = @ - 1]
  /\ waiting' = IF key[e] > 0 THEN Enqueue(e, 0) ELSE waiting
  /\ UNCHANGED <<backend, rekey, worker, pupil, teacher>>

(* Mutant: a sheet with a score is not graded anew. *)
UnscoredOnly(e) ==
  /\ rekey[e] > 0
  /\ rekey' = [rekey EXCEPT ![e] = @ - 1]
  /\ IF sheet[e].image > 0 /\ sheet[e].status = "ocr_done"
     THEN /\ sheet' = Cleared(e)
          /\ waiting' = Enqueue(e, 0)
     ELSE UNCHANGED <<sheet, waiting>>
  /\ UNCHANGED <<exams, key, questions, ocr, worker, pupil, teacher>>

(* Only sheets that have been read are graded anew. *)
OcrKey(e) ==
  /\ rekey[e] > 0
  /\ rekey' = [rekey EXCEPT ![e] = @ - 1]
  /\ IF sheet[e].image > 0 /\ sheet[e].status \in {"ocr_done", "scored"}
     THEN /\ sheet' = Cleared(e)
          /\ waiting' = Enqueue(e, 0)
     ELSE UNCHANGED <<sheet, waiting>>
  /\ UNCHANGED <<exams, key, questions, ocr, worker, pupil, teacher>>

(* A grading job that finds the sheet graded has nothing to do. *)
GradeStarts(e, n) ==
  /\ worker = Idle
  /\ waiting[e][n] > 0
  /\ waiting' = [waiting EXCEPT ![e][n] = @ - 1]
  /\ IF key[e] = 0 \/ sheet[e].image = 0 \/ sheet[e].ai = "done"
     THEN UNCHANGED <<worker, sheet>>
     ELSE /\ worker' = [exam |-> e, failures |-> n, of |-> key[e]]
          /\ sheet' = [sheet EXCEPT ![e].ai = "processing", ![e].of = 0]
  /\ UNCHANGED <<exams, key, questions, ocr, rekey, pupil, teacher>>

(* The AI has answered; an exam without questions gets them from it. *)
GradeSucceeds ==
  /\ worker # Idle
  /\ sheet' = [sheet EXCEPT ![worker.exam].ai = "done", ![worker.exam].of = worker.of]
  /\ questions' = [questions EXCEPT ![worker.exam] = IF @ = 0 THEN 1 ELSE @]
  /\ worker' = Idle
  /\ UNCHANGED <<exams, key, ocr, rekey, waiting, pupil, teacher>>

(* Mutant: when no try is left, nobody says so. *)
GivesUpInSilence ==
  /\ worker # Idle
  /\ waiting' = IF worker.failures + 1 < Attempts
                THEN Enqueue(worker.exam, worker.failures + 1) ELSE waiting
  /\ worker' = Idle
  /\ UNCHANGED <<backend, ocr, rekey, pupil, teacher>>

(* An error of the AI or the network is tried again, any other is not. *)
GradeFails ==
  /\ worker # Idle
  /\ \/ /\ worker.failures + 1 < Attempts
        /\ waiting' = Enqueue(worker.exam, worker.failures + 1)
        /\ UNCHANGED sheet
     \/ /\ sheet' = [sheet EXCEPT ![worker.exam].ai = "failed", ![worker.exam].of = 0]
        /\ UNCHANGED waiting
  /\ worker' = Idle
  /\ UNCHANGED <<exams, key, questions, ocr, rekey, pupil, teacher>>

-----------------------------------------------------------------------------
(* The student's screen.  An upload goes on when the screen is left for    *)
(* the list of exams, and its answer comes to whatever is shown by then.   *)

SelectExam(e) ==
  /\ student.exam = None /\ e \in exams
  /\ student' = [student EXCEPT !.exam = e]
  /\ UNCHANGED <<backend, jobs, upload, teacher>>

Upload(e) ==
  /\ student.exam = e /\ ~student.done
  /\ ~upload[e] /\ sheet[e].image < MaxImages[e]
  /\ upload' = [upload EXCEPT ![e] = TRUE]
  /\ UNCHANGED <<backend, jobs, student, teacher>>

(* The request is answered, and onUploaded. *)
UploadAnswerSheet(e) ==
  /\ upload[e]
  /\ sheet' = Received(e)
  /\ ocr' = [ocr EXCEPT ![e].wait = @ + 1]
  /\ upload' = [upload EXCEPT ![e] = FALSE]
  /\ student' = [student EXCEPT !.done = TRUE]
  /\ UNCHANGED <<exams, key, questions, rekey, waiting, worker, teacher>>

UploadFails(e) ==
  /\ upload[e]
  /\ upload' = [upload EXCEPT ![e] = FALSE]
  /\ UNCHANGED <<backend, jobs, student, teacher>>

(* The breadcrumbs: back to the exams, and back to the upload. *)
StudentReset ==
  /\ student' = [exam |-> None, done |-> FALSE]
  /\ UNCHANGED <<backend, jobs, upload, teacher>>

UploadAgain ==
  /\ student.done
  /\ student' = [student EXCEPT !.done = FALSE]
  /\ UNCHANGED <<backend, jobs, upload, teacher>>

-----------------------------------------------------------------------------
(* The teacher's screen.  The grading step forgets its marks when it goes. *)

Forget ==
  marks' = {} /\ applied' = FALSE

(* The breadcrumbs. *)
TeacherReset ==
  /\ desk' = [exam |-> None, step |-> "questions", open |-> FALSE]
  /\ Forget
  /\ UNCHANGED <<backend, jobs, pupil, view, setup>>

BackToQuestions ==
  /\ desk.exam # None /\ desk.step = "grading"
  /\ desk' = [desk EXCEPT !.step = "questions", !.open = FALSE]
  /\ Forget
  /\ UNCHANGED <<backend, jobs, pupil, view, setup>>

(* Another tab: the statistics, or the sheet of another student. *)
OtherTab ==
  /\ desk.open
  /\ desk' = [desk EXCEPT !.open = FALSE]
  /\ Forget
  /\ UNCHANGED <<backend, jobs, pupil, view, setup>>

(* The exam is there without questions or a key, from ExamCreateScreen.    *)
CreateExam(e) ==
  /\ e \notin exams
  /\ exams' = exams \cup {e}
  /\ UNCHANGED <<key, questions, sheet, jobs, pupil, teacher>>

(* setSelectedExam keeps the step, whatever has become of it meanwhile. *)
TeacherSelects(e) ==
  /\ desk.exam = None /\ e \in exams
  /\ desk' = [desk EXCEPT !.exam = e]
  /\ UNCHANGED <<backend, jobs, pupil, paper, setup>>

(* The key reaches Rails, perhaps after the step has been left. *)
UploadAnswerKey(e) ==
  /\ e \in exams /\ key[e] < MaxKeys[e]
  /\ key' = [key EXCEPT ![e] = @ + 1]
  /\ rekey' = [rekey EXCEPT ![e] = @ + 1]
  /\ UNCHANGED <<exams, questions, sheet, ocr, waiting, worker, pupil, teacher>>

Save(e) ==
  /\ desk.exam = e /\ desk.step = "questions"
  /\ ~setup[e] /\ questions[e] < MaxSets[e]
  /\ setup' = [setup EXCEPT ![e] = TRUE]
  /\ UNCHANGED <<backend, jobs, pupil, desk, paper>>

(* onNext: of "skip", and of a save, whichever exam is shown by then. *)
Skip ==
  /\ desk.exam # None /\ desk.step = "questions"
  /\ desk' = [desk EXCEPT !.step = "grading"]
  /\ UNCHANGED <<backend, jobs, pupil, paper, setup>>

RegisterQuestions(e) ==
  /\ setup[e]
  /\ questions' = [questions EXCEPT ![e] = @ + 1]
  /\ setup' = [setup EXCEPT ![e] = FALSE]
  /\ desk' = [desk EXCEPT !.step = "grading"]
  /\ UNCHANGED <<exams, key, sheet, jobs, pupil, paper>>

SaveFails(e) ==
  /\ setup[e]
  /\ setup' = [setup EXCEPT ![e] = FALSE]
  /\ UNCHANGED <<backend, jobs, pupil, desk, paper>>

-----------------------------------------------------------------------------
(* The grading step: its query, kept between two of its lives, and the     *)
(* marks.  The AI's results come once, and may leave questions out.        *)

Served(e) ==
  [status |-> IF sheet[e].status = "pending" THEN "pending" ELSE "read",
   ai |-> IF sheet[e].ai \in {"processing", "done"} THEN sheet[e].ai ELSE "none",
   set |-> questions[e]]

TakeResults(v) == v.ai = "done" /\ v.set > 0

(* Mutant: the results are numbered from zero. *)
ResultsFromZero(v) ==
  IF ~applied /\ TakeResults(v)
  THEN marks' \in SUBSET {<<v.set, n - 1>> : n \in Numbers} /\ applied' = TRUE
  ELSE UNCHANGED <<marks, applied>>

ApplyResults(v) ==
  IF ~applied /\ TakeResults(v)
  THEN marks' \in SUBSET Ids(v.set) /\ applied' = TRUE
  ELSE UNCHANGED <<marks, applied>>

(* The list shows the sheet: its grading step, with what the query holds. *)
OpenSheet(e) ==
  /\ desk.exam = e /\ desk.step = "grading" /\ ~desk.open
  /\ sheet[e].image > 0
  /\ desk' = [desk EXCEPT !.open = TRUE]
  /\ ApplyResults(view[e])
  /\ UNCHANGED <<backend, jobs, pupil, view, setup>>

(* The query is answered.  One that is not leaves everything as it is, and *)
(* the screen does not say so: without data it goes on loading.            *)
Fetch(e) ==
  /\ desk.exam = e /\ desk.open
  /\ view' = [view EXCEPT ![e] = Served(e)]
  /\ ApplyResults(view'[e])
  /\ UNCHANGED <<backend, jobs, pupil, desk, setup>>

(* Mutant: a sheet that is being graded is not asked for again. *)
PollsPendingOnly(v) == v.status = "pending"

(* refetchInterval: the query asks again of itself only while the data it  *)
(* has wait for something; without data it does not.                       *)
Polling(v) == v.status = "pending" \/ v.ai = "processing"

Poll(e) == Polling(view[e]) /\ Fetch(e)

Ready(e) == desk.exam = e /\ desk.open /\ view[e] # NoView

Mark(e) ==
  /\ Ready(e)
  /\ \E q \in Ids(view[e].set) : marks' = marks \cup {q}
  /\ UNCHANGED <<backend, jobs, pupil, desk, view, applied, setup>>

handleAutoScore(e) ==
  /\ Ready(e) /\ view[e].ai = "done"
  /\ marks' \in SUBSET Ids(view[e].set)
  /\ applied' = TRUE
  /\ UNCHANGED <<backend, jobs, pupil, desk, view, setup>>

(* A regrade, and onSuccess: the marks go, the results will be taken again *)
(* and the query asks, of a sheet that is not yet being graded; perhaps in *)
(* vain.                                                                   *)
Regrade(e) ==
  /\ Ready(e) /\ view[e].ai # "processing"
  /\ \A n \in 0..(Attempts - 1) : waiting[e][n] < MaxJobs
  /\ sheet' = Cleared(e)
  /\ waiting' = Enqueue(e, 0)
  /\ view' \in {view, [view EXCEPT ![e] = [Served(e) EXCEPT !.ai = "none"]]}
  /\ Forget
  /\ UNCHANGED <<exams, key, questions, ocr, rekey, worker, pupil, desk, setup>>

(* As many marks as questions; the marks of other questions count too. *)
Submittable(e) == Cardinality(marks) >= Cardinality(Ids(view[e].set))

(* submitScore, and ScoreAnswerSheet: nothing here reads the score.  The   *)
(* result is shown until onDone opens a new grading step for the sheet.    *)
SubmitScore(e) ==
  /\ Ready(e) /\ Submittable(e)
  /\ sheet' = Scored(e)
  /\ desk' = [desk EXCEPT !.open = FALSE]
  /\ Forget
  /\ UNCHANGED <<exams, key, questions, jobs, pupil, view, setup>>

-----------------------------------------------------------------------------
Work(e) ==
  \/ OcrSheetMarks(e) \/ OcrSheetAsks(e) \/ OcrKey(e)
  \/ \E n \in 0..(Attempts - 1) : GradeStarts(e, n)

Student(e) ==
  \/ SelectExam(e) \/ Upload(e) \/ UploadAnswerSheet(e) \/ UploadFails(e)

Teacher(e) ==
  \/ CreateExam(e) \/ TeacherSelects(e) \/ UploadAnswerKey(e)
  \/ Save(e) \/ RegisterQuestions(e) \/ SaveFails(e)
  \/ OpenSheet(e) \/ Fetch(e) \/ Mark(e) \/ handleAutoScore(e)
  \/ Regrade(e) \/ SubmitScore(e)

Next ==
  \/ \E e \in Exams : Work(e) \/ Student(e) \/ Teacher(e)
  \/ GradeSucceeds \/ GradeFails
  \/ StudentReset \/ UploadAgain
  \/ TeacherReset \/ BackToQuestions \/ OtherTab \/ Skip

Spec == Init /\ [][Next]_vars

(* The queues are served in order by workers that run, the AI answers or   *)
(* the request times out, and a query whose data wait for something polls  *)
(* every three seconds until it is answered.                               *)
Fairness ==
  \A e \in Exams :
    /\ WF_vars(OcrSheetMarks(e)) /\ WF_vars(OcrSheetAsks(e)) /\ WF_vars(OcrKey(e))
    /\ \A n \in 0..(Attempts - 1) : SF_vars(GradeStarts(e, n))
    /\ WF_vars(GradeSucceeds \/ GradeFails)
    /\ WF_vars(Poll(e))

FairSpec == Spec /\ Fairness

-----------------------------------------------------------------------------
TypeOK ==
  /\ exams \subseteq Exams
  /\ key \in [Exams -> Nat] /\ questions \in [Exams -> Nat]
  /\ sheet \in [Exams -> Sheet]
  /\ ocr \in [Exams -> [wait : Nat, half : Nat]]
  /\ rekey \in [Exams -> Nat]
  /\ waiting \in [Exams -> [0..(Attempts - 1) -> Nat]]
  /\ worker \in Job \cup {Idle}
  /\ student \in [exam : Exams \cup {None}, done : BOOLEAN]
  /\ upload \in [Exams -> BOOLEAN] /\ setup \in [Exams -> BOOLEAN]
  /\ desk \in [exam : Exams \cup {None}, step : {"questions", "grading"}, open : BOOLEAN]
  /\ view \in [Exams -> View]
  /\ marks \subseteq Nat \X Numbers
  /\ applied \in BOOLEAN

(* A job that will grade the sheet of e waits. *)
GradingWaits(e) ==
  ocr[e].wait + ocr[e].half + rekey[e] > 0 \/ \E n \in 0..(Attempts - 1) : waiting[e][n] > 0

(* No sheet is forgotten between the queues: one that is to be read, to be *)
(* graded or said to be at work has a job that will see to it, in whatever *)
(* order the key and the sheet were sent and read.                         *)
NoSheetForgotten ==
  \A e \in Exams :
    /\ sheet[e].image > 0 /\ sheet[e].status = "pending" => ocr[e].wait > 0
    /\ sheet[e].image > 0 /\ sheet[e].status # "pending" /\ key[e] > 0 /\ sheet[e].ai = "null"
         => GradingWaits(e)
    /\ sheet[e].ai = "processing" => worker.exam = e \/ GradingWaits(e)

(* A grading that was asked for ends, with results or with a failure. *)
GradingEnds ==
  \A e \in Exams : (\E n \in 0..(Attempts - 1) : waiting[e][n] > 0) /\ key[e] > 0
    ~> sheet[e].ai \in {"done", "failed"}

(* What the grading step shows as on its way: that the sheet is read, or   *)
(* the AI's work.                                                          *)
Spins(v) == v.status = "pending" \/ v.ai = "processing"

(* A grading step that has its sheet does not leave the teacher before a   *)
(* spinner: it goes, or the teacher does.  (One that never got the sheet   *)
(* does: its first request is not repeated.)                               *)
SpinnerEnds ==
  \A e \in Exams :
    desk.exam = e /\ desk.open /\ Spins(view[e]) ~> ~(desk.exam = e /\ desk.open /\ Spins(view[e]))

(* With every job done, the AI's results are those of the key there is:    *)
(* what the job that is started by a new key is for.                       *)
GradingIsCurrent ==
  \A e \in Exams :
    sheet[e].ai = "done" /\ worker = Idle /\ ~GradingWaits(e)
      => sheet[e].of = key[e]
=============================================================================
