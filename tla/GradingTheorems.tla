-------------------------- MODULE GradingTheorems --------------------------
(***************************************************************************)
(* What holds of Grading for every number of exams, questions, tries and   *)
(* files: the types, that no sheet is forgotten between the queues, and    *)
(* that no score leaves a question out.                                    *)
(***************************************************************************)
EXTENDS Grading, FiniteSetTheorems, TLAPS

(* A job that has not failed yet is a job. *)
LEMMA ZeroTries == 0 \in 0..(Attempts - 1)
BY GradingAssumption

(* Enqueue adds a job, and takes none. *)
LEMMA EnqueueType ==
  ASSUME NEW e \in Exams, NEW n \in 0..(Attempts - 1), waiting \in [Exams -> [0..(Attempts - 1) -> Nat]]
  PROVE /\ Enqueue(e, n) \in [Exams -> [0..(Attempts - 1) -> Nat]]
        /\ Enqueue(e, n)[e][n] > 0
        /\ \A d \in Exams : \A m \in 0..(Attempts - 1) : Enqueue(e, n)[d][m] >= waiting[d][m]
<1> DEFINE w == [waiting[e] EXCEPT ![n] = @ + 1]
<1>1. waiting[e] \in [0..(Attempts - 1) -> Nat] /\ waiting[e][n] \in Nat OBVIOUS
<1>2. w \in [0..(Attempts - 1) -> Nat] /\ w[n] = waiting[e][n] + 1 BY <1>1
<1>3. Enqueue(e, n) = [waiting EXCEPT ![e] = w] BY DEF Enqueue
<1>4. \A m \in 0..(Attempts - 1) : w[m] >= waiting[e][m] BY <1>1
<1> HIDE DEF w
<1>5. Enqueue(e, n)[e] = w /\ \A d \in Exams \ {e} : Enqueue(e, n)[d] = waiting[d] BY <1>3
<1>6. \A d \in Exams : \A m \in 0..(Attempts - 1) : waiting[d][m] \in Nat OBVIOUS
<1>7. \A d \in Exams : \A m \in 0..(Attempts - 1) : Enqueue(e, n)[d][m] >= waiting[d][m]
  <2> SUFFICES ASSUME NEW d \in Exams, NEW m \in 0..(Attempts - 1) PROVE Enqueue(e, n)[d][m] >= waiting[d][m] OBVIOUS
  <2>1. CASE d = e BY <2>1, <1>4, <1>5
  <2>2. CASE d # e BY <2>2, <1>6, <1>5
  <2> QED BY <2>1, <2>2
<1>8. Enqueue(e, n)[e][n] > 0 BY <1>5, <1>2, <1>1
<1>9. Enqueue(e, n) \in [Exams -> [0..(Attempts - 1) -> Nat]] BY <1>2, <1>3
<1> QED BY <1>7, <1>8, <1>9

(* The writes of the jobs and of the requests to a sheet. *)
LEMMA SheetType ==
  ASSUME NEW e \in Exams, sheet \in [Exams -> Sheet]
  PROVE /\ \A s \in Status : [sheet EXCEPT ![e].status = s] \in [Exams -> Sheet]
        /\ \A a \in AiGrading, k \in Nat : [sheet EXCEPT ![e].ai = a, ![e].of = k] \in [Exams -> Sheet]
        /\ [sheet EXCEPT ![e].image = @ + 1, ![e].status = "pending"] \in [Exams -> Sheet]
<1>1. \A s \in Status : [sheet EXCEPT ![e].status = s] \in [Exams -> Sheet] BY DEF Sheet
<1>2. \A a \in AiGrading, k \in Nat : [sheet EXCEPT ![e].ai = a, ![e].of = k] \in [Exams -> Sheet]
  BY DEF Sheet
<1>3. [sheet EXCEPT ![e].image = @ + 1, ![e].status = "pending"] \in [Exams -> Sheet]
  <2>1. sheet[e].image + 1 \in Nat BY DEF Sheet
  <2>2. \A i \in Nat : [sheet EXCEPT ![e].image = i, ![e].status = "pending"] \in [Exams -> Sheet]
    BY DEF Sheet, Status
  <2> QED BY <2>1, <2>2
<1> QED BY <1>1, <1>2, <1>3

(* The moves of an OcrAnswerSheetJob. *)
LEMMA OcrType ==
  ASSUME NEW e \in Exams, ocr \in [Exams -> [wait : Nat, half : Nat]]
  PROVE  /\ \A w \in Nat : [ocr EXCEPT ![e].wait = w] \in [Exams -> [wait : Nat, half : Nat]]
         /\ \A h \in Nat : [ocr EXCEPT ![e].half = h] \in [Exams -> [wait : Nat, half : Nat]]
         /\ \A w, h \in Nat : [ocr EXCEPT ![e].wait = w, ![e].half = h] \in [Exams -> [wait : Nat, half : Nat]]
<1>1. \A w \in Nat : [ocr EXCEPT ![e].wait = w] \in [Exams -> [wait : Nat, half : Nat]] OBVIOUS
<1>2. \A w \in Nat : [ocr EXCEPT ![e].half = w] \in [Exams -> [wait : Nat, half : Nat]] OBVIOUS
<1>3. \A w, h \in Nat : [ocr EXCEPT ![e].wait = w, ![e].half = h] \in [Exams -> [wait : Nat, half : Nat]] OBVIOUS
<1> QED BY <1>1, <1>2, <1>3

(* What Rails serves, and what Regrade shows at once, is what a query can hold. *)
LEMMA ServedType ==
  ASSUME TypeOK, NEW e \in Exams
  PROVE Served(e) \in View /\ [Served(e) EXCEPT !.ai = "none"] \in View
<1>1. questions[e] \in Nat BY DEF TypeOK
<1> QED BY <1>1 DEF Served, View

(* The AI's results mark questions that have ids. *)
LEMMA ResultsType ==
  ASSUME marks \subseteq Nat \X Numbers, applied \in BOOLEAN, NEW v \in View, ApplyResults(v)
  PROVE marks' \subseteq Nat \X Numbers /\ applied' \in BOOLEAN
BY DEF ApplyResults, Ids, View

(* Every request, job and click keeps the types. *)
LEMMA TypeStep ==
  ASSUME TypeOK, [Next]_vars
  PROVE TypeOK'
<1>0. /\ sheet \in [Exams -> Sheet] /\ ocr \in [Exams -> [wait : Nat, half : Nat]]
      /\ waiting \in [Exams -> [0..(Attempts - 1) -> Nat]]
  BY DEF TypeOK
<1>1. ASSUME NEW e \in Exams, OcrSheetMarks(e) PROVE TypeOK'
  <2>1. sheet' \in [Exams -> Sheet] BY <1>0, <1>1, SheetType DEF Status, OcrSheetMarks
  <2>2. ocr[e].wait - 1 \in Nat /\ ocr[e].half + 1 \in Nat BY <1>0, <1>1 DEF OcrSheetMarks, TypeOK
  <2>3. ocr' = [ocr EXCEPT ![e].wait = ocr[e].wait - 1, ![e].half = ocr[e].half + 1]
    BY <1>0, <1>1 DEF OcrSheetMarks, TypeOK
  <2>4. ocr' \in [Exams -> [wait : Nat, half : Nat]] BY <1>0, <2>2, <2>3, OcrType
  <2> QED
    BY <1>1, <2>1, <2>4 DEF OcrSheetMarks, Forget, TypeOK, backend, jobs, pupil, teacher, paper
<1>2. ASSUME NEW e \in Exams, OcrSheetAsks(e) PROVE TypeOK'
  <2>1. ocr[e].half - 1 \in Nat /\ ocr' = [ocr EXCEPT ![e].half = ocr[e].half - 1]
    BY <1>0, <1>2 DEF OcrSheetAsks, TypeOK
  <2>2. ocr' \in [Exams -> [wait : Nat, half : Nat]] BY <1>0, <2>1, OcrType
  <2>3. waiting' \in [Exams -> [0..(Attempts - 1) -> Nat]]
    BY <1>0, <1>2, ZeroTries, EnqueueType DEF OcrSheetAsks
  <2> QED BY <1>2, <2>2, <2>3 DEF OcrSheetAsks, Forget, TypeOK, backend, jobs, pupil, teacher, paper
<1>3. ASSUME NEW e \in Exams, OcrKey(e) PROVE TypeOK'
  <2>0. /\ [sheet EXCEPT ![e].ai = "null", ![e].of = 0] \in [Exams -> Sheet]
        /\ Enqueue(e, 0) \in [Exams -> [0..(Attempts - 1) -> Nat]]
    BY <1>0, SheetType, ZeroTries, EnqueueType DEF AiGrading
  <2>1. sheet' \in [Exams -> Sheet] BY <1>0, <1>3, <2>0 DEF OcrKey, Cleared
  <2>2. waiting' \in [Exams -> [0..(Attempts - 1) -> Nat]] BY <1>0, <1>3, <2>0 DEF OcrKey, Cleared
  <2>3. rekey' \in [Exams -> Nat] BY <1>0, <1>3 DEF OcrKey, Cleared, TypeOK
  <2> QED
    BY <1>3, <2>1, <2>2, <2>3 DEF OcrKey, Cleared, Forget, TypeOK, backend, jobs, pupil, teacher,
      paper
<1>4. ASSUME NEW e \in Exams, NEW n \in 0..(Attempts - 1), GradeStarts(e, n) PROVE TypeOK'
  <2>1. waiting' \in [Exams -> [0..(Attempts - 1) -> Nat]]
    <3>0. waiting[e] \in [0..(Attempts - 1) -> Nat] /\ waiting[e][n] \in Nat BY <1>0
    <3>1. waiting[e][n] - 1 \in Nat BY <1>4, <3>0 DEF GradeStarts
    <3> DEFINE w == [waiting[e] EXCEPT ![n] = @ - 1]
    <3>2. w \in [0..(Attempts - 1) -> Nat] BY <3>0, <3>1
    <3>3. waiting' = [waiting EXCEPT ![e] = w] BY <1>4 DEF GradeStarts
    <3> HIDE DEF w
    <3> QED BY <1>0, <3>2, <3>3
  <2>0. [sheet EXCEPT ![e].ai = "processing", ![e].of = 0] \in [Exams -> Sheet]
    BY <1>0, SheetType DEF AiGrading
  <2>2. sheet' \in [Exams -> Sheet] BY <1>0, <1>4, <2>0 DEF GradeStarts
  <2>3. worker' \in Job \cup {Idle} BY <1>4 DEF GradeStarts, Job, TypeOK
  <2> QED
    BY <1>4, <2>1, <2>2, <2>3 DEF GradeStarts, Forget, TypeOK, backend, jobs, pupil, teacher, paper
<1>5. ASSUME GradeSucceeds PROVE TypeOK'
  <2>1. worker.exam \in Exams /\ worker.of \in Nat BY <1>5 DEF GradeSucceeds, TypeOK, Job
  <2>2. sheet' = [sheet EXCEPT ![worker.exam].ai = "done", ![worker.exam].of = worker.of]
    BY <1>5 DEF GradeSucceeds
  <2>3. sheet' \in [Exams -> Sheet] BY <1>0, <2>1, <2>2, SheetType DEF AiGrading
  <2>4. questions' \in [Exams -> Nat] BY <1>5, <2>1 DEF GradeSucceeds, TypeOK
  <2> QED
    BY <1>5, <2>3, <2>4 DEF GradeSucceeds, Forget, TypeOK, backend, jobs, pupil, teacher, paper
<1>6. ASSUME GradeFails PROVE TypeOK'
  <2>1. worker.exam \in Exams /\ worker.failures \in 0..(Attempts - 1)
    BY <1>6 DEF GradeFails, TypeOK, Job
  <2>0. [sheet EXCEPT ![worker.exam].ai = "failed", ![worker.exam].of = 0] \in [Exams -> Sheet]
    BY <1>0, <2>1, SheetType DEF AiGrading
  <2>2. sheet' \in [Exams -> Sheet] BY <1>0, <1>6, <2>0 DEF GradeFails
  <2>3. waiting' \in [Exams -> [0..(Attempts - 1) -> Nat]]
    <3>1. CASE worker.failures + 1 < Attempts /\ waiting' = Enqueue(worker.exam, worker.failures + 1)
      <4>1. worker.failures + 1 \in 0..(Attempts - 1) BY <3>1, <2>1, GradingAssumption
      <4> QED BY <1>0, <3>1, <4>1, <2>1, EnqueueType
    <3>2. CASE waiting' = waiting BY <1>0, <3>2
    <3> QED BY <1>6, <3>1, <3>2 DEF GradeFails
  <2> QED BY <1>6, <2>2, <2>3 DEF GradeFails, Forget, TypeOK, backend, jobs, pupil, teacher, paper
<1>7. ASSUME NEW e \in Exams, SelectExam(e) PROVE TypeOK'
  BY <1>7 DEF SelectExam, TypeOK, backend, jobs, pupil, teacher, paper
<1>8. ASSUME NEW e \in Exams, Upload(e) PROVE TypeOK'
  BY <1>8 DEF Upload, TypeOK, backend, jobs, pupil, teacher, paper
<1>9. ASSUME NEW e \in Exams, UploadAnswerSheet(e) PROVE TypeOK'
  <2>1. sheet' \in [Exams -> Sheet] BY <1>0, <1>9, SheetType DEF UploadAnswerSheet, Received
  <2>2. ocr[e].wait + 1 \in Nat /\ ocr' = [ocr EXCEPT ![e].wait = ocr[e].wait + 1]
    BY <1>0, <1>9 DEF UploadAnswerSheet, Received, TypeOK
  <2>3. ocr' \in [Exams -> [wait : Nat, half : Nat]] BY <1>0, <2>2, OcrType
  <2>4. student' \in [exam : Exams \cup {None}, done : BOOLEAN]
    BY <1>0, <1>9 DEF UploadAnswerSheet, Received, TypeOK
  <2> QED
    BY <1>9, <2>1, <2>3, <2>4 DEF UploadAnswerSheet, Received, Forget, TypeOK, backend, jobs,
        pupil, teacher, paper
<1>10. ASSUME NEW e \in Exams, UploadFails(e) PROVE TypeOK'
  BY <1>10 DEF UploadFails, TypeOK, backend, jobs, pupil, teacher, paper
<1>11. CASE StudentReset BY <1>11 DEF StudentReset, TypeOK, backend, jobs, pupil, teacher, paper
<1>12. CASE UploadAgain BY <1>12 DEF UploadAgain, TypeOK, backend, jobs, pupil, teacher, paper
<1>13. CASE TeacherReset
  BY <1>13 DEF TeacherReset, Forget, TypeOK, backend, jobs, pupil, teacher, paper
<1>14. CASE BackToQuestions \/ OtherTab
  BY <1>14 DEF BackToQuestions, OtherTab, Forget, TypeOK, backend, jobs, pupil, teacher, paper
<1>15. CASE Skip BY <1>15 DEF Skip, TypeOK, backend, jobs, pupil, teacher, paper
<1>16. ASSUME NEW e \in Exams, TeacherSelects(e) PROVE TypeOK'
  BY <1>16 DEF TeacherSelects, TypeOK, backend, jobs, pupil, teacher, paper
<1>17. ASSUME NEW e \in Exams, UploadAnswerKey(e) PROVE TypeOK'
  <2> SUFFICES /\ [key EXCEPT ![e] = @ + 1] \in [Exams -> Nat]
              /\ [rekey EXCEPT ![e] = @ + 1] \in [Exams -> Nat]
    BY <1>17 DEF UploadAnswerKey, TypeOK, backend, jobs, pupil, teacher, paper
  <2>1. key \in [Exams -> Nat] /\ rekey \in [Exams -> Nat] BY DEF TypeOK
  <2>2. key[e] + 1 \in Nat /\ rekey[e] + 1 \in Nat BY <2>1
  <2> QED BY <2>1, <2>2
<1>18. ASSUME NEW e \in Exams, Save(e) PROVE TypeOK'
  BY <1>18 DEF Save, TypeOK, backend, jobs, pupil, teacher, paper
<1>19. ASSUME NEW e \in Exams, RegisterQuestions(e) PROVE TypeOK'
  <2>1. questions' \in [Exams -> Nat] BY <1>19 DEF RegisterQuestions, TypeOK
  <2>2. desk' \in [exam : Exams \cup {None}, step : {"questions", "grading"}, open : BOOLEAN]
    BY <1>19 DEF RegisterQuestions, TypeOK
  <2> QED BY <1>19, <2>1, <2>2 DEF RegisterQuestions, TypeOK, backend, jobs, pupil, teacher, paper
<1>20. ASSUME NEW e \in Exams, SaveFails(e) PROVE TypeOK'
  BY <1>20 DEF SaveFails, TypeOK, backend, jobs, pupil, teacher, paper
<1>21. ASSUME NEW e \in Exams, OpenSheet(e) PROVE TypeOK'
  <2>1. marks' \subseteq Nat \X Numbers /\ applied' \in BOOLEAN
    BY <1>21, ResultsType DEF OpenSheet, TypeOK
  <2> QED BY <1>21, <2>1 DEF OpenSheet, Forget, TypeOK, backend, jobs, pupil, teacher, paper
<1>22. ASSUME NEW e \in Exams, Fetch(e) PROVE TypeOK'
  <2>1. view' \in [Exams -> View] /\ view'[e] \in View BY <1>22, ServedType DEF Fetch, TypeOK
  <2>2. marks' \subseteq Nat \X Numbers /\ applied' \in BOOLEAN
    BY <1>22, <2>1, ResultsType DEF Fetch, TypeOK
  <2> QED BY <1>22, <2>1, <2>2 DEF Fetch, Forget, TypeOK, backend, jobs, pupil, teacher, paper
<1>23. ASSUME NEW e \in Exams, Mark(e) PROVE TypeOK'
  <2>1. Ids(view[e].set) \subseteq Nat \X Numbers BY DEF Ids, View, TypeOK
  <2> QED BY <1>23, <2>1 DEF Mark, TypeOK, backend, jobs, pupil, teacher, paper
<1>24. ASSUME NEW e \in Exams, handleAutoScore(e) PROVE TypeOK'
  <2>1. Ids(view[e].set) \subseteq Nat \X Numbers BY DEF Ids, View, TypeOK
  <2> QED BY <1>24, <2>1 DEF handleAutoScore, TypeOK, backend, jobs, pupil, teacher, paper
<1>25. ASSUME NEW e \in Exams, Regrade(e) PROVE TypeOK'
  <2>1. sheet' \in [Exams -> Sheet] BY <1>0, <1>25, SheetType DEF AiGrading, Regrade, Cleared
  <2>2. waiting' \in [Exams -> [0..(Attempts - 1) -> Nat]]
    BY <1>0, <1>25, ZeroTries, EnqueueType DEF Regrade, Cleared
  <2>3. view' \in [Exams -> View]
    <3>1. [Served(e) EXCEPT !.ai = "none"] \in View BY ServedType DEF View
    <3>2. view' = view \/ view' = [view EXCEPT ![e] = [Served(e) EXCEPT !.ai = "none"]]
      BY <1>25 DEF Regrade
    <3> QED BY <3>1, <3>2 DEF TypeOK
  <2> QED
    BY <1>25, <2>1, <2>2, <2>3 DEF Regrade, Cleared, Forget, TypeOK, backend, jobs, pupil,
        teacher, paper
<1>26. ASSUME NEW e \in Exams, SubmitScore(e) PROVE TypeOK'
  <2>1. sheet' \in [Exams -> Sheet] BY <1>0, <1>26, SheetType DEF Status, SubmitScore, Scored
  <2> QED
    BY <1>26, <2>1 DEF SubmitScore, Scored, Forget, TypeOK, backend, jobs, pupil, teacher, paper
<1>27. ASSUME NEW e \in Exams, CreateExam(e) PROVE TypeOK'
  BY <1>27 DEF CreateExam, TypeOK, jobs, pupil, teacher, paper
<1>28. CASE UNCHANGED vars BY <1>28 DEF vars, TypeOK, backend, jobs, pupil, teacher, paper
<1> QED
  BY <1>1, <1>2, <1>3, <1>4, <1>5, <1>6, <1>7, <1>8, <1>9, <1>10, <1>11, <1>12, <1>13, <1>14,
     <1>15, <1>16, <1>17, <1>18, <1>19, <1>20, <1>21, <1>22, <1>23, <1>24, <1>25, <1>26, <1>27,
     <1>28
  DEF Next, Work, Student, Teacher

(* Nothing is sent yet. *)
LEMMA TypeInit == Init => TypeOK
<1> SUFFICES ASSUME Init PROVE TypeOK OBVIOUS
<1>1. /\ exams \subseteq Exams /\ key \in [Exams -> Nat] /\ questions \in [Exams -> Nat] /\ rekey \in [Exams -> Nat] BY DEF Init
<1>2. sheet \in [Exams -> Sheet] BY DEF Init, NoSheet, Sheet, Status, AiGrading
<1>3. ocr \in [Exams -> [wait : Nat, half : Nat]] BY DEF Init
<1>4. waiting \in [Exams -> [0..(Attempts - 1) -> Nat]] BY DEF Init
<1>5. worker \in Job \cup {Idle} BY DEF Init
<1>6. student \in [exam : Exams \cup {None}, done : BOOLEAN] BY DEF Init
<1>7. desk \in [exam : Exams \cup {None}, step : {"questions", "grading"}, open : BOOLEAN]
  BY DEF Init
<1>8. view \in [Exams -> View] BY DEF Init, NoView, View
<1>9. /\ upload \in [Exams -> BOOLEAN] /\ setup \in [Exams -> BOOLEAN]
      /\ marks \subseteq Nat \X Numbers /\ applied \in BOOLEAN
  BY DEF Init
<1> QED BY <1>1, <1>2, <1>3, <1>4, <1>5, <1>6, <1>7, <1>8, <1>9 DEF TypeOK

(* The variables of the submit screen, of Rails and of the queues have     *)
(* their types in every reachable state.                                   *)
THEOREM GradingTypeCorrect == Spec => []TypeOK
BY TypeInit, TypeStep, PTL DEF Spec

-----------------------------------------------------------------------------
(* NoSheetForgotten of one exam, and what makes it inductive: only a sheet *)
(* of an exam with a key, that has an image, is ever at work, so a job     *)
(* that finds no key or no image forgets nothing.                          *)
SeenTo(d) ==
  /\ sheet[d].image > 0 /\ sheet[d].status = "pending" => ocr[d].wait > 0
  /\ sheet[d].image > 0 /\ sheet[d].status # "pending" /\ key[d] > 0 /\ sheet[d].ai = "null"
       => GradingWaits(d)
  /\ sheet[d].ai = "processing" => worker.exam = d \/ GradingWaits(d)
  /\ sheet[d].ai = "processing" => key[d] > 0 /\ sheet[d].image > 0

SheetsSeenTo == \A d \in Exams : SeenTo(d)

(* Nothing is taken from a sheet whose own state and jobs stay. *)
LEMMA SeenToStays ==
  ASSUME NEW d \in Exams, SeenTo(d),
         UNCHANGED <<sheet[d], key[d], ocr[d], rekey[d], waiting[d]>>,
         worker.exam = d => worker'.exam = d
  PROVE SeenTo(d)'
BY DEF SeenTo, GradingWaits

(* Every job hands a sheet on before it ends, and every request that       *)
(* changes a sheet or a key starts one.                                    *)
LEMMA SeenToStep ==
  ASSUME TypeOK, SheetsSeenTo, [Next]_vars, NEW d \in Exams
  PROVE SeenTo(d)'
<1>0. /\ sheet[d] \in Sheet /\ ocr[d] \in [wait : Nat, half : Nat] /\ rekey[d] \in Nat /\ key[d] \in Nat
      /\ \A n \in 0..(Attempts - 1) : waiting[d][n] \in Nat
      /\ SeenTo(d)
  BY DEF TypeOK, SheetsSeenTo
<1>T. TypeOK' BY TypeStep
<1>t. ocr'[d] \in [wait : Nat, half : Nat] /\ rekey'[d] \in Nat
  BY <1>T DEF TypeOK
<1>1. ASSUME NEW e \in Exams, OcrSheetMarks(e) PROVE SeenTo(d)'
  <2>1. CASE d = e
    <3>1. /\ ocr'[d].half > 0 /\ sheet'[d].status = "ocr_done"
          /\ sheet'[d].ai = sheet[d].ai /\ sheet'[d].image = sheet[d].image
          /\ UNCHANGED <<key, worker>>
      BY <1>0, <1>1, <2>1 DEF OcrSheetMarks, TypeOK, Sheet
    <3>2. GradingWaits(d)' BY <1>t, <3>1 DEF GradingWaits
    <3> QED BY <1>0, <3>1, <3>2 DEF SeenTo
  <2>2. CASE d # e
    <3>1. UNCHANGED <<sheet[d], ocr[d], rekey, waiting, worker, key>>
      BY <1>1, <2>2 DEF OcrSheetMarks, TypeOK
    <3> QED BY <1>0, <3>1, SeenToStays
  <2> QED BY <2>1, <2>2
<1>2. ASSUME NEW e \in Exams, OcrSheetAsks(e) PROVE SeenTo(d)'
  <2>1. UNCHANGED <<sheet, key, worker, rekey>> BY <1>2 DEF OcrSheetAsks, backend
  <2>2. CASE d = e
    <3>1. ocr'[d].wait = ocr[d].wait BY <1>2, <2>2 DEF OcrSheetAsks, TypeOK
    <3>2. key[d] > 0 => GradingWaits(d)'
      BY <1>2, <2>2, ZeroTries, EnqueueType DEF OcrSheetAsks, GradingWaits, TypeOK
    <3> QED BY <1>0, <2>1, <3>1, <3>2 DEF SeenTo
  <2>3. CASE d # e
    <3>1. UNCHANGED <<ocr[d], waiting[d]>> BY <1>2, <2>3 DEF OcrSheetAsks, TypeOK, Enqueue
    <3> QED BY <1>0, <2>1, <3>1, SeenToStays
  <2> QED BY <2>2, <2>3
<1>3. ASSUME NEW e \in Exams, OcrKey(e) PROVE SeenTo(d)'
  <2>1. UNCHANGED <<ocr, key, worker>> BY <1>3 DEF OcrKey, Cleared
  <2>2. CASE d = e /\ sheet[e].image > 0 /\ sheet[e].status \in {"ocr_done", "scored"}
    <3>0. sheet' = [sheet EXCEPT ![d].ai = "null", ![d].of = 0] BY <1>3, <2>2 DEF OcrKey, Cleared
    <3>1. sheet'[d].ai = "null" /\ sheet'[d].image = sheet[d].image /\ sheet'[d].status = sheet[d].status
      BY <3>0 DEF TypeOK, Sheet
    <3>2. GradingWaits(d)'
      BY <1>3, <2>2, ZeroTries, EnqueueType DEF OcrKey, Cleared, GradingWaits, TypeOK
    <3> QED BY <1>0, <2>1, <3>1, <3>2 DEF SeenTo
  <2>3. CASE d = e /\ ~(sheet[e].image > 0 /\ sheet[e].status \in {"ocr_done", "scored"})
    <3>1. UNCHANGED <<sheet, waiting>> BY <1>3, <2>3 DEF OcrKey, Cleared
    <3>2. sheet[d].image > 0 => sheet[d].status = "pending" BY <1>0, <2>3 DEF Sheet, Status
    <3>3. sheet[d].image > 0 => GradingWaits(d)' BY <1>0, <1>t, <2>1, <3>2 DEF SeenTo, GradingWaits
    <3> QED BY <1>0, <2>1, <3>1, <3>3 DEF SeenTo
  <2>4. CASE d # e
    <3>1. UNCHANGED <<sheet[d], rekey[d], waiting[d]>>
      BY <1>3, <2>4 DEF OcrKey, Cleared, TypeOK, Enqueue
    <3> QED BY <1>0, <2>1, <3>1, SeenToStays
  <2> QED BY <2>2, <2>3, <2>4
<1>4. ASSUME NEW e \in Exams, NEW n \in 0..(Attempts - 1), GradeStarts(e, n) PROVE SeenTo(d)'
  <2>1. UNCHANGED <<ocr, key, rekey>> BY <1>4 DEF GradeStarts
  <2>2. worker.exam # d BY <1>4, GradingAssumption DEF GradeStarts, Idle
  <2>3. CASE d = e /\ ~(key[e] = 0 \/ sheet[e].image = 0 \/ sheet[e].ai = "done")
    <3>1. /\ worker'.exam = d /\ sheet'[d].ai = "processing"
          /\ sheet'[d].image = sheet[d].image /\ sheet'[d].status = sheet[d].status
      BY <1>4, <2>3 DEF GradeStarts, TypeOK, Sheet
    <3> QED BY <1>0, <2>1, <2>3, <3>1 DEF SeenTo, Sheet
  <2>4. CASE d = e /\ (key[e] = 0 \/ sheet[e].image = 0 \/ sheet[e].ai = "done")
    <3>1. UNCHANGED sheet BY <1>4, <2>4 DEF GradeStarts
    <3> QED BY <1>0, <2>1, <2>4, <3>1 DEF SeenTo, Sheet
  <2>5. CASE d # e
    <3>1. UNCHANGED <<sheet[d], waiting[d]>> BY <1>4, <2>5 DEF GradeStarts, TypeOK
    <3> QED BY <1>0, <2>1, <2>2, <3>1, SeenToStays
  <2> QED BY <2>3, <2>4, <2>5
<1>5. CASE GradeSucceeds
  <2>1. UNCHANGED <<ocr, key, rekey, waiting>> /\ worker.exam \in Exams
    BY <1>5 DEF GradeSucceeds, TypeOK, Job
  <2>2. CASE worker.exam = d
    <3>1. sheet'[d].ai = "done" /\ sheet'[d].image = sheet[d].image /\ sheet'[d].status = sheet[d].status
      BY <1>5, <2>2 DEF GradeSucceeds, TypeOK, Sheet
    <3> QED BY <1>0, <2>1, <3>1 DEF SeenTo
  <2>3. CASE worker.exam # d
    <3>1. UNCHANGED sheet[d] BY <1>5, <2>1, <2>3 DEF GradeSucceeds, TypeOK
    <3> QED BY <1>0, <2>1, <2>3, <3>1, SeenToStays
  <2> QED BY <2>2, <2>3
<1>6. CASE GradeFails
  <2>1. /\ UNCHANGED <<ocr, key, rekey>>
        /\ worker.exam \in Exams /\ worker.failures \in 0..(Attempts - 1)
    BY <1>6 DEF GradeFails, TypeOK, Job
  <2>2. CASE worker.exam # d
    <3>1. UNCHANGED <<sheet[d], waiting[d]>> BY <1>6, <2>1, <2>2 DEF GradeFails, TypeOK, Enqueue
    <3> QED BY <1>0, <2>1, <2>2, <3>1, SeenToStays
  <2>3. CASE /\ worker.exam = d /\ worker.failures + 1 < Attempts
             /\ waiting' = Enqueue(worker.exam, worker.failures + 1) /\ UNCHANGED sheet
    <3>1. worker.failures + 1 \in 0..(Attempts - 1) BY <2>1, <2>3, GradingAssumption
    <3>2. waiting'[d][worker.failures + 1] > 0 BY <2>3, <3>1, EnqueueType DEF TypeOK
    <3>3. GradingWaits(d)' BY <3>1, <3>2 DEF GradingWaits
    <3> QED BY <1>0, <2>1, <2>3, <3>3 DEF SeenTo
  <2>4. CASE /\ worker.exam = d /\ UNCHANGED waiting
             /\ sheet' = [sheet EXCEPT ![worker.exam].ai = "failed", ![worker.exam].of = 0]
    <3>1. sheet'[d].ai = "failed" /\ sheet'[d].image = sheet[d].image /\ sheet'[d].status = sheet[d].status
      BY <2>4 DEF TypeOK, Sheet
    <3> QED BY <1>0, <2>1, <2>4, <3>1 DEF SeenTo
  <2> QED BY <1>6, <2>2, <2>3, <2>4 DEF GradeFails
<1>7. ASSUME NEW e \in Exams, UploadAnswerSheet(e) PROVE SeenTo(d)'
  <2>1. UNCHANGED <<key, rekey, waiting, worker>> BY <1>7 DEF UploadAnswerSheet, Received
  <2>2. CASE d = e
    <3>1. /\ ocr'[d].wait > 0 /\ sheet'[d].status = "pending"
          /\ sheet'[d].ai = sheet[d].ai /\ sheet'[d].image > 0
      BY <1>7, <2>2 DEF UploadAnswerSheet, Received, TypeOK, Sheet
    <3>2. GradingWaits(d)' BY <1>t, <3>1 DEF GradingWaits
    <3> QED BY <1>0, <2>1, <3>1, <3>2 DEF SeenTo
  <2>3. CASE d # e
    <3>1. UNCHANGED <<sheet[d], ocr[d]>> BY <1>7, <2>3 DEF UploadAnswerSheet, Received, TypeOK
    <3> QED BY <1>0, <2>1, <3>1, SeenToStays
  <2> QED BY <2>2, <2>3
<1>8. ASSUME NEW e \in Exams, UploadAnswerKey(e) PROVE SeenTo(d)'
  <2>1. UNCHANGED <<sheet, ocr, waiting, worker>> BY <1>8 DEF UploadAnswerKey
  <2>2. CASE d = e
    <3>1. rekey'[d] > 0 /\ key'[d] > 0 BY <1>8, <2>2 DEF UploadAnswerKey, TypeOK
    <3>2. GradingWaits(d)' BY <1>t, <3>1 DEF GradingWaits
    <3> QED BY <1>0, <2>1, <3>1, <3>2 DEF SeenTo
  <2>3. CASE d # e
    <3>1. UNCHANGED <<key[d], rekey[d]>> BY <1>8, <2>3 DEF UploadAnswerKey, TypeOK
    <3> QED BY <1>0, <2>1, <3>1, SeenToStays
  <2> QED BY <2>2, <2>3
<1>9. ASSUME NEW e \in Exams, Regrade(e) PROVE SeenTo(d)'
  <2>1. UNCHANGED <<key, rekey, ocr, worker>> BY <1>9 DEF Regrade, Cleared
  <2>2. CASE d = e
    <3>1. sheet'[d].ai = "null" /\ sheet'[d].image = sheet[d].image /\ sheet'[d].status = sheet[d].status
      BY <1>9, <2>2 DEF Regrade, Cleared, TypeOK, Sheet
    <3>2. GradingWaits(d)'
      BY <1>9, <2>2, ZeroTries, EnqueueType DEF Regrade, Cleared, GradingWaits, TypeOK
    <3> QED BY <1>0, <2>1, <3>1, <3>2 DEF SeenTo
  <2>3. CASE d # e
    <3>1. UNCHANGED <<sheet[d], waiting[d]>> BY <1>9, <2>3 DEF Regrade, Cleared, TypeOK, Enqueue
    <3> QED BY <1>0, <2>1, <3>1, SeenToStays
  <2> QED BY <2>2, <2>3
<1>10. ASSUME NEW e \in Exams, SubmitScore(e) PROVE SeenTo(d)'
  <2>1. UNCHANGED <<key, jobs>> BY <1>10 DEF SubmitScore, Scored
  <2>2. CASE d = e
    <3>1. sheet'[d].status = "scored" /\ sheet'[d].ai = sheet[d].ai /\ sheet'[d].image = sheet[d].image
      BY <1>10, <2>2 DEF SubmitScore, Scored, TypeOK, Sheet
    <3>2. sheet[d].image > 0 /\ sheet[d].status = "pending" => GradingWaits(d)
      BY <1>0 DEF SeenTo, GradingWaits
    <3> QED BY <1>0, <2>1, <3>1, <3>2 DEF SeenTo, GradingWaits, jobs
  <2>3. CASE d # e
    <3>1. UNCHANGED sheet[d] BY <1>10, <2>3 DEF SubmitScore, Scored, TypeOK
    <3> QED BY <1>0, <2>1, <3>1, SeenToStays DEF jobs
  <2> QED BY <2>2, <2>3
<1>11. ASSUME UNCHANGED <<sheet, key, jobs>> PROVE SeenTo(d)' BY <1>0, <1>11, SeenToStays DEF jobs
<1>12. ASSUME NEW e \in Exams,
              \/ CreateExam(e) \/ SelectExam(e) \/ Upload(e) \/ UploadFails(e) \/ TeacherSelects(e) \/ Save(e)
              \/ RegisterQuestions(e) \/ SaveFails(e) \/ OpenSheet(e) \/ Fetch(e) \/ Mark(e) \/ handleAutoScore(e)
       PROVE UNCHANGED <<sheet, key, jobs>>
  BY <1>12 DEF CreateExam, SelectExam, Upload, UploadFails, TeacherSelects, Save, RegisterQuestions,
      SaveFails, OpenSheet, Fetch, Mark, handleAutoScore, backend
<1>13. ASSUME \/ StudentReset \/ UploadAgain \/ TeacherReset \/ BackToQuestions
              \/ OtherTab \/ Skip \/ UNCHANGED vars
       PROVE UNCHANGED <<sheet, key, jobs>>
  BY <1>13 DEF StudentReset, UploadAgain, TeacherReset, BackToQuestions, OtherTab, Skip, vars,
      backend
<1> QED
  BY <1>1, <1>2, <1>3, <1>4, <1>5, <1>6, <1>7, <1>8, <1>9, <1>10, <1>11, <1>12, <1>13 DEF Next,
      Work, Student, Teacher

(* In whatever order the key and the sheets are sent and read, and however *)
(* the gradings fail, a sheet that is to be read or graded, or is said to  *)
(* be at work, has a job that will see to it.                              *)
THEOREM NoSheetEverForgotten == Spec => []NoSheetForgotten
<1>1. Init => SheetsSeenTo
  BY DEF Init, SheetsSeenTo, SeenTo, NoSheet
<1>2. TypeOK /\ SheetsSeenTo /\ [Next]_vars => SheetsSeenTo'
  BY SeenToStep DEF SheetsSeenTo
<1>3. SheetsSeenTo => NoSheetForgotten
  BY DEF SheetsSeenTo, SeenTo, NoSheetForgotten
<1> QED BY <1>1, <1>2, <1>3, GradingTypeCorrect, PTL DEF Spec

-----------------------------------------------------------------------------
(* The marks are of questions that the grading step shows or once showed,   *)
(* and no query has seen questions that are still to come.                  *)
MarksKnown ==
  /\ \A q \in marks : desk.open /\ desk.exam \in Exams /\ q[1] \in 1..view[desk.exam].set
  /\ \A e \in Exams : view[e].set <= questions[e]

(* The AI's results mark questions the query has seen. *)
LEMMA ResultsKnown ==
  ASSUME TypeOK, MarksKnown, NEW e \in Exams, desk.exam = e, desk.open \/ marks = {},
         NEW v \in View, view[e].set <= v.set, ApplyResults(v), NEW q \in marks'
  PROVE q[1] \in 1..v.set
<1>1. view[e].set \in Nat /\ v.set \in Nat BY DEF TypeOK, View
<1>2. \A p \in Ids(v.set) : p[1] \in 1..v.set BY <1>1 DEF Ids
<1>3. \A p \in marks : p[1] \in 1..v.set BY <1>1 DEF MarksKnown
<1>4. q \in Ids(v.set) \/ q \in marks BY DEF ApplyResults
<1> QED BY <1>2, <1>3, <1>4

(* The marks go whenever the grading step, and with it the exam, goes.     *)
LEMMA MarksStep ==
  ASSUME TypeOK, MarksKnown, [Next]_vars
  PROVE MarksKnown'
<1>0. /\ questions \in [Exams -> Nat] /\ view \in [Exams -> View]
      /\ \A e \in Exams : Served(e) \in View /\ Served(e).set = questions[e]
  BY ServedType DEF TypeOK, Served
<1>n. \A e \in Exams : view[e] \in View /\ view[e].set \in Nat /\ questions[e] \in Nat
  BY <1>0 DEF View
<1>g. ASSUME \A e \in Exams : questions'[e] >= questions[e] /\ questions'[e] \in Nat,
             view' = view, marks' = marks, desk'.open = desk.open,
               desk'.exam = desk.exam \/ marks = {}
      PROVE MarksKnown'
  <2>1. ASSUME NEW q \in marks' PROVE desk'.open /\ desk'.exam \in Exams /\ q[1] \in 1..view'[desk'.exam].set
    BY <1>g, <1>n, <2>1 DEF MarksKnown
  <2>2. ASSUME NEW e \in Exams PROVE view'[e].set <= questions'[e] BY <1>g, <1>n DEF MarksKnown
  <2> QED BY <2>1, <2>2 DEF MarksKnown
<1>u. ASSUME UNCHANGED <<questions, view, marks, desk>> PROVE MarksKnown' BY <1>u DEF MarksKnown
<1>f. ASSUME Forget, UNCHANGED <<questions, view>> PROVE MarksKnown' BY <1>f DEF MarksKnown, Forget
<1>1. ASSUME NEW e \in Exams, Work(e) PROVE MarksKnown'
  BY <1>1, <1>u DEF Work, OcrSheetMarks, OcrSheetAsks, OcrKey, Cleared, GradeStarts, backend,
      teacher, paper
<1>2. CASE GradeFails BY <1>2, <1>u DEF GradeFails, teacher, paper
<1>3. CASE GradeSucceeds
  <2>1. \A e \in Exams : questions'[e] >= questions[e] /\ questions'[e] \in Nat
    BY <1>3, <1>n, <1>0 DEF GradeSucceeds
  <2> QED BY <1>3, <1>g, <2>1 DEF GradeSucceeds, teacher, paper
<1>4. ASSUME NEW e \in Exams, Student(e) PROVE MarksKnown'
  BY <1>4, <1>u DEF Student, SelectExam, Upload, UploadAnswerSheet, Received, UploadFails,
      backend, teacher, paper
<1>5. CASE StudentReset \/ UploadAgain
  BY <1>5, <1>u DEF StudentReset, UploadAgain, backend, teacher, paper
<1>6. CASE TeacherReset \/ BackToQuestions \/ OtherTab
  BY <1>6, <1>f DEF TeacherReset, BackToQuestions, OtherTab, backend
<1>7. CASE Skip
  <2>1. desk'.open = desk.open /\ desk'.exam = desk.exam BY <1>7 DEF Skip, TypeOK
  <2> QED BY <1>7, <1>g, <1>n, <2>1 DEF Skip, backend, paper
<1>8. ASSUME NEW e \in Exams, TeacherSelects(e) PROVE MarksKnown'
  <2>1. desk'.open = desk.open BY <1>8 DEF TeacherSelects, TypeOK
  <2>2. marks = {} BY <1>8, GradingAssumption DEF TeacherSelects, MarksKnown
  <2> QED BY <1>8, <1>g, <1>n, <2>1, <2>2 DEF TeacherSelects, backend, paper
<1>9. ASSUME NEW e \in Exams, CreateExam(e) \/ UploadAnswerKey(e) \/ Save(e) \/ SaveFails(e)
       PROVE MarksKnown'
  BY <1>9, <1>u DEF CreateExam, UploadAnswerKey, Save, SaveFails, backend, teacher, paper
<1>10. ASSUME NEW e \in Exams, RegisterQuestions(e) PROVE MarksKnown'
  <2>1. desk'.open = desk.open /\ desk'.exam = desk.exam BY <1>10 DEF RegisterQuestions, TypeOK
  <2>2. \A d \in Exams : questions'[d] >= questions[d] /\ questions'[d] \in Nat
    BY <1>10, <1>n, <1>0 DEF RegisterQuestions
  <2> QED BY <1>10, <1>g, <2>1, <2>2 DEF RegisterQuestions, paper
<1>11. ASSUME NEW e \in Exams, OpenSheet(e) PROVE MarksKnown'
  <2>1. marks = {} BY <1>11 DEF OpenSheet, MarksKnown
  <2>2. desk'.open /\ desk'.exam = e BY <1>11 DEF OpenSheet, TypeOK
  <2>3. ApplyResults(view[e]) /\ desk.exam = e BY <1>11 DEF OpenSheet
  <2>4. \A q \in marks' : q[1] \in 1..view[e].set BY <1>n, <2>1, <2>3, ResultsKnown
  <2> QED BY <1>11, <2>2, <2>4 DEF OpenSheet, MarksKnown, backend
<1>12. ASSUME NEW e \in Exams, Fetch(e) PROVE MarksKnown'
  <2>1. view'[e] = Served(e) /\ \A d \in Exams \ {e} : view'[d] = view[d] BY <1>12, <1>0 DEF Fetch
  <2>2. view'[e].set = questions[e] /\ view[e].set <= view'[e].set /\ view'[e] \in View
    BY <2>1, <1>0, <1>n DEF MarksKnown
  <2>3. ApplyResults(view'[e]) /\ desk.exam = e /\ desk.open BY <1>12 DEF Fetch
  <2>4. \A q \in marks' : q[1] \in 1..view'[e].set BY <2>2, <2>3, ResultsKnown
  <2>5. \A d \in Exams : view'[d].set <= questions[d] BY <1>n, <2>1, <2>2 DEF MarksKnown
  <2> QED BY <1>12, <2>3, <2>4, <2>5 DEF Fetch, MarksKnown, backend
<1>13. ASSUME NEW e \in Exams, Mark(e) \/ handleAutoScore(e) PROVE MarksKnown'
  <2>1. \A q \in Ids(view[e].set) : q[1] \in 1..view[e].set BY <1>n DEF Ids
  <2>2. /\ marks' \subseteq marks \cup Ids(view[e].set) /\ desk.open /\ desk.exam = e
        /\ UNCHANGED <<questions, view, desk>>
    BY <1>13 DEF Mark, handleAutoScore, Ready, backend
  <2> QED BY <2>1, <2>2 DEF MarksKnown
<1>14. ASSUME NEW e \in Exams, Regrade(e) PROVE MarksKnown'
  <2>1. UNCHANGED questions /\ marks' = {} BY <1>14 DEF Regrade, Forget
  <2>2. CASE view' = view BY <2>1, <2>2 DEF MarksKnown
  <2>3. CASE view' = [view EXCEPT ![e] = [Served(e) EXCEPT !.ai = "none"]]
    <3>1. view'[e].set = questions[e] /\ \A d \in Exams \ {e} : view'[d] = view[d]
      BY <2>3, <1>0 DEF Served
    <3> QED BY <2>1, <3>1, <1>n DEF MarksKnown
  <2> QED BY <1>14, <2>2, <2>3 DEF Regrade
<1>15. ASSUME NEW e \in Exams, SubmitScore(e) PROVE MarksKnown'
  BY <1>15, <1>f DEF SubmitScore, Scored
<1>16. CASE UNCHANGED vars BY <1>16, <1>u DEF vars, backend, teacher, paper
<1> QED
  BY <1>1, <1>2, <1>3, <1>4, <1>5, <1>6, <1>7, <1>8, <1>9, <1>10, <1>11, <1>12, <1>13, <1>14,
     <1>15, <1>16
  DEF Next, Teacher

(* Marks of the questions shown alone: counting them is enough.            *)
LEMMA CountedMarks ==
  ASSUME TypeOK, MarksKnown, NEW e \in Exams, SubmitScore(e),
         \A q \in marks : ~(q[1] < view[e].set)
  PROVE Ids(view[e].set) \subseteq marks
<1> DEFINE n == view[e].set
           I == {n} \X Numbers
<1>1. n \in Nat BY DEF TypeOK, View
<1>2. CASE n = 0 BY <1>2 DEF Ids
<1>3. CASE n # 0
  <2>1. Ids(n) = I BY <1>3 DEF Ids
  <2>2. IsFiniteSet(I) BY FS_Singleton, FS_Product, GradingAssumption
  <2>3. marks \subseteq I
    <3>1. \A q \in marks : q \in Nat \X Numbers /\ q[1] \in 1..n
      BY DEF TypeOK, MarksKnown, SubmitScore, Scored, Ready
    <3> QED BY <1>1, <3>1
  <2>4. Cardinality(marks) >= Cardinality(I) BY <2>1 DEF SubmitScore, Scored, Submittable
  <2> HIDE DEF I
  <2>5. Cardinality(marks) <= Cardinality(I) /\ (Cardinality(I) = Cardinality(marks) => I = marks) /\ IsFiniteSet(marks)
    BY <2>2, <2>3, FS_Subset
  <2>6. Cardinality(I) \in Nat /\ Cardinality(marks) \in Nat BY <2>2, <2>5, FS_CardinalityType
  <2> QED BY <2>1, <2>4, <2>5, <2>6
<1> QED BY <1>2, <1>3

(* The button of SubmitScore only counts the marks.  It lets a question be *)
(* left out in one way: the questions were replaced under the teacher, and *)
(* a mark of a question no longer shown is counted in its place.           *)
OnlyOldMarksHide ==
  [][\A e \in Exams :
       SubmitScore(e) /\ ~(Ids(view[e].set) \subseteq marks)
         => \E q \in marks : q[1] < view[e].set]_vars

(* OnlyOldMarksHide: for any number of exams, questions and replacements.  *)
THEOREM LeftOutOnlyIfReplaced == Spec => OnlyOldMarksHide
<1>1. Init => MarksKnown BY DEF Init, MarksKnown, NoView
<1>2. TypeOK /\ MarksKnown /\ [Next]_vars => MarksKnown' BY MarksStep
<1>3. TypeOK /\ MarksKnown /\ [Next]_vars
        => [\A e \in Exams :
              SubmitScore(e) /\ ~(Ids(view[e].set) \subseteq marks)
                => \E q \in marks : q[1] < view[e].set]_vars
  BY CountedMarks
<1> QED BY <1>1, <1>2, <1>3, GradingTypeCorrect, PTL DEF Spec, OnlyOldMarksHide

-----------------------------------------------------------------------------
(* Results come from a key the exam has had, which the job read when it     *)
(* started and carries along.                                               *)
ResultsOfAKey ==
  /\ \A d \in Exams : sheet[d].ai = "done" => sheet[d].of \in 1..key[d]
  /\ worker # Idle => worker.of \in 1..key[worker.exam]

(* Only the end of a grading makes a sheet "done", and keys only get newer. *)
LEMMA KeyStep ==
  ASSUME TypeOK, ResultsOfAKey, [Next]_vars
  PROVE ResultsOfAKey'
<1>0. /\ sheet \in [Exams -> Sheet] /\ key \in [Exams -> Nat]
      /\ worker # Idle => worker.exam \in Exams /\ worker.of \in Nat
  BY DEF TypeOK, Job
<1>u. ASSUME UNCHANGED <<key, worker>>,
             \A d \in Exams : sheet'[d].ai = "done" => sheet[d].ai = "done" /\ sheet'[d].of = sheet[d].of
      PROVE ResultsOfAKey'
  BY <1>u DEF ResultsOfAKey
<1>1. ASSUME NEW e \in Exams, OcrSheetMarks(e) \/ UploadAnswerSheet(e) \/ SubmitScore(e) PROVE ResultsOfAKey'
  <2>1. \A d \in Exams : sheet'[d].ai = sheet[d].ai /\ sheet'[d].of = sheet[d].of
    BY <1>0, <1>1 DEF OcrSheetMarks, UploadAnswerSheet, Received, SubmitScore, Scored, Sheet
  <2> QED BY <1>1, <1>u, <2>1 DEF OcrSheetMarks, UploadAnswerSheet, SubmitScore, jobs
<1>2. ASSUME NEW e \in Exams, OcrKey(e) \/ Regrade(e) PROVE ResultsOfAKey'
  <2>1. sheet' = sheet \/ sheet' = Cleared(e) BY <1>2 DEF OcrKey, Regrade
  <2>2. \A d \in Exams : sheet'[d].ai = "done" => sheet'[d] = sheet[d] BY <1>0, <2>1 DEF Cleared, Sheet
  <2> QED BY <1>2, <1>u, <2>2 DEF OcrKey, Regrade
<1>3. ASSUME NEW e \in Exams, NEW n \in 0..(Attempts - 1), GradeStarts(e, n) PROVE ResultsOfAKey'
  <2>1. UNCHANGED key BY <1>3 DEF GradeStarts
  <2>2. CASE UNCHANGED <<worker, sheet>> BY <1>u, <2>1, <2>2
  <2>3. CASE /\ key[e] # 0 /\ worker' = [exam |-> e, failures |-> n, of |-> key[e]]
             /\ sheet' = [sheet EXCEPT ![e].ai = "processing", ![e].of = 0]
    <3>1. \A d \in Exams : sheet'[d].ai = "done" => sheet'[d] = sheet[d] BY <1>0, <2>3 DEF Sheet
    <3>2. worker'.of = key[worker'.exam] /\ worker'.of \in 1..key[e] /\ worker'.exam = e BY <1>0, <2>3
    <3> QED BY <2>1, <3>1, <3>2 DEF ResultsOfAKey
  <2> QED BY <1>3, <2>2, <2>3 DEF GradeStarts
<1>4. CASE GradeSucceeds
  <2>1. /\ UNCHANGED key /\ worker' = Idle /\ worker.exam \in Exams /\ worker.of \in 1..key[worker.exam]
        /\ sheet' = [sheet EXCEPT ![worker.exam].ai = "done", ![worker.exam].of = worker.of]
    BY <1>0, <1>4 DEF GradeSucceeds, ResultsOfAKey
  <2>2. /\ sheet'[worker.exam].of = worker.of
        /\ \A d \in Exams \ {worker.exam} : sheet'[d] = sheet[d]
    BY <1>0, <2>1 DEF Sheet
  <2> QED BY <2>1, <2>2 DEF ResultsOfAKey
<1>5. CASE GradeFails
  <2>1. UNCHANGED key /\ worker' = Idle BY <1>5 DEF GradeFails
  <2>2. \A d \in Exams : sheet'[d].ai = "done" => sheet'[d] = sheet[d] BY <1>0, <1>5 DEF GradeFails, Sheet
  <2> QED BY <2>1, <2>2 DEF ResultsOfAKey
<1>6. ASSUME NEW e \in Exams, UploadAnswerKey(e) PROVE ResultsOfAKey'
  <2>1. UNCHANGED <<sheet, worker>> /\ \A d \in Exams : 1..key[d] \subseteq 1..key'[d]
    BY <1>0, <1>6 DEF UploadAnswerKey
  <2> QED BY <1>0, <2>1 DEF ResultsOfAKey
<1>7. ASSUME UNCHANGED <<sheet, key, worker>> PROVE ResultsOfAKey' BY <1>7 DEF ResultsOfAKey
<1>8. ASSUME NEW e \in Exams,
             \/ OcrSheetAsks(e) \/ CreateExam(e) \/ SelectExam(e) \/ Upload(e) \/ UploadFails(e)
             \/ TeacherSelects(e) \/ Save(e) \/ RegisterQuestions(e) \/ SaveFails(e) \/ OpenSheet(e)
             \/ Fetch(e) \/ Mark(e) \/ handleAutoScore(e)
      PROVE UNCHANGED <<sheet, key, worker>>
  BY <1>8 DEF OcrSheetAsks, CreateExam, SelectExam, Upload, UploadFails, TeacherSelects, Save,
      RegisterQuestions, SaveFails, OpenSheet, Fetch, Mark, handleAutoScore, backend, jobs
<1>9. ASSUME \/ StudentReset \/ UploadAgain \/ TeacherReset \/ BackToQuestions
             \/ OtherTab \/ Skip \/ UNCHANGED vars
      PROVE UNCHANGED <<sheet, key, worker>>
  BY <1>9 DEF StudentReset, UploadAgain, TeacherReset, BackToQuestions, OtherTab, Skip, vars,
      backend, jobs
<1> QED
  BY <1>1, <1>2, <1>3, <1>4, <1>5, <1>6, <1>7, <1>8, <1>9 DEF Next, Work, Student, Teacher

(* An exam whose key was never replaced has no results but of that key,    *)
(* whatever jobs overlap: it takes a second key to make them stale, as in  *)
(* the counterexample to GradingIsCurrent.                                 *)
THEOREM FirstKeyNeverStale ==
  Spec => [](\A e \in Exams : key[e] < 2 /\ sheet[e].ai = "done" => sheet[e].of = key[e])
<1>1. Init => ResultsOfAKey BY DEF Init, ResultsOfAKey, NoSheet
<1>2. TypeOK /\ ResultsOfAKey /\ [Next]_vars => ResultsOfAKey' BY KeyStep
<1>3. TypeOK /\ ResultsOfAKey
        => \A e \in Exams : key[e] < 2 /\ sheet[e].ai = "done" => sheet[e].of = key[e]
  <2> SUFFICES ASSUME TypeOK, ResultsOfAKey, NEW e \in Exams, key[e] < 2, sheet[e].ai = "done"
               PROVE  sheet[e].of = key[e]
    OBVIOUS
  <2>1. key[e] \in Nat /\ sheet[e].of \in 1..key[e] BY DEF TypeOK, ResultsOfAKey
  <2> QED BY <2>1
<1> QED BY <1>1, <1>2, <1>3, GradingTypeCorrect, PTL DEF Spec
=============================================================================
