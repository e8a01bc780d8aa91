--------------------------- MODULE SchoolTheorems ---------------------------
(***************************************************************************)
(* What holds of School for every number of students, teachers and classes *)
(* and every scores: the types, that no class has two leaders, who fights  *)
(* a war that is declared while students move, that an automatic           *)
(* assignment is done at its commit or not at all, and that it is fair.    *)
(***************************************************************************)
EXTENDS School, FiniteSetTheorems, TLAPS

-----------------------------------------------------------------------------
(* The places of n students are classes. *)
LEMMA BlockType ==
  ASSUME NEW n \in Nat, NEW i \in 1..n
  PROVE Block(i, n) \in Classes
<1>1. K \in Nat /\ K > 0 /\ n > 0 BY SchoolAssumption
<1> DEFINE m == (i - 1) * K
<1>2. m \in Nat BY <1>1
<1>3. m <= (n - 1) * K BY <1>1
<1>4. (n - 1) * K < n * K BY <1>1
<1>5. m < n * K BY <1>1, <1>2, <1>3, <1>4
<1> HIDE DEF m
<1>6. m \div n \in Nat /\ (m \div n) * n <= m BY <1>1, <1>2
<1>7. m \div n < K BY <1>1, <1>2, <1>5, <1>6
<1> QED BY <1>1, <1>6, <1>7 DEF Block, Classes, m

(* The batch of an automatic assignment is a sequence of rows, the places  *)
(* of an order of students.                                                *)
LEMMA AssignType ==
  ASSUME TypeOK, NEW t \in Teachers, AssignByScore(t)
  PROVE  \E n \in Nat \ {0} : \E q \in Ordered(n) :
           /\ batch'[t].all \in Seq(Row) /\ batch'[t].todo = batch'[t].all
           /\ DOMAIN batch'[t].all = 1..n
           /\ \A i \in 1..n : batch'[t].all[i] = [student |-> q[i], class |-> Block(i, n)]
           /\ batch'[t].wrote = NoBatch.wrote /\ batch'[t].kept = {}
           /\ batch' = [batch EXCEPT ![t] = batch'[t]]
<1>0. PICK n \in 1..MaxEntries : \E q \in Ordered(n) :
        LET rows == [i \in 1..n |-> [student |-> q[i], class |-> Block(i, n)]]
        IN  batch' = [batch EXCEPT ![t] = [NoBatch EXCEPT !.all = rows, !.todo = rows]]
  BY DEF AssignByScore
<1>1. PICK q \in Ordered(n) :
        LET rows == [i \in 1..n |-> [student |-> q[i], class |-> Block(i, n)]]
        IN  batch' = [batch EXCEPT ![t] = [NoBatch EXCEPT !.all = rows, !.todo = rows]]
  BY <1>0
<1> DEFINE rows == [i \in 1..n |-> [student |-> q[i], class |-> Block(i, n)]]
           b == [NoBatch EXCEPT !.all = rows, !.todo = rows]
<1>2. n \in Nat \ {0} BY SchoolAssumption
<1>3. q \in [1..n -> Students] BY DEF Ordered
<1>4. \A i \in 1..n : q[i] \in Students /\ Block(i, n) \in Classes BY <1>2, <1>3, BlockType
<1>5. rows \in [1..n -> Row] BY <1>4 DEF Row
<1>6. rows \in Seq(Row) BY <1>2, <1>5
<1>7. DOMAIN rows = 1..n /\ \A i \in 1..n : rows[i] = [student |-> q[i], class |-> Block(i, n)]
  OBVIOUS
<1>8. batch' = [batch EXCEPT ![t] = b] BY <1>1
<1> HIDE DEF rows
<1>9. b.all = rows /\ b.todo = rows /\ b.wrote = NoBatch.wrote /\ b.kept = {} BY DEF NoBatch
<1> HIDE DEF b
<1>10. batch'[t] = b BY <1>8 DEF TypeOK
<1>11. /\ batch'[t].all \in Seq(Row) /\ batch'[t].todo = batch'[t].all
       /\ DOMAIN batch'[t].all = 1..n
       /\ \A i \in 1..n : batch'[t].all[i] = [student |-> q[i], class |-> Block(i, n)]
       /\ batch'[t].wrote = NoBatch.wrote /\ batch'[t].kept = {}
       /\ batch' = [batch EXCEPT ![t] = batch'[t]]
  BY <1>6, <1>7, <1>8, <1>9, <1>10
<1> QED BY <1>2, <1>11

LEMMA NoBatchType == NoBatch \in Batch
BY DEF NoBatch, Batch

LEMMA NoAppointmentType == NoAppointment \in Appointment
BY SchoolAssumption DEF NoAppointment, Appointment, Classes

(* A new batch has a type, whoever's it is. *)
LEMMA NewBatchType ==
  ASSUME TypeOK, NEW t \in Teachers, AssignByScore(t)
  PROVE  batch'[t] \in Batch
<1>1. \E n \in 1..MaxEntries : \E q \in Ordered(n) :
        LET rows == [i \in 1..n |-> [student |-> q[i], class |-> Block(i, n)]]
        IN  batch'[t] = [NoBatch EXCEPT !.all = rows, !.todo = rows]
  BY DEF AssignByScore, TypeOK
<1>2. batch'[t].all \in Seq(Row) BY AssignType
<1> QED BY <1>1, <1>2 DEF NoBatch, Batch

(* One row of the batch: one that is kept, one that is written, or none. *)
LEMMA RowStep ==
  ASSUME TypeOK, NEW t \in Teachers, BatchRow(t)
  PROVE  LET r == Head(batch[t].todo)
         IN  /\ r \in Row /\ Tail(batch[t].todo) \in Seq(Row) /\ batch[t] \in Batch
             /\ batch' = [batch EXCEPT ![t] = batch'[t]]
             /\ \/ batch'[t] = NoBatch
                \/ batch'[t] = Keeps(batch[t], r.student) /\ Now(t, r.student) = r.class
                \/ /\ batch'[t] = Writes(batch[t], r)
                   /\ Free(r.student, <<"batch", t>>)
                   /\ leader[r.student] =>
                        /\ ~Awaited(r.class, r.student, <<"batch", t>>)
                        /\ ~Taken(r.class, r.student, <<"batch", t>>, [s \in Students |-> Now(t, s)])
<1>1. batch[t] \in Batch /\ batch \in [Teachers -> Batch] BY DEF TypeOK
<1>2. Head(batch[t].todo) \in Row /\ Tail(batch[t].todo) \in Seq(Row)
  BY <1>1 DEF BatchRow, Batch
<1> QED BY <1>1, <1>2 DEF BatchRow

LEMMA RowType ==
  ASSUME TypeOK, NEW t \in Teachers, BatchRow(t)
  PROVE  batch'[t] \in Batch
<1> DEFINE b == batch[t]
           r == Head(b.todo)
<1>1. r \in Row /\ Tail(b.todo) \in Seq(Row) /\ b \in Batch BY RowStep
<1>2. Keeps(b, r.student) \in Batch BY <1>1 DEF Keeps, Batch, Row
<1>3. Writes(b, r) \in Batch
  <2>1. [b.wrote EXCEPT ![r.student] = r.class] \in [Students -> Classes \cup {0}]
    BY <1>1 DEF Batch, Row
  <2> QED BY <1>1, <2>1 DEF Writes, Batch, Row
<1> QED BY <1>2, <1>3, RowStep, NoBatchType

(* Every step keeps the types. *)
LEMMA TypeStep ==
  ASSUME TypeOK, [Next]_vars
  PROVE  TypeOK'
<1>0. /\ batch \in [Teachers -> Batch] /\ appoint \in [Teachers -> Appointment]
      /\ class \in [Students -> Classes] /\ leader \in [Students -> BOOLEAN]
  BY DEF TypeOK
<1>1. ASSUME NEW c \in Classes, NEW s \in Students, ChangeClass(s, c) PROVE TypeOK'
  BY <1>1 DEF ChangeClass, MovedTo, TypeOK
<1>2. ASSUME NEW t \in Teachers, NEW c \in Classes, NEW s \in Students \cup {None}, Begin(t, c, s)
      PROVE  TypeOK'
  <2>1. Leaders(c) \in SUBSET Students BY DEF Leaders, Members
  <2>2. [step |-> "begun", of |-> c, who |-> s, seen |-> Leaders(c), out |-> {}] \in Appointment
    BY <2>1 DEF Appointment
  <2> QED BY <1>2, <2>2 DEF Begin, Appoints, TypeOK
<1>3. ASSUME NEW t \in Teachers, Dismiss(t) PROVE TypeOK'
  <2>1. appoint[t].seen \cap Leaders(appoint[t].of) \in SUBSET Students
    BY DEF Leaders, Members
  <2>2. [appoint[t] EXCEPT !.step = "dismissed", !.seen = {},
                           !.out = appoint[t].seen \cap Leaders(appoint[t].of)] \in Appointment
    BY <1>0, <2>1 DEF Appointment
  <2> QED BY <1>3, <2>2 DEF Dismiss, Appoints, TypeOK
<1>4. ASSUME NEW t \in Teachers, NEW s, Commit(t, s), UNCHANGED <<class, batch, war>> PROVE TypeOK'
  BY <1>4, NoAppointmentType DEF Commit, LedBy, Appoints, TypeOK
<1>5. ASSUME NEW t \in Teachers, Appoints(t, NoAppointment), UNCHANGED <<class, leader, batch, war>>
      PROVE  TypeOK'
  BY <1>5, NoAppointmentType DEF Appoints, TypeOK
<1>6. ASSUME NEW t \in Teachers, Find(t) PROVE TypeOK'
  <2>1. [appoint[t] EXCEPT !.step = "found"] \in Appointment BY <1>0 DEF Appointment
  <2>2. CASE Appoints(t, [appoint[t] EXCEPT !.step = "found"]) /\ UNCHANGED leader
    BY <1>6, <2>1, <2>2 DEF Find, Appoints, TypeOK
  <2> QED BY <1>4, <1>5, <1>6, <2>2 DEF Find
<1>7. ASSUME NEW t \in Teachers, SetLeader(t) PROVE TypeOK'
  BY <1>4, <1>5, <1>7 DEF SetLeader
<1>8. ASSUME NEW t \in Teachers, AppointFails(t) PROVE TypeOK'
  BY <1>5, <1>8 DEF AppointFails
<1>9. ASSUME NEW t \in Teachers, AssignByScore(t) PROVE TypeOK'
  <2>1. batch' = [batch EXCEPT ![t] = batch'[t]] BY <1>9, AssignType
  <2>2. batch'[t] \in Batch BY <1>9, NewBatchType
  <2>3. batch' \in [Teachers -> Batch] BY <1>0, <2>1, <2>2
  <2> QED BY <1>9, <2>3 DEF AssignByScore, TypeOK
<1>10. ASSUME NEW t \in Teachers, BatchRow(t) PROVE TypeOK'
  <2>1. batch'[t] \in Batch /\ batch' = [batch EXCEPT ![t] = batch'[t]] BY <1>10, RowType, RowStep
  <2>2. batch' \in [Teachers -> Batch] BY <1>0, <2>1
  <2> QED BY <1>10, <2>2 DEF BatchRow, TypeOK
<1>11. ASSUME NEW t \in Teachers, BatchCommits(t) PROVE TypeOK'
  <2>1. class' \in [Students -> Classes] BY <1>0, <1>11 DEF BatchCommits, Now, Batch
  <2> QED BY <1>11, <2>1, NoBatchType DEF BatchCommits, TypeOK
<1>12. ASSUME NEW t \in Teachers, BatchFails(t) PROVE TypeOK'
  BY <1>12, NoBatchType DEF BatchFails, TypeOK
<1>13. \A c : ReadSide(c) \in Side BY DEF ReadSide, Side, Members, Leaders
<1>14. ASSUME NEW c \in Classes, Declare(c) PROVE TypeOK'
  <2>1. war' \in War BY <1>0, <1>13, <1>14 DEF Declare, War
  <2> QED BY <1>14, <2>1 DEF Declare, TypeOK
<1>15. ASSUME NEW c \in Classes, DeclareOn(c) PROVE TypeOK'
  <2>1. war.side \in Side /\ war.of \in Classes BY <1>15 DEF DeclareOn, TypeOK, War
  <2>2. [at |-> "made", of |-> war.of, on |-> c,
         attackers |-> war.side.students, defenders |-> ReadSide(c).students] \in War
    BY <1>13, <2>1 DEF War, Side
  <2>3. war' \in War BY <1>15, <2>2 DEF DeclareOn, War, NoWar
  <2> QED BY <1>15, <2>3 DEF DeclareOn, TypeOK
<1>16. CASE GoToBattle BY <1>16 DEF GoToBattle, TypeOK, War, NoWar
<1>17. CASE UNCHANGED vars BY <1>17 DEF vars, TypeOK
<1> QED
  BY <1>1, <1>2, <1>3, <1>6, <1>7, <1>8, <1>9, <1>10, <1>11, <1>12, <1>14, <1>15, <1>16, <1>17
  DEF Next

(* The memberships, the transactions at work and the declaration have      *)
(* their types in every reachable state.                                   *)
THEOREM SchoolTypeCorrect == Spec => []TypeOK
<1>1. Init => TypeOK BY NoBatchType, NoAppointmentType DEF Init, TypeOK, War, NoWar
<1> QED BY <1>1, TypeStep, PTL DEF Spec

-----------------------------------------------------------------------------
(* The attackers of a war half declared are those who were in their class. *)
AttackersWere ==
  war.at = "half" => war.side.students = {s \in Students : war.was[s] = war.of}

LEMMA AttackersWereStep ==
  ASSUME AttackersWere, [Next]_vars
  PROVE  AttackersWere'
<1>1. ASSUME NEW c \in Classes, Declare(c) PROVE AttackersWere'
  BY <1>1 DEF Declare, ReadSide, Members, AttackersWere
<1>2. ASSUME NEW c \in Classes, DeclareOn(c) PROVE AttackersWere'
  BY <1>2 DEF DeclareOn, NoWar, AttackersWere
<1>3. CASE GoToBattle BY <1>3 DEF GoToBattle, NoWar, AttackersWere
<1>4. CASE UNCHANGED war BY <1>4 DEF AttackersWere
<1> QED
  BY <1>1, <1>2, <1>3, <1>4
  DEF Next, ChangeClass, Begin, Dismiss, Find, SetLeader, AppointFails, AssignByScore, BatchRow,
    BatchCommits, BatchFails, vars

(* Whoever stays in a class while a war is declared fights if and only if  *)
(* that class does, and on its side alone.  A class at war with itself     *)
(* would have them on both sides, which the validation refuses.            *)
THEOREM WhoStaysFights == Spec => StayersFight
<1> DEFINE P == war.at = "half" /\ war'.at = "made" =>
       \A s \in Students : war.was[s] = class[s] =>
         /\ s \in war'.attackers <=> class[s] = war'.of
         /\ s \in war'.defenders <=> class[s] = war'.on /\ war'.on # war'.of
<1>1. Init => AttackersWere BY DEF Init, NoWar, AttackersWere
<1>2. AttackersWere /\ [Next]_vars => AttackersWere' BY AttackersWereStep
<1>3. ASSUME AttackersWere, [Next]_vars PROVE [P]_vars
  <2>1. ASSUME war.at = "half", war'.at = "made" PROVE \E c \in Classes : DeclareOn(c)
    <3>1. \/ war' = war \/ GoToBattle
          \/ \E c \in Classes : Declare(c) \/ DeclareOn(c)
      BY <1>3
      DEF Next, ChangeClass, Begin, Dismiss, Find, SetLeader, AppointFails, AssignByScore, BatchRow,
        BatchCommits, BatchFails, vars
    <3> QED BY <2>1, <3>1 DEF Declare, GoToBattle, NoWar
  <2>2. ASSUME war.at = "half", war'.at = "made", NEW s \in Students, war.was[s] = class[s]
        PROVE  /\ s \in war'.attackers <=> class[s] = war'.of
               /\ s \in war'.defenders <=> class[s] = war'.on /\ war'.on # war'.of
    <3>1. PICK c \in Classes : DeclareOn(c) BY <2>1, <2>2
    <3>2. /\ war' = [at |-> "made", of |-> war.of, on |-> c,
                     attackers |-> war.side.students, defenders |-> Members(c)]
          /\ war.side.students \cap Members(c) = {}
      BY <2>2, <3>1 DEF DeclareOn, NoWar, Valid, ReadSide
    <3>3. war'.of = war.of /\ war'.on = c /\ war'.attackers = war.side.students
          /\ war'.defenders = Members(c)
      BY <3>2
    <3>4. s \in war.side.students <=> class[s] = war.of BY <1>3, <2>2 DEF AttackersWere
    <3>5. s \in Members(c) <=> class[s] = c BY DEF Members
    <3>6. s \in Members(c) => c # war.of BY <3>2, <3>4, <3>5
    <3> QED BY <3>3, <3>4, <3>5, <3>6
  <2> QED BY <2>2
<1> QED BY <1>1, <1>2, <1>3, PTL DEF Spec, StayersFight

-----------------------------------------------------------------------------
(* What is left of a batch is its end.  Every row before it is written, or *)
(* replaced by a later one, or its student, found there, has not been      *)
(* written; and nobody is written whom it does not name.                   *)
Past(b) == Len(b.all) - Len(b.todo)

Named(b, s) == \E i \in DOMAIN b.all : b.all[i].student = s

Settled(b) ==
  /\ Len(b.todo) <= Len(b.all)
  /\ \A i \in 1..Len(b.todo) : b.todo[i] = b.all[Past(b) + i]
  /\ \A i \in 1..Past(b) :
       \/ b.wrote[b.all[i].student] = b.all[i].class
       \/ b.all[i].student \in b.kept /\ b.wrote[b.all[i].student] = 0
       \/ \E j \in 1..Past(b) : j > i /\ b.all[j].student = b.all[i].student
  /\ \A s \in Students : b.wrote[s] # 0 => Named(b, s)

LEMMA NobodySettled == Settled(NoBatch)
BY DEF Settled, NoBatch, Past

(* A row settles its student. *)
LEMMA RowSettles ==
  ASSUME TypeOK, NEW t \in Teachers, Settled(batch[t]), BatchRow(t)
  PROVE  Settled(batch'[t])
<1> USE DEF Past
<1> DEFINE b == batch[t]
           d == batch'[t]
           r == Head(b.todo)
           p == Past(b)
           all == b.all
           todo == b.todo
<1>1. /\ b \in Batch /\ todo \in Seq(Row) /\ all \in Seq(Row) /\ todo # <<>>
      /\ Len(todo) \in Nat \ {0} /\ Len(all) \in Nat /\ r = todo[1] /\ r \in Row
      /\ Len(Tail(todo)) = Len(todo) - 1
      /\ \A i \in 1..(Len(todo) - 1) : Tail(todo)[i] = todo[i + 1]
  <2>1. b \in Batch BY DEF TypeOK
  <2> QED BY <2>1 DEF Batch, BatchRow
<1>2. p = Len(all) - Len(todo) /\ Len(todo) <= Len(all)
      /\ \A i \in 1..Len(todo) : todo[i] = all[p + i]
  BY DEF Settled
<1>3. \A i \in 1..p : \/ b.wrote[all[i].student] = all[i].class
                      \/ all[i].student \in b.kept /\ b.wrote[all[i].student] = 0
                      \/ \E j \in 1..p : j > i /\ all[j].student = all[i].student
  BY DEF Settled
<1>4. \A s \in Students : b.wrote[s] # 0 => Named(b, s) BY DEF Settled
<1>5. CASE d = NoBatch BY <1>5, NobodySettled
<1>6. CASE d # NoBatch
  <2>1. /\ d.all = all /\ d.todo = Tail(todo)
        /\ b.kept \subseteq d.kept
        /\ \/ d.wrote[r.student] = r.class
           \/ r.student \in d.kept /\ d.wrote[r.student] = 0
        /\ \A s \in Students \ {r.student} : d.wrote[s] = b.wrote[s]
    <3>1. CASE d = Keeps(b, r.student) /\ Now(t, r.student) = r.class
      <4>1. d.wrote = b.wrote /\ d.all = all /\ d.todo = Tail(todo)
            /\ d.kept = IF b.wrote[r.student] = 0 THEN b.kept \cup {r.student} ELSE b.kept
        BY <1>1, <3>1 DEF Keeps, Batch
      <4> HIDE DEF b, d, r, all, todo, p
      <4> QED BY <3>1, <4>1 DEF Now, b
    <3>2. CASE d = Writes(b, r)
      <4>1. d.wrote = [b.wrote EXCEPT ![r.student] = r.class] /\ d.all = all /\ d.todo = Tail(todo)
            /\ d.kept = b.kept
        BY <1>1, <3>2 DEF Writes, Batch
      <4>2. b.wrote \in [Students -> Classes \cup {0}] /\ r.student \in Students
        BY <1>1 DEF Batch, Row
      <4> HIDE DEF b, d, r, all, todo, p
      <4> QED BY <4>1, <4>2
    <3> QED BY <1>6, <3>1, <3>2, RowStep
  <2> HIDE DEF b, d, p, r, todo, all
  <2>2. p \in Nat /\ p + 1 <= Len(all) /\ Len(all) = p + Len(todo) BY <1>1, <1>2
  <2>3. r = all[p + 1]
    <3>1. 1 \in 1..Len(todo) /\ r = todo[1] BY <1>1
    <3> QED BY <1>2, <3>1
  <2>4. Len(d.all) = Len(all) /\ Len(d.todo) = Len(todo) - 1 BY <1>1, <2>1
  <2>5. Past(d) = p + 1 /\ Len(d.todo) <= Len(d.all) /\ Len(d.todo) \in Nat
    <3> DEFINE n == Len(todo)
               m == Len(all)
    <3>1. n \in Nat \ {0} /\ m \in Nat /\ m = p + n BY <1>1, <2>2
    <3>2. Past(d) = m - (n - 1) /\ Len(d.todo) = n - 1 /\ Len(d.all) = m BY <2>4
    <3> HIDE DEF n, m
    <3> QED BY <2>2, <3>1, <3>2
  <2> HIDE DEF Past
  <2>6. ASSUME NEW i \in 1..Len(d.todo) PROVE d.todo[i] = d.all[Past(d) + i]
    <3> DEFINE n == Len(todo)
    <3>0. n \in Nat /\ i \in 1..(n - 1) BY <1>1, <2>4
    <3> HIDE DEF n
    <3>1. i \in 1..(n - 1) /\ i + 1 \in 1..n BY <3>0
    <3> USE DEF n
    <3>2. Tail(todo)[i] = todo[i + 1] /\ todo[i + 1] = all[p + (i + 1)] BY <1>1, <1>2, <3>1
    <3>3. p + (i + 1) = (p + 1) + i BY <2>2, <3>1
    <3> QED BY <2>1, <2>5, <3>2, <3>3
  <2>7. ASSUME NEW i \in 1..Past(d)
        PROVE \/ d.wrote[d.all[i].student] = d.all[i].class
              \/ d.all[i].student \in d.kept /\ d.wrote[d.all[i].student] = 0
              \/ \E j \in 1..Past(d) : j > i /\ d.all[j].student = d.all[i].student
    <3>1. CASE i = p + 1 BY <3>1, <2>1, <2>3
    <3>2. CASE i \in 1..p /\ all[i].student = r.student
      <4>1. p + 1 \in 1..Past(d) /\ p + 1 > i /\ d.all[p + 1].student = d.all[i].student
        BY <2>1, <2>2, <2>3, <2>5, <3>2
      <4> QED BY <4>1
    <3>3. CASE i \in 1..p /\ all[i].student # r.student
      <4>1. all[i] \in Row BY <1>1, <2>2, <3>3
      <4>2. d.wrote[all[i].student] = b.wrote[all[i].student] BY <2>1, <3>3, <4>1 DEF Row
      <4>3. \A j \in 1..p : j \in 1..Past(d) BY <2>2, <2>5
      <4> QED BY <1>3, <2>1, <3>3, <4>2, <4>3
    <3>4. i \in 1..p \/ i = p + 1 BY <2>2, <2>5
    <3> QED BY <3>1, <3>2, <3>3, <3>4
  <2>8. ASSUME NEW s \in Students, d.wrote[s] # 0 PROVE Named(d, s)
    <3>1. CASE s = r.student
      <4>1. p + 1 \in DOMAIN all BY <1>1, <2>2
      <4> QED BY <2>1, <2>3, <3>1, <4>1 DEF Named
    <3>2. CASE s # r.student
      <4>1. Named(b, s) BY <1>4, <2>1, <2>8, <3>2
      <4> QED BY <2>1, <4>1 DEF Named, all
    <3> QED BY <3>1, <3>2
  <2>9. Settled(d) BY <2>5, <2>6, <2>7, <2>8 DEF Settled
  <2> QED BY <2>9 DEF d
<1> QED BY <1>5, <1>6

AllSettled == \A t \in Teachers : Settled(batch[t])

LEMMA SettledStep ==
  ASSUME TypeOK, AllSettled, [Next]_vars
  PROVE  AllSettled'
<1>0. batch \in [Teachers -> Batch] BY DEF TypeOK
<1>1. ASSUME NEW t \in Teachers, batch' = [batch EXCEPT ![t] = batch'[t]], Settled(batch'[t])
      PROVE  AllSettled'
  <2>1. \A u \in Teachers \ {t} : batch'[u] = batch[u] BY <1>0, <1>1
  <2>2. \A u \in Teachers : Settled(batch'[u]) BY <1>1, <2>1 DEF AllSettled
  <2> QED BY <2>2 DEF AllSettled, Settled, Past, Named
<1>2. ASSUME NEW t \in Teachers, AssignByScore(t) PROVE AllSettled'
  <2>1. /\ batch' = [batch EXCEPT ![t] = batch'[t]] /\ batch'[t].todo = batch'[t].all
        /\ batch'[t].all \in Seq(Row) /\ batch'[t].wrote = NoBatch.wrote
    BY <1>2, AssignType
  <2>2. \A s \in Students : batch'[t].wrote[s] = 0 BY <2>1 DEF NoBatch
  <2>3. Settled(batch'[t]) BY <2>1, <2>2 DEF Settled, Past
  <2> QED BY <1>1, <2>1, <2>3
<1>3. ASSUME NEW t \in Teachers, BatchRow(t) PROVE AllSettled'
  <2>1. batch' = [batch EXCEPT ![t] = batch'[t]] BY <1>3, RowStep
  <2>2. Settled(batch'[t]) BY <1>3, RowSettles DEF AllSettled
  <2> QED BY <1>1, <2>1, <2>2
<1>4. ASSUME NEW t \in Teachers, BatchCommits(t) \/ BatchFails(t) PROVE AllSettled'
  <2>1. batch' = [batch EXCEPT ![t] = NoBatch] BY <1>4 DEF BatchCommits, BatchFails
  <2>2. batch'[t] = NoBatch /\ batch' = [batch EXCEPT ![t] = batch'[t]] BY <1>0, <2>1
  <2> QED BY <1>1, <2>2, NobodySettled
<1>5. CASE UNCHANGED batch
  <2>1. \A t \in Teachers : Settled(batch'[t]) BY <1>5 DEF AllSettled
  <2> QED BY <2>1 DEF AllSettled, Settled, Past, Named
<1> QED
  BY <1>2, <1>3, <1>4, <1>5
  DEF Next, ChangeClass, Begin, Dismiss, Find, SetLeader, Commit, AppointFails, Declare, DeclareOn,
    GoToBattle, vars

(* The batch that commits has settled all its rows. *)
LEMMA CommitSettles ==
  ASSUME TypeOK, NEW t \in Teachers, Settled(batch[t]), BatchCommits(t)
  PROVE  /\ \A i \in DOMAIN batch[t].all :
              LET r == batch[t].all[i]
              IN  LastOf(batch[t].all, i) =>
                    \/ class'[r.student] = r.class
                    \/ r.student \in batch[t].kept /\ class'[r.student] = class[r.student]
         /\ \A s \in Students :
              class'[s] # class[s] => \E i \in DOMAIN batch[t].all : batch[t].all[i].student = s
<1> DEFINE b == batch[t]
<1>1. /\ b \in Batch /\ b.all \in Seq(Row) /\ b.todo = <<>>
      /\ DOMAIN b.all = 1..Len(b.all) /\ Len(b.all) \in Nat
  <2>1. b \in Batch BY DEF TypeOK
  <2> QED BY <2>1 DEF Batch, BatchCommits
<1>2. Past(b) = Len(b.all) BY <1>1 DEF Past
<1>3. \A s \in Students : class'[s] = IF b.wrote[s] # 0 THEN b.wrote[s] ELSE class[s]
  BY DEF BatchCommits, Now
<1>4. /\ \A i \in 1..Past(b) :
           \/ b.wrote[b.all[i].student] = b.all[i].class
           \/ b.all[i].student \in b.kept /\ b.wrote[b.all[i].student] = 0
           \/ \E j \in 1..Past(b) : j > i /\ b.all[j].student = b.all[i].student
      /\ \A s \in Students : b.wrote[s] # 0 => Named(b, s)
  BY DEF Settled
<1> HIDE DEF b
<1>5. ASSUME NEW i \in DOMAIN b.all, LastOf(b.all, i)
      PROVE  \/ class'[b.all[i].student] = b.all[i].class
             \/ b.all[i].student \in b.kept /\ class'[b.all[i].student] = class[b.all[i].student]
  <2>1. b.all[i] \in Row BY <1>1
  <2>2. b.all[i].student \in Students /\ b.all[i].class # 0 BY <2>1 DEF Row, Classes
  <2>3. i \in 1..Past(b) BY <1>1, <1>2
  <2>4. ~\E j \in 1..Past(b) : j > i /\ b.all[j].student = b.all[i].student
    BY <1>1, <1>2, <1>5 DEF LastOf
  <2> QED BY <1>3, <1>4, <2>2, <2>3, <2>4
<1>6. ASSUME NEW s \in Students, class'[s] # class[s]
      PROVE  \E i \in DOMAIN b.all : b.all[i].student = s
  BY <1>3, <1>4, <1>6 DEF Named
<1> QED BY <1>5, <1>6 DEF b

(* The automatic assignment moves nobody until it commits.  Then nobody it *)
(* does not name has moved, and everybody it names is where the last of    *)
(* their rows says, but for those it found there, did not write, and who   *)
(* were moved by somebody else in between.                                 *)
THEOREM AssignmentAllOrNothing == Spec => AllOrNothing
<1> DEFINE P == class' # class =>
       \/ batch' = batch /\ \E s \in Students : class' = [class EXCEPT ![s] = class'[s]]
       \/ \E t \in Teachers :
            /\ batch' = [batch EXCEPT ![t] = NoBatch]
            /\ \A i \in DOMAIN batch[t].all :
                 LET r == batch[t].all[i]
                 IN  LastOf(batch[t].all, i) =>
                       \/ class'[r.student] = r.class
                       \/ r.student \in batch[t].kept /\ class'[r.student] = class[r.student]
            /\ \A s \in Students :
                 class'[s] # class[s] => \E i \in DOMAIN batch[t].all : batch[t].all[i].student = s
<1>1. Init => AllSettled
  BY NobodySettled DEF Init, AllSettled
<1>2. TypeOK /\ AllSettled /\ [Next]_vars => AllSettled' BY SettledStep
<1>3. ASSUME TypeOK, AllSettled, [Next]_vars PROVE [P]_vars
  <2>1. ASSUME NEW c \in Classes, NEW s \in Students, ChangeClass(s, c) PROVE P
    BY <2>1 DEF ChangeClass, MovedTo, TypeOK
  <2>2. ASSUME NEW t \in Teachers, BatchCommits(t) PROVE P
    <3>1. batch' = [batch EXCEPT ![t] = NoBatch] BY <2>2 DEF BatchCommits
    <3>2. Settled(batch[t]) BY <1>3 DEF AllSettled
    <3> QED BY <1>3, <2>2, <3>1, <3>2, CommitSettles
  <2>3. CASE UNCHANGED class BY <2>3
  <2> QED
    BY <1>3, <2>1, <2>2, <2>3
    DEF Next, Begin, Dismiss, Find, SetLeader, AppointFails, AssignByScore, BatchRow, BatchFails,
      Declare, DeclareOn, GoToBattle, vars
<1> QED BY <1>1, <1>2, <1>3, SchoolTypeCorrect, PTL DEF Spec, AllOrNothing

-----------------------------------------------------------------------------
(* The places of the classes *)

LEMMA Division ==
  ASSUME NEW a \in Nat, NEW b \in Nat \ {0}
  PROVE  a \div b \in Nat /\ (a \div b) * b <= a /\ a < (a \div b) * b + b
OBVIOUS

LEMMA Products ==
  ASSUME NEW a \in Int, NEW b \in Int, NEW k \in Nat \ {0}
  PROVE  /\ a <= b <=> a * k <= b * k
         /\ a < b <=> a * k < b * k
         /\ a * k \in Int /\ (a + 1) * k = a * k + k /\ (a - 1) * k = a * k - k
OBVIOUS

(* Who comes later in the order gets no class before. *)
LEMMA BlockMonotone ==
  ASSUME NEW n \in Nat \ {0}, NEW i \in 1..n, NEW j \in 1..n, i <= j
  PROVE  Block(i, n) <= Block(j, n)
<1> DEFINE u == (i - 1) * K
           v == (j - 1) * K
           x == u \div n
           y == v \div n
<1>1. K \in Nat \ {0} BY SchoolAssumption
<1>2. u \in Nat /\ v \in Nat /\ u <= v BY <1>1, Products
<1> HIDE DEF u, v
<1>3. x \in Nat /\ y \in Nat /\ x * n <= u /\ v < y * n + n BY <1>2, Division
<1> HIDE DEF x, y
<1>4. x * n < (y + 1) * n BY <1>2, <1>3, Products
<1>5. x < y + 1 BY <1>3, <1>4, Products
<1>6. x <= y BY <1>3, <1>5
<1> QED BY <1>3, <1>6 DEF Block, x, y, u, v

(* The last place of class c among n: c * n / K, rounded up. *)
Edge(c, n) == (c * n + (K - 1)) \div K

LEMMA EdgeBounds ==
  ASSUME NEW c \in Nat, NEW n \in Nat
  PROVE  Edge(c, n) \in Nat /\ c * n <= Edge(c, n) * K /\ Edge(c, n) * K <= c * n + (K - 1)
<1> DEFINE a == c * n
           e == (a + (K - 1)) \div K
<1>1. K \in Nat \ {0} /\ a \in Nat BY SchoolAssumption
<1> HIDE DEF a
<1>2. a + (K - 1) \in Nat BY <1>1
<1>3. e \in Nat /\ e * K <= a + (K - 1) /\ a + (K - 1) < e * K + K BY <1>1, <1>2, Division
<1> HIDE DEF e
<1>4. e * K \in Int BY <1>1, <1>3
<1>5. a <= e * K BY <1>1, <1>3, <1>4
<1> QED BY <1>3, <1>5 DEF Edge, e, a

(* The places of class c are those between two edges. *)
LEMMA BlockIsInterval ==
  ASSUME NEW n \in Nat \ {0}, NEW c \in Classes
  PROVE  {i \in 1..n : Block(i, n) = c} = (Edge(c - 1, n) + 1)..Edge(c, n)
<1> DEFINE lo == Edge(c - 1, n)
           hi == Edge(c, n)
           a == (c - 1) * n
           b == c * n
<1>1. K \in Nat \ {0} /\ c \in Nat /\ c - 1 \in Nat /\ c <= K BY SchoolAssumption DEF Classes
<1>2. a \in Nat /\ b \in Nat /\ b = a + n BY <1>1
<1>3. lo \in Nat /\ a <= lo * K /\ lo * K <= a + (K - 1) BY <1>1, EdgeBounds
<1>4. hi \in Nat /\ b <= hi * K /\ hi * K <= b + (K - 1) BY <1>1, EdgeBounds
<1>5. hi <= n
  <2>1. b <= K * n BY <1>1, Products
  <2>2. hi * K < n * K + K BY <1>1, <1>4, <2>1
  <2>3. hi * K < (n + 1) * K BY <1>1, <2>2, Products
  <2> QED BY <1>1, <1>4, <2>3, Products
<1> HIDE DEF lo, hi, a, b
<1>6. ASSUME NEW i \in 1..n PROVE Block(i, n) = c <=> lo + 1 <= i /\ i <= hi
  <2> DEFINE u == (i - 1) * K
             x == u \div n
  <2>1. u \in Nat /\ i - 1 \in Nat BY <1>1
  <2>2. i * K = u + K BY <1>1, Products
  <2> HIDE DEF u
  <2>3. x \in Nat /\ x * n <= u /\ u < x * n + n BY <2>1, Division
  <2> HIDE DEF x
  <2>4. Block(i, n) = x + 1 BY DEF Block, x, u
  <2>5. x + 1 = c <=> a <= u /\ u < b
    <3>1. ASSUME x + 1 = c PROVE a <= u /\ u < b
      <4>1. x = c - 1 BY <1>1, <2>3, <3>1
      <4>2. x * n = a BY <4>1 DEF a
      <4> QED BY <1>2, <2>3, <4>2
    <3>2. ASSUME a <= u, u < b PROVE x + 1 = c
      <4>1. (c - 1) * n < (x + 1) * n BY <1>1, <2>1, <2>3, <3>2, Products DEF a
      <4>2. c - 1 < x + 1 BY <1>1, <2>3, <4>1, Products
      <4>3. x * n < c * n BY <1>1, <2>1, <2>3, <3>2 DEF b
      <4>4. x < c BY <1>1, <2>3, <4>3, Products
      <4> QED BY <1>1, <2>3, <4>2, <4>4
    <3> QED BY <3>1, <3>2
  <2>6. a <= u <=> lo + 1 <= i
    <3>1. ASSUME a <= u PROVE lo + 1 <= i
      <4>1. lo * K < i * K BY <1>1, <1>2, <1>3, <2>1, <2>2, <3>1
      <4> QED BY <1>1, <1>3, <4>1, Products
    <3>2. ASSUME lo + 1 <= i PROVE a <= u
      <4>1. lo <= i - 1 BY <1>3, <3>2
      <4>2. lo * K <= (i - 1) * K BY <1>1, <1>3, <2>1, <4>1, Products
      <4> QED BY <1>1, <1>2, <1>3, <2>1, <4>2 DEF u
    <3> QED BY <3>1, <3>2
  <2>7. u < b <=> i <= hi
    <3>1. ASSUME u < b PROVE i <= hi
      <4>1. (i - 1) * K < hi * K BY <1>1, <1>2, <1>4, <2>1, <3>1 DEF u
      <4>2. i - 1 < hi BY <1>1, <1>4, <2>1, <4>1, Products
      <4> QED BY <1>4, <4>2
    <3>2. ASSUME i <= hi PROVE u < b
      <4>1. i * K <= hi * K BY <1>1, <1>4, <3>2, Products
      <4> QED BY <1>1, <1>2, <1>4, <2>1, <2>2, <4>1
    <3> QED BY <3>1, <3>2
  <2> QED BY <2>4, <2>5, <2>6, <2>7
<1>7. ASSUME NEW i PROVE i \in {j \in 1..n : Block(j, n) = c} <=> i \in (lo + 1)..hi
  <2>1. i \in (lo + 1)..hi => i \in 1..n BY <1>3, <1>4, <1>5
  <2>2. i \in 1..n => (i \in (lo + 1)..hi <=> lo + 1 <= i /\ i <= hi) BY <1>3, <1>4
  <2> QED BY <1>6, <2>1, <2>2
<1>8. {i \in 1..n : Block(i, n) = c} = (lo + 1)..hi BY <1>7
<1> QED BY <1>8 DEF lo, hi

(* A class has n / K places, rounded up or down. *)
LEMMA BlockSize ==
  ASSUME NEW n \in Nat \ {0}, NEW c \in Classes
  PROVE  LET p == Cardinality({i \in 1..n : Block(i, n) = c})
         IN  p \in Nat /\ n - K < p * K /\ p * K < n + K
<1> DEFINE lo == Edge(c - 1, n)
           hi == Edge(c, n)
           a == (c - 1) * n
           b == c * n
           p == Cardinality({i \in 1..n : Block(i, n) = c})
<1>1. K \in Nat \ {0} /\ c \in Nat /\ c - 1 \in Nat BY SchoolAssumption DEF Classes
<1>2. a \in Nat /\ b \in Nat /\ b = a + n BY <1>1
<1>3. lo \in Nat /\ a <= lo * K /\ lo * K <= a + (K - 1) BY <1>1, EdgeBounds
<1>4. hi \in Nat /\ b <= hi * K /\ hi * K <= b + (K - 1) BY <1>1, EdgeBounds
<1>5. p = Cardinality((lo + 1)..hi) BY BlockIsInterval
<1> HIDE DEF lo, hi, a, b
<1>6. lo <= hi
  <2>1. lo * K < (hi + 1) * K
    <3>1. lo * K < hi * K + K BY <1>1, <1>2, <1>3, <1>4
    <3> QED BY <1>1, <1>4, <3>1, Products
  <2> QED BY <1>1, <1>3, <1>4, <2>1, Products
<1>7. p = hi - lo
  <2>1. Cardinality((lo + 1)..hi) = IF lo + 1 > hi THEN 0 ELSE hi - (lo + 1) + 1
    BY <1>3, <1>4, FS_Interval
  <2> QED BY <1>3, <1>4, <1>5, <1>6, <2>1
<1>8. p * K = hi * K - lo * K /\ p \in Nat BY <1>1, <1>3, <1>4, <1>6, <1>7
<1>9. n - K < p * K /\ p * K < n + K BY <1>1, <1>2, <1>3, <1>4, <1>8
<1> QED BY <1>8, <1>9

LEMMA AssignFair ==
  ASSUME TypeOK, NEW t \in Teachers, AssignByScore(t)
  PROVE  LET b == batch'[t].all
         IN  /\ \A i, j \in DOMAIN b :
                  Score[b[i].student] > Score[b[j].student] => b[i].class <= b[j].class
             /\ \A c, d \in Classes : Places(b, c) <= Places(b, d) + 1
<1>1. PICK n \in Nat \ {0} : \E q \in Ordered(n) :
           /\ DOMAIN batch'[t].all = 1..n
           /\ \A i \in 1..n : batch'[t].all[i] = [student |-> q[i], class |-> Block(i, n)]
  BY AssignType
<1>2. PICK q \in Ordered(n) :
           /\ DOMAIN batch'[t].all = 1..n
           /\ \A i \in 1..n : batch'[t].all[i] = [student |-> q[i], class |-> Block(i, n)]
  BY <1>1
<1> DEFINE b == batch'[t].all
<1>3. q \in [1..n -> Students] /\ \A i, j \in 1..n : i < j => Score[q[i]] >= Score[q[j]]
  BY DEF Ordered
<1>4. \A i \in 1..n : Score[q[i]] \in Nat /\ Block(i, n) \in Classes
  BY <1>3, BlockType, SchoolAssumption
<1>5. DOMAIN b = 1..n /\ \A i \in 1..n : b[i].student = q[i] /\ b[i].class = Block(i, n)
  <2>1. ASSUME NEW i \in 1..n PROVE b[i].student = q[i] /\ b[i].class = Block(i, n)
    <3>1. b[i] = [student |-> q[i], class |-> Block(i, n)] BY <1>2
    <3> HIDE DEF b
    <3> QED BY <3>1
  <2> QED BY <1>2, <2>1
<1> HIDE DEF b
<1>6. ASSUME NEW i \in 1..n, NEW j \in 1..n, Score[b[i].student] > Score[b[j].student]
      PROVE  b[i].class <= b[j].class
  <2>1. ~(j < i) BY <1>3, <1>4, <1>5, <1>6
  <2>2. i <= j BY <2>1
  <2> QED BY <1>5, <2>2, BlockMonotone
<1>7. ASSUME NEW c \in Classes, NEW d \in Classes PROVE Places(b, c) <= Places(b, d) + 1
  <2> DEFINE x == Places(b, c)
             y == Places(b, d)
  <2>1. \A e \in Classes : {i \in DOMAIN b : b[i].class = e} = {i \in 1..n : Block(i, n) = e}
    BY <1>5
  <2>2. /\ x = Cardinality({i \in 1..n : Block(i, n) = c})
        /\ y = Cardinality({i \in 1..n : Block(i, n) = d})
    BY <2>1 DEF Places
  <2> HIDE DEF x, y
  <2>3. x \in Nat /\ y \in Nat /\ x * K < n + K /\ n - K < y * K
    BY <2>2, BlockSize
  <2>4. K \in Nat \ {0} BY SchoolAssumption
  <2>5. x * K < (y + 2) * K BY <2>3, <2>4
  <2>6. x < y + 2 BY <2>3, <2>4, <2>5, Products
  <2> QED BY <2>3, <2>6 DEF x, y
<1> QED BY <1>5, <1>6, <1>7 DEF b

Fair(b) ==
  /\ \A i, j \in DOMAIN b : Score[b[i].student] > Score[b[j].student] => b[i].class <= b[j].class
  /\ \A c, d \in Classes : b # <<>> => Places(b, c) <= Places(b, d) + 1

(* A batch is made of blocks by score, of sizes that differ by at most one, *)
(* and stays as it was made until it is done with.                         *)
THEOREM AssignmentFair == Spec => []BlocksFair
<1>0. BlocksFair <=> \A t \in Teachers : Fair(batch[t].all) BY DEF BlocksFair, Fair
<1>1. Init => BlocksFair BY DEF Init, NoBatch, BlocksFair
<1>2. ASSUME TypeOK, BlocksFair, [Next]_vars PROVE BlocksFair'
  <2>0. batch \in [Teachers -> Batch] BY <1>2 DEF TypeOK
  <2>1. ASSUME NEW t \in Teachers, batch' = [batch EXCEPT ![t] = batch'[t]], Fair(batch'[t].all)
        PROVE  BlocksFair'
    <3>1. \A u \in Teachers : Fair(batch'[u].all)
      <4>1. \A u \in Teachers \ {t} : batch'[u] = batch[u] BY <2>0, <2>1
      <4> QED BY <1>0, <1>2, <2>1, <4>1
    <3> QED BY <3>1 DEF Fair, BlocksFair, Places
  <2>2. Fair(NoBatch.all) BY DEF NoBatch, Fair
  <2>3. ASSUME NEW t \in Teachers, AssignByScore(t) PROVE BlocksFair'
    <3>1. Fair(batch'[t].all) BY <1>2, <2>3, AssignFair DEF Fair
    <3>2. batch' = [batch EXCEPT ![t] = batch'[t]] BY <1>2, <2>3, AssignType
    <3> QED BY <2>1, <3>1, <3>2
  <2>4. ASSUME NEW t \in Teachers, BatchRow(t) PROVE BlocksFair'
    <3>1. batch' = [batch EXCEPT ![t] = batch'[t]] BY <1>2, <2>4, RowStep
    <3>2. batch'[t] = NoBatch \/ batch'[t].all = batch[t].all
      BY <1>2, <2>0, <2>4, RowStep DEF Keeps, Writes, Batch
    <3>3. Fair(batch'[t].all) BY <1>0, <1>2, <2>2, <3>2
    <3> QED BY <2>1, <3>1, <3>3
  <2>5. ASSUME NEW t \in Teachers, BatchCommits(t) \/ BatchFails(t) PROVE BlocksFair'
    <3>1. batch' = [batch EXCEPT ![t] = NoBatch] BY <2>5 DEF BatchCommits, BatchFails
    <3>2. batch'[t] = NoBatch /\ batch' = [batch EXCEPT ![t] = batch'[t]] BY <2>0, <3>1
    <3> QED BY <2>1, <2>2, <3>2
  <2>6. CASE UNCHANGED batch BY <1>2, <2>6 DEF BlocksFair, Places
  <2> QED
    BY <1>2, <2>3, <2>4, <2>5, <2>6
    DEF Next, ChangeClass, Begin, Dismiss, Find, SetLeader, Commit, AppointFails, Declare,
      DeclareOn, GoToBattle, vars
<1> QED BY <1>1, <1>2, SchoolTypeCorrect, PTL DEF Spec

-----------------------------------------------------------------------------
(* Two leaders have no class in common: neither the ones they are in, nor  *)
(* the ones that batches have written.  The class a batch has moved one    *)
(* from may be the one it has moved the other to.                          *)
Written(t, s) == batch[t].wrote[s] # 0

LeadersApart ==
  \A l, m \in Students :
    l # m /\ leader[l] /\ leader[m] =>
      /\ class[l] # class[m]
      /\ \A t \in Teachers :
           Written(t, l) /\ ~Written(t, m) => batch[t].wrote[l] # class[m]
      /\ \A t, u \in Teachers :
           Written(t, l) /\ Written(u, m) => batch[t].wrote[l] # batch[u].wrote[m]

(* Nobody else writes a row that x may write. *)
LEMMA FreeRow ==
  ASSUME NEW s, NEW x, Free(s, x), NEW t \in Teachers, Written(t, s)
  PROVE  x = <<"batch", t>>
BY DEF Free, Holders, Written

(* A class that no other leader is found in, by the index or by waiting,   *)
(* is no other leader's.                                                   *)
LEMMA IndexKeepsApart ==
  ASSUME NEW c \in Classes, NEW s \in Students, NEW x, NEW seen,
         ~Taken(c, s, x, seen), ~Awaited(c, s, x),
         NEW m \in Students \ {s}, leader[m]
  PROVE  /\ Free(m, x) => seen[m] # c
         /\ ~Free(m, x) => class[m] # c /\ \A t \in Teachers : batch[t].wrote[m] # c
BY DEF Taken, Awaited

LEMMA ApartStep ==
  ASSUME TypeOK, LeadersApart, [Next]_vars
  PROVE  LeadersApart'
<1>0. /\ class \in [Students -> Classes] /\ leader \in [Students -> BOOLEAN]
      /\ batch \in [Teachers -> Batch]
  BY DEF TypeOK
<1>1. ASSUME NEW c \in Classes, NEW s \in Students, ChangeClass(s, c) PROVE LeadersApart'
  <2>1. /\ leader' = leader /\ batch' = batch
        /\ class'[s] = c /\ \A l \in Students \ {s} : class'[l] = class[l]
    BY <1>0, <1>1 DEF ChangeClass, MovedTo
  <2>2. \A t \in Teachers : ~Written(t, s)
    BY <1>1, FreeRow DEF ChangeClass, Alone
  <2>3. ASSUME leader[s], NEW m \in Students \ {s}, leader[m]
        PROVE  class[m] # c /\ \A t \in Teachers : Written(t, m) => batch[t].wrote[m] # c
    <3>1. ~Taken(c, s, Alone, class) /\ ~Awaited(c, s, Alone) BY <1>1, <2>3 DEF ChangeClass
    <3>2. Free(m, Alone) => \A t \in Teachers : ~Written(t, m) BY FreeRow DEF Alone
    <3> QED BY <2>3, <3>1, <3>2, IndexKeepsApart
  <2> QED BY <2>1, <2>2, <2>3 DEF LeadersApart, Written
<1>2. ASSUME NEW t \in Teachers, BatchRow(t) PROVE LeadersApart'
  <2> DEFINE r == Head(batch[t].todo)
             s == r.student
             c == r.class
             x == <<"batch", t>>
  <2>1. r \in Row /\ s \in Students /\ c \in Classes /\ c # 0
    <3>1. r \in Row BY <1>2, RowStep
    <3> HIDE DEF r
    <3> QED BY <3>1 DEF Row, Classes
  <2>2. class' = class /\ leader' = leader BY <1>2 DEF BatchRow
  <2>3. batch' = [batch EXCEPT ![t] = batch'[t]] BY <1>2, RowStep
  <2>4. \A u \in Teachers \ {t} : batch'[u] = batch[u] BY <1>0, <2>3
  <2>5. CASE batch'[t] = NoBatch
    <3>1. \A l \in Students : batch'[t].wrote[l] = 0 BY <2>5 DEF NoBatch
    <3> QED BY <2>2, <2>4, <3>1 DEF LeadersApart, Written
  <2>6. CASE batch'[t] = Keeps(batch[t], s)
    <3>1. batch'[t].wrote = batch[t].wrote BY <1>0, <2>6 DEF Keeps, Batch
    <3> QED BY <2>2, <2>4, <3>1 DEF LeadersApart, Written
  <2>7. CASE /\ batch'[t] = Writes(batch[t], r) /\ Free(s, x)
             /\ leader[s] => ~Awaited(c, s, x) /\ ~Taken(c, s, x, [z \in Students |-> Now(t, z)])
    <3>1. batch'[t].wrote = [batch[t].wrote EXCEPT ![s] = c] BY <1>0, <2>7 DEF Writes, Batch
    <3>2. batch[t].wrote \in [Students -> Classes \cup {0}] BY <1>0 DEF Batch
    <3> HIDE DEF s, c, r
    <3>3. batch'[t].wrote[s] = c /\ \A l \in Students \ {s} : batch'[t].wrote[l] = batch[t].wrote[l]
      BY <2>1, <3>1, <3>2
    <3>4. ASSUME leader[s], NEW m \in Students \ {s}, leader[m]
          PROVE  /\ ~Written(t, m) => class[m] # c
                 /\ \A u \in Teachers : Written(u, m) => batch[u].wrote[m] # c
      <4>1. Free(m, x) => Now(t, m) # c
        BY <2>1, <2>7, <3>4, IndexKeepsApart
      <4>2. ~Free(m, x) => class[m] # c /\ \A u \in Teachers : batch[u].wrote[m] # c
        BY <2>1, <2>7, <3>4, IndexKeepsApart
      <4>3. Free(m, x) => \A u \in Teachers : Written(u, m) => u = t BY FreeRow
      <4> QED BY <4>1, <4>2, <4>3 DEF Now, Written
    <3>5. \A u \in Teachers \ {t} : ~Written(u, s) BY <2>7, FreeRow
    <3> QED BY <2>1, <2>2, <2>4, <3>3, <3>4, <3>5 DEF LeadersApart, Written
  <2> QED BY <1>2, <2>5, <2>6, <2>7, RowStep
<1>3. ASSUME NEW t \in Teachers, BatchCommits(t) PROVE LeadersApart'
  <2>1. /\ leader' = leader /\ batch' = [batch EXCEPT ![t] = NoBatch]
        /\ \A s \in Students : class'[s] = IF Written(t, s) THEN batch[t].wrote[s] ELSE class[s]
    BY <1>3 DEF BatchCommits, Now, Written
  <2>2. /\ \A u \in Teachers \ {t} : batch'[u] = batch[u]
        /\ \A l \in Students : batch'[t].wrote[l] = 0
    BY <1>0, <2>1 DEF NoBatch
  <2>3. ASSUME NEW l \in Students, NEW m \in Students, l # m, leader[l], leader[m]
        PROVE  /\ class'[l] # class'[m]
               /\ \A u \in Teachers \ {t} :
                    batch[u].wrote[l] # 0 /\ batch[u].wrote[m] = 0 => batch[u].wrote[l] # class'[m]
    BY <2>1, <2>3 DEF LeadersApart, Written
  <2> QED BY <2>1, <2>2, <2>3 DEF LeadersApart, Written
<1>4. ASSUME NEW t \in Teachers, BatchFails(t) PROVE LeadersApart'
  <2>1. /\ class' = class /\ leader' = leader /\ batch' = [batch EXCEPT ![t] = NoBatch]
    BY <1>4 DEF BatchFails
  <2>2. /\ \A u \in Teachers \ {t} : batch'[u] = batch[u]
        /\ \A l \in Students : batch'[t].wrote[l] = 0
    BY <1>0, <2>1 DEF NoBatch
  <2> QED BY <2>1, <2>2 DEF LeadersApart, Written
<1>5. ASSUME NEW t \in Teachers, AssignByScore(t) PROVE LeadersApart'
  <2>1. /\ class' = class /\ leader' = leader /\ batch' = [batch EXCEPT ![t] = batch'[t]]
        /\ batch'[t].wrote = NoBatch.wrote
    BY <1>5, AssignType DEF AssignByScore
  <2>2. /\ \A u \in Teachers \ {t} : batch'[u] = batch[u]
        /\ \A l \in Students : batch'[t].wrote[l] = 0
    BY <1>0, <2>1 DEF NoBatch
  <2> QED BY <2>1, <2>2 DEF LeadersApart, Written
<1>6. CASE /\ UNCHANGED <<class, batch>>
           /\ \A l \in Students : leader'[l] => leader[l]
  BY <1>6 DEF LeadersApart, Written
<1>7. ASSUME NEW t \in Teachers, Commit(t, None), UNCHANGED <<class, batch>> PROVE LeadersApart'
  <2>1. \A l \in Students : leader'[l] => leader[l]
    BY <1>7, SchoolAssumption DEF Commit, LedBy
  <2> QED BY <1>6, <1>7, <2>1
<1>8. ASSUME NEW t \in Teachers, SetLeader(t) PROVE LeadersApart'
  <2> DEFINE s == appoint[t].who
             c == class[s]
             x == <<"appoint", t>>
  <2>1. class' = class /\ batch' = batch /\ Free(s, x) /\ ~Awaited(c, s, x)
    BY <1>8 DEF SetLeader
  <2>2. CASE UNCHANGED leader BY <1>6, <2>1, <2>2
  <2>3. CASE /\ Commit(t, s)
             /\ ~\E l \in Students \ appoint[t].out : l # s /\ leader[l] /\ Free(l, x) /\ class[l] = c
    <3>1. \A l \in Students : leader'[l] <=> l = s \/ (leader[l] /\ l \notin appoint[t].out)
      BY <2>3 DEF Commit, LedBy
    <3>2. \A u \in Teachers : s \in Students => ~Written(u, s) BY <2>1, FreeRow
    <3>3. ASSUME NEW m \in Students \ {s}, leader'[m]
          PROVE  class[m] # c /\ \A u \in Teachers : Written(u, m) => batch[u].wrote[m] # c
      <4>1. leader[m] /\ m \notin appoint[t].out BY <3>1, <3>3
      <4>2. CASE Free(m, x)
        <5>1. \A u \in Teachers : ~Written(u, m) BY <4>2, FreeRow
        <5> QED BY <2>3, <4>1, <4>2, <5>1
      <4>3. CASE ~Free(m, x) BY <2>1, <4>1, <4>3 DEF Awaited
      <4> QED BY <4>2, <4>3
    <3> HIDE DEF s, x
    <3> QED BY <2>1, <3>1, <3>2, <3>3 DEF LeadersApart, Written
  <2> QED BY <1>8, <2>2, <2>3 DEF SetLeader
<1>9. ASSUME NEW t \in Teachers, Find(t) PROVE LeadersApart'
  <2>1. UNCHANGED <<class, batch>> /\ (Commit(t, None) \/ UNCHANGED leader)
    BY <1>9 DEF Find
  <2> QED BY <1>6, <1>7, <2>1
<1>10. CASE UNCHANGED <<class, leader, batch>> BY <1>6, <1>10
<1> QED
  BY <1>1, <1>2, <1>3, <1>4, <1>5, <1>8, <1>9, <1>10
  DEF Next, Begin, Dismiss, AppointFails, Declare, DeclareOn, GoToBattle, vars

(* No class ever has two leaders. *)
THEOREM LeadersNeverMeet == Spec => []OneLeader
<1>1. Init => LeadersApart BY DEF Init, LeadersApart
<1>2. LeadersApart => OneLeader BY DEF LeadersApart, OneLeader
<1> QED BY <1>1, <1>2, ApartStep, SchoolTypeCorrect, PTL DEF Spec
=============================================================================
