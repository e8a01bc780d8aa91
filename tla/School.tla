------------------------------- MODULE School -------------------------------
(***************************************************************************)
(* The classes of a grade: who is in which class and who leads it, the     *)
(* teachers' class management screen (ClassManagementScreen, useClasses),  *)
(* and the declaration of a war between two classes, which reads them      *)
(* (Battles::DeclareWar, Battles::Create).                                 *)
(*                                                                         *)
(* A request that writes one row is one action.  The two requests that     *)
(* write more, the automatic assignment and the appointment of a leader,   *)
(* are transactions: a row they have written is locked and not seen by the *)
(* others until they commit, and whoever needs it, or its entry of the     *)
(* leaders' index, waits.  The declarer reads the two classes one after    *)
(* the other.                                                              *)
(***************************************************************************)
EXTENDS Integers, Sequences, FiniteSets

CONSTANTS
  Students, Teachers, None,
  K,                        \* the classes of the grade, in the order of their names
  Score,                    \* totalScore of each student
  MaxEntries, MaxAtWork     \* bounds: the rows of a batch; the transactions and
                            \* declarations at work at once

ASSUME SchoolAssumption ==
  /\ None \notin Students
  /\ K \in Nat \ {0} /\ Score \in [Students -> Nat]
  /\ MaxEntries \in Nat /\ MaxAtWork \in Nat

VARIABLES
  class,        \* ClassMembership.school_class of each student
  leader,       \* ClassMembership.leader
  batch,        \* the automatic assignment of each teacher
  appoint,      \* the appointment of each teacher
  war           \* the declaration at work, or the battle it made

vars == <<class, leader, batch, appoint, war>>

Classes == 1..K

-----------------------------------------------------------------------------
Row == [student : Students, class : Classes]

(* all: the batch; todo: what is left; wrote: its rows; kept: the students *)
(* found where they belong, whose rows it does not write.                  *)
Batch == [all : Seq(Row), todo : Seq(Row), wrote : [Students -> Classes \cup {0}],
          kept : SUBSET Students]
NoBatch == [all |-> <<>>, todo |-> <<>>, wrote |-> [s \in Students |-> 0], kept |-> {}]

(* of and who as asked, None for nobody; seen: the leaders the dismissal   *)
(* found; out: those it has dismissed.                                     *)
Appointment == [step : {"none", "begun", "dismissed", "found"}, of : Classes,
                who : Students \cup {None}, seen : SUBSET Students, out : SUBSET Students]
NoAppointment == [step |-> "none", of |-> 1, who |-> None, seen |-> {}, out |-> {}]

(* Half declared: the attackers have been read, and was is where everybody *)
(* was then (a history, which the code does not keep).                     *)
Side == [students : SUBSET Students, leaders : SUBSET Students]
War == [at : {"none"}]
         \cup [at : {"half"}, of : Classes, side : Side, was : [Students -> Classes]]
         \cup [at : {"made"}, of : Classes, on : Classes,
               attackers : SUBSET Students, defenders : SUBSET Students]

NoWar == [at |-> "none"]

-----------------------------------------------------------------------------
(* Locks.  The transactions that have written the row of s: *)
Holders(s) ==
  {<<"batch", t>> : t \in {u \in Teachers : batch[u].wrote[s] # 0}}
    \cup {<<"appoint", t>> : t \in {u \in Teachers : s \in appoint[u].out}}

Free(s, x) == Holders(s) \subseteq {x}

Alone == <<"row">>      \* a request that writes one row

(* The class of s as the batch of t sees it. *)
Now(t, s) == IF batch[t].wrote[s] # 0 THEN batch[t].wrote[s] ELSE class[s]

Members(c) == {s \in Students : class[s] = c}
Leaders(c) == {s \in Members(c) : leader[s]}

(* index_class_memberships_on_school_class_id_unique_leader.  What x wants *)
(* to enter for s in c meets the entry of another leader: one that x sees, *)
(* and it fails, or one of a transaction at work, old or new, and it has   *)
(* to wait.  An entry that x itself has taken away is in nobody's way.     *)
Taken(c, s, x, seen) == \E l \in Students \ {s} : Free(l, x) /\ leader[l] /\ seen[l] = c

(* Mutant: a validation of the model, which sees what is committed. *)
SeesCommitted(c, s, x) == FALSE

Awaited(c, s, x) ==
  \E l \in Students \ {s} :
    /\ ~Free(l, x) /\ leader[l]
    /\ c = class[l] \/ \E t \in Teachers : batch[t].wrote[l] = c

Init ==
  /\ class \in [Students -> Classes]
  /\ leader = [s \in Students |-> FALSE]
  /\ batch = [t \in Teachers |-> NoBatch]
  /\ appoint = [t \in Teachers |-> NoAppointment]
  /\ war = NoWar

Busy ==
  Cardinality({t \in Teachers : batch[t] # NoBatch})
    + Cardinality({t \in Teachers : appoint[t] # NoAppointment})
    + (IF war # NoWar THEN 1 ELSE 0)

-----------------------------------------------------------------------------
(* One student, one class.  The flag goes with the student. *)
MovedTo(s, c) == [class EXCEPT ![s] = c]

ChangeClass(s, c) ==
  /\ Free(s, Alone)
  /\ leader[s] => ~Taken(c, s, Alone, class) /\ ~Awaited(c, s, Alone)
  /\ class' = MovedTo(s, c)
  /\ UNCHANGED <<leader, batch, appoint, war>>

-----------------------------------------------------------------------------
(* A leader is appointed, or only dismissed. *)

Appoints(t, a) == appoint' = [appoint EXCEPT ![t] = a]

(* The update of the leaders there are takes its snapshot ... *)
Begin(t, c, s) ==
  /\ Busy < MaxAtWork
  /\ appoint[t] = NoAppointment
  /\ Appoints(t, [step |-> "begun", of |-> c, who |-> s, seen |-> Leaders(c), out |-> {}])
  /\ UNCHANGED <<class, leader, batch, war>>

(* ... waits for their rows, and dismisses those that still lead there. *)
Dismiss(t) ==
  LET a == appoint[t]
  IN  /\ a.step = "begun"
      /\ \A l \in a.seen : Free(l, <<"appoint", t>>)
      /\ Appoints(t, [a EXCEPT !.step = "dismissed", !.seen = {}, !.out = a.seen \cap Leaders(a.of)])
      /\ UNCHANGED <<class, leader, batch, war>>

(* The transaction ends: those it dismissed lead no more, and s does. *)
LedBy(t, s) == [l \in Students |-> l = s \/ (leader[l] /\ l \notin appoint[t].out)]

Commit(t, s) == leader' = LedBy(t, s) /\ Appoints(t, NoAppointment)

(* Nobody is to lead: done.  A student who has left the class is refused,  *)
(* and one who leads it, for another teacher was faster, is not written.   *)
Find(t) ==
  LET a == appoint[t]
  IN  /\ a.step = "dismissed"
      /\ \/ a.who = None /\ Commit(t, None)
         \/ a.who # None /\ a.who \notin Members(a.of) /\ Appoints(t, NoAppointment) /\ UNCHANGED leader
         \/ a.who \in Leaders(a.of) \ a.out /\ Commit(t, None)
         \/ /\ a.who \in Members(a.of) \ (Leaders(a.of) \ a.out)
            /\ Appoints(t, [a EXCEPT !.step = "found"])
            /\ UNCHANGED leader
      /\ UNCHANGED <<class, batch, war>>

(* update! writes the row by its id, wherever the student is by now. *)
SetLeader(t) ==
  LET s == appoint[t].who
      c == class[s]
      x == <<"appoint", t>>
  IN  /\ appoint[t].step = "found"
      /\ Free(s, x)
      /\ ~Awaited(c, s, x)
      /\ IF \E l \in Students \ appoint[t].out : l # s /\ leader[l] /\ Free(l, x) /\ class[l] = c
         THEN Appoints(t, NoAppointment) /\ UNCHANGED leader
         ELSE Commit(t, s)
      /\ UNCHANGED <<class, batch, war>>

(* A deadlock, or the database gives up. *)
AppointFails(t) ==
  /\ appoint[t] # NoAppointment
  /\ Appoints(t, NoAppointment)
  /\ UNCHANGED <<class, leader, batch, war>>

-----------------------------------------------------------------------------
(* The automatic assignment.  The list of each class is a query of its     *)
(* own, so the lists are of different times; one that failed counts as     *)
(* empty.  A student may be on several of them, or on none.                *)

(* Mutants: the places are counted from one; the classes are dealt in turn. *)
BlockFromOne(i, n) == ((i * K) \div n) + 1
Dealt(i, n) == ((i - 1) % K) + 1

(* The class of the i-th of n. *)
Block(i, n) == (((i - 1) * K) \div n) + 1

(* computeAssignmentsByScore; which of two equals comes first is open. *)
Ordered(n) ==
  {q \in [1..n -> Students] :
     /\ \A i, j \in 1..n : i < j => Score[q[i]] >= Score[q[j]]
     /\ \A s \in Students : Cardinality({i \in 1..n : q[i] = s}) <= K}

AssignByScore(t) ==
  /\ Busy < MaxAtWork
  /\ batch[t] = NoBatch
  /\ \E n \in 1..MaxEntries : \E q \in Ordered(n) :
       LET rows == [i \in 1..n |-> [student |-> q[i], class |-> Block(i, n)]]
       IN  batch' = [batch EXCEPT ![t] = [NoBatch EXCEPT !.all = rows, !.todo = rows]]
  /\ UNCHANGED <<class, leader, appoint, war>>

(* Mutant: rows are written one by one. *)
WritesThrough(t) ==
  /\ batch[t].todo # <<>>
  /\ LET r == Head(batch[t].todo)
     IN  /\ Free(r.student, Alone)
         /\ IF leader[r.student] /\ Taken(r.class, r.student, Alone, class)
            THEN batch' = [batch EXCEPT ![t] = NoBatch] /\ UNCHANGED class
            ELSE /\ class' = [class EXCEPT ![r.student] = r.class]
                 /\ batch' = [batch EXCEPT ![t].todo = Tail(@)]
  /\ UNCHANGED <<leader, appoint, war>>

Keeps(b, s) == [b EXCEPT !.todo = Tail(@), !.kept = IF b.wrote[s] = 0 THEN @ \cup {s} ELSE @]
Writes(b, r) == [b EXCEPT !.todo = Tail(@), !.wrote[r.student] = r.class]

(* A row that changes nothing is not written; a leader who meets another   *)
(* one takes the batch down, even if the other is to leave.                *)
BatchRow(t) ==
  LET b == batch[t]
      r == Head(b.todo)
      x == <<"batch", t>>
      seen == [s \in Students |-> Now(t, s)]
  IN  /\ b.todo # <<>>
      /\ \/ Now(t, r.student) = r.class /\ batch' = [batch EXCEPT ![t] = Keeps(b, r.student)]
         \/ /\ Now(t, r.student) # r.class
            /\ Free(r.student, x)
            /\ leader[r.student] => ~Awaited(r.class, r.student, x)
            /\ batch' = [batch EXCEPT ![t] =
                           IF leader[r.student] /\ Taken(r.class, r.student, x, seen)
                           THEN NoBatch ELSE Writes(b, r)]
      /\ UNCHANGED <<class, leader, appoint, war>>

BatchCommits(t) ==
  /\ batch[t] # NoBatch /\ batch[t].todo = <<>>
  /\ class' = [s \in Students |-> Now(t, s)]
  /\ batch' = [batch EXCEPT ![t] = NoBatch]
  /\ UNCHANGED <<leader, appoint, war>>

(* A student or a class is not found, a deadlock, or the database gives up. *)
BatchFails(t) ==
  /\ batch[t] # NoBatch
  /\ batch' = [batch EXCEPT ![t] = NoBatch]
  /\ UNCHANGED <<class, leader, appoint, war>>

-----------------------------------------------------------------------------
(* The declaration of war. *)

(* Mutant: a class is read with the moves of batches at work. *)
ReadUncommitted(c) ==
  LET there == {s \in Students : class[s] = c \/ \E t \in Teachers : batch[t].wrote[s] = c}
  IN  [students |-> there, leaders |-> {s \in there : leader[s]}]

ReadSide(c) == [students |-> Members(c), leaders |-> Leaders(c)]

(* The class of a student is an integer and the parameter is a string:     *)
(* declare_war does not see that the two classes are the same.             *)
Declare(c) ==
  /\ Busy < MaxAtWork
  /\ war = NoWar
  /\ Members(c) # {}
  /\ war' = [at |-> "half", of |-> c, side |-> ReadSide(c), was |-> class]
  /\ UNCHANGED <<class, leader, batch, appoint>>

(* validate!, of DeclareWar and of Create. *)
Valid(a, d) ==
  /\ d.students # {}
  /\ Cardinality(a.leaders) <= 1 /\ Cardinality(d.leaders) <= 1
  /\ a.students \cap d.students = {}

DeclareOn(c) ==
  /\ war.at = "half"
  /\ LET d == ReadSide(c)
     IN  war' = IF Valid(war.side, d)
                THEN [at |-> "made", of |-> war.of, on |-> c,
                      attackers |-> war.side.students, defenders |-> d.students]
                ELSE NoWar
  /\ UNCHANGED <<class, leader, batch, appoint>>

(* The screen goes on to the battle. *)
GoToBattle ==
  /\ war.at = "made"
  /\ war' = NoWar
  /\ UNCHANGED <<class, leader, batch, appoint>>

-----------------------------------------------------------------------------
Next ==
  \/ \E s \in Students, c \in Classes : ChangeClass(s, c)
  \/ \E t \in Teachers :
       \/ \E c \in Classes, s \in Students \cup {None} : Begin(t, c, s)
       \/ Dismiss(t) \/ Find(t) \/ SetLeader(t) \/ AppointFails(t)
       \/ AssignByScore(t) \/ BatchRow(t) \/ BatchCommits(t) \/ BatchFails(t)
  \/ \E c \in Classes : Declare(c) \/ DeclareOn(c)
  \/ GoToBattle

Spec == Init /\ [][Next]_vars

-----------------------------------------------------------------------------
TypeOK ==
  /\ class \in [Students -> Classes] /\ leader \in [Students -> BOOLEAN]
  /\ batch \in [Teachers -> Batch] /\ appoint \in [Teachers -> Appointment]
  /\ war \in War

(* A class never has two leaders, although batches, whose moves nobody sees *)
(* before they commit, appointments and moves are at work at the same time. *)
OneLeader ==
  \A l, m \in Students : leader[l] /\ leader[m] /\ class[l] = class[m] => l = m

(* No later row of q is about the student of the i-th. *)
LastOf(q, i) == \A j \in DOMAIN q : q[j].student = q[i].student => j <= i

(* A batch at work moves nobody.  When it commits, a student it does not   *)
(* name stays, and one it names is where its last row for them says, or,   *)
(* found there already and moved by somebody since, is left alone.         *)
AllOrNothing ==
  [][class' # class =>
       \/ batch' = batch /\ \E s \in Students : class' = [class EXCEPT ![s] = class'[s]]
       \/ \E t \in Teachers :
            /\ batch' = [batch EXCEPT ![t] = NoBatch]
            /\ \A i \in DOMAIN batch[t].all :
                 LET r == batch[t].all[i]
                 IN  LastOf(batch[t].all, i) =>
                       \/ class'[r.student] = r.class
                       \/ r.student \in batch[t].kept /\ class'[r.student] = class[r.student]
            /\ \A s \in Students :
                 class'[s] # class[s] => \E i \in DOMAIN batch[t].all : batch[t].all[i].student = s]_vars

Places(q, c) == Cardinality({i \in DOMAIN q : q[i].class = c})

(* The classes a batch makes are blocks by score, no two of which differ by *)
(* more than one place.                                                     *)
BlocksFair ==
  \A t \in Teachers :
    LET q == batch[t].all
    IN  /\ \A i, j \in DOMAIN q :
             Score[q[i].student] > Score[q[j].student] => q[i].class <= q[j].class
        /\ \A c, d \in Classes : q # <<>> => Places(q, c) <= Places(q, d) + 1

(* Whoever stays in a class while a war is declared, between the first      *)
(* reading and the second, fights if and only if that class does, and on    *)
(* its side alone, whatever others move and batches are at work.            *)
StayersFight ==
  [][war.at = "half" /\ war'.at = "made" =>
       \A s \in Students : war.was[s] = class[s] =>
         /\ s \in war'.attackers <=> class[s] = war'.of
         /\ s \in war'.defenders <=> class[s] = war'.on /\ war'.on # war'.of]_vars
=============================================================================
