----------------------- MODULE WorkingCopyBackupProofs -----------------------
(***************************************************************************)
(* Proofs about WorkingCopyBackup.                                         *)
(*                                                                         *)
(* TypeCorrect rests on Base: who has tasks in the queue of a backup file, *)
(* and what the tracker has pending at each stage of a shutdown.  The      *)
(* operators on queues come first, then what a step touches, then the      *)
(* steps of one copy and those of the window.                              *)
(*                                                                         *)
(* BackupsAreTrustworthy rests on Base and on Trust of every copy: entry,  *)
(* queued backups and copy are in the order of their versions, and a write *)
(* or a discard never takes the one backup of what is not stored.          *)
(*                                                                         *)
(* QuietBackupsAreSafe rests on both and on Follow of every copy: what is  *)
(* queued last for an open copy brings its backup in step with it, no      *)
(* discard takes the newest backup, and of a copy that is not open, and    *)
(* that restoreBackups still waits for, either what is written is deleted  *)
(* again or the backup waits to be restored.  A copy whose backup was      *)
(* taken off the list before it was open is followed from the moment it is *)
(* open and nothing is queued behind its editor.                           *)
(***************************************************************************)
EXTENDS WorkingCopyBackup, SequenceTheorems, FiniteSetTheorems, TLAPS

-----------------------------------------------------------------------------
(* The queue of one backup file *)

\* Two tasks that differ in their phase only.
Alike(x, y) == /\ x.kind = y.kind /\ x.by = y.by
               /\ x.content = y.content /\ x.version = y.version /\ x.meta = y.meta

\* Whoever has a task in a queue has one, and an operation that was cancelled
\* goes on only if it runs.  Resolving and discarding have fewer phases than
\* backing up.  What runs was needed.
Line(q, e) ==
  /\ q \in Seq(Task)
  /\ \A i \in 1..Len(q) : (i = 1) <=> (q[i].phase # "waiting")
  /\ \A i \in 2..Len(q) : q[i].by # "nobody"
  /\ \A i, j \in 1..Len(q) : i # j => q[i].by # q[j].by
  /\ \A i \in 1..Len(q) : q[i].by = "open" <=> q[i].kind = "resolve"
  /\ \A i \in 1..Len(q) : q[i].kind = "resolve" => q[i].phase \in {"waiting", "begun"}
  /\ \A i \in 1..Len(q) : q[i].kind = "discard" => q[i].phase \in {"waiting", "begun", "done"}
  /\ q # <<>> => Needed(q[1], e)

\* There are three who can have a task in the queue, beside the one that runs.
LEMMA LineIsShort ==
  ASSUME NEW q, NEW e, Line(q, e)
  PROVE  Len(q) \in 0..4
<1>1. /\ q \in Seq(Task) /\ Len(q) \in Nat
      /\ \A i \in 1..Len(q) : q[i].by \in {"tracker", "shutdown", "open", "nobody"}
  <2>1. q \in Seq(Task)
    BY DEF Line
  <2>2. Len(q) \in Nat /\ \A i \in 1..Len(q) : q[i] \in Task
    BY <2>1, LenProperties, ElementOfSeq
  <2> QED BY <2>1, <2>2 DEF Task
<1>2. \A i \in 2..Len(q) : q[i].by \in {"tracker", "shutdown", "open"}
  BY <1>1 DEF Line
<1>3. ASSUME Len(q) >= 5
      PROVE  FALSE
  <2>1. {2, 3, 4, 5} \subseteq 2..Len(q)
    BY <1>1, <1>3
  <2>2. /\ q[2].by # q[3].by /\ q[2].by # q[4].by /\ q[2].by # q[5].by
        /\ q[3].by # q[4].by /\ q[3].by # q[5].by /\ q[4].by # q[5].by
    BY <1>1, <1>3 DEF Line
  <2> QED BY <1>2, <2>1, <2>2
<1>4. Len(q) \in Nat /\ ~(Len(q) >= 5)
  BY <1>1, <1>3
<1>5. \A n \in Nat : ~(n >= 5) => n \in 0..4
  OBVIOUS
<1> QED BY <1>4, <1>5, Zenon

\* Skipped is what its definition says.
LEMMA SkippedEffect ==
  ASSUME NEW q, NEW e, Len(q) \in 0..4
  PROVE  /\ Skipped(q, e) \in 0..Len(q)
         /\ \A i \in 1..Skipped(q, e) : ~Needed(q[i], e)
         /\ Skipped(q, e) < Len(q) => Needed(q[Skipped(q, e) + 1], e)
<1> DEFINE Is(n) == /\ \A i \in 1..n : ~Needed(q[i], e)
                    /\ n < Len(q) => Needed(q[n + 1], e)
<1>1. \E n \in 0..Len(q) : Is(n)
  <2>1. CASE \E n \in 1..Len(q) : Needed(q[n], e)
    <3>1. CASE Len(q) >= 1 /\ Needed(q[1], e)
      <4>1. Is(0) /\ 0 \in 0..Len(q)
        BY <3>1
      <4> QED BY <4>1
    <3>2. CASE Len(q) >= 2 /\ ~Needed(q[1], e) /\ Needed(q[2], e)
      <4>1. Is(1) /\ 1 \in 0..Len(q)
        BY <3>2
      <4> QED BY <4>1
    <3>3. CASE Len(q) >= 3 /\ ~Needed(q[1], e) /\ ~Needed(q[2], e) /\ Needed(q[3], e)
      <4>1. Is(2) /\ 2 \in 0..Len(q)
        BY <3>3
      <4> QED BY <4>1
    <3>4. CASE /\ Len(q) >= 4 /\ ~Needed(q[1], e) /\ ~Needed(q[2], e) /\ ~Needed(q[3], e)
               /\ Needed(q[4], e)
      <4>1. Is(3) /\ 3 \in 0..Len(q)
        BY <3>4
      <4> QED BY <4>1
    <3> HIDE DEF Is
    <3> QED BY <2>1, <3>1, <3>2, <3>3, <3>4
  <2>2. CASE \A n \in 1..Len(q) : ~Needed(q[n], e)
    <3>1. Is(Len(q)) /\ Len(q) \in 0..Len(q)
      BY <2>2
    <3> QED BY <3>1
  <2> QED BY <2>1, <2>2
<1>2. Skipped(q, e) = CHOOSE n \in 0..Len(q) : Is(n)
  BY DEF Skipped
<1>3. Skipped(q, e) \in 0..Len(q) /\ Is(Skipped(q, e))
  <2> HIDE DEF Is
  <2> QED BY <1>1, <1>2
<1> QED BY <1>3

\* Indices of a queue, and of its elements.
LEMMA QueueElements ==
  ASSUME NEW q \in Seq(Task)
  PROVE  /\ Len(q) \in Nat
         /\ \A i \in 1..Len(q) : q[i] \in Task
         /\ q # <<>> <=> Len(q) >= 1
BY LenProperties, ElementOfSeq, EmptySeq

\* A function on an initial segment of the numbers is a sequence.
LEMMA FunctionIsSeq ==
  ASSUME NEW n \in Nat, NEW S, NEW f \in [1..n -> S]
  PROVE  f \in Seq(S) /\ Len(f) = n
BY SeqDef

\* r is q without its first n tasks, but for the phase of the first.
Advanced(r, q, n) ==
  /\ n \in 0..Len(q)
  /\ Len(r) = Len(q) - n
  /\ \A i \in 1..Len(r) : Alike(r[i], q[n + i])

\* The queue goes on after its first task.
LEMMA BegunEffect ==
  ASSUME NEW q, NEW e, NEW f, Line(q, e), q # <<>>
  PROVE  /\ Line(Begun(Tail(q), f), f)
         /\ Advanced(Begun(Tail(q), f), q, 1 + Skipped(Tail(q), f))
         /\ Skipped(Tail(q), f) \in 0..Len(Tail(q))
         /\ Begun(Tail(q), f) # <<>> => Begun(Tail(q), f)[1].phase = "begun"
         /\ \A i \in 2..(1 + Skipped(Tail(q), f)) : ~Needed(q[i], f)
         /\ {Tail(q)[i].by : i \in 1..Skipped(Tail(q), f)} = {q[i].by : i \in 2..(1 + Skipped(Tail(q), f))}
<1> DEFINE s == Tail(q)
           n == Skipped(s, f)
           r == Begun(s, f)
           sub == SubSeq(s, n + 1, Len(s))
<1>1. q \in Seq(Task)
  BY DEF Line
<1>2. /\ Len(q) \in 1..4 /\ s \in Seq(Task) /\ Len(s) = Len(q) - 1
      /\ \A i \in 1..Len(s) : s[i] = q[i + 1]
      /\ \A i \in 1..Len(q) : q[i] \in Task
  BY <1>1, LineIsShort, QueueElements, HeadTailProperties
<1>3. /\ n \in 0..Len(s)
      /\ \A i \in 1..n : ~Needed(s[i], f)
      /\ n < Len(s) => Needed(s[n + 1], f)
  <2>1. Len(s) \in 0..4
    BY <1>2
  <2> QED BY <2>1, SkippedEffect, Zenon
<1>4. \A i \in 2..(1 + n) : ~Needed(q[i], f)
  <2> SUFFICES ASSUME NEW i \in 2..(1 + n) PROVE ~Needed(q[i], f)
    OBVIOUS
  <2> HIDE DEF n, s
  <2>1. i - 1 \in 1..n /\ i - 1 \in 1..Len(s) /\ s[i - 1] = q[i]
    BY <1>2, <1>3
  <2> QED BY <1>3, <2>1
<1>5. {s[i].by : i \in 1..n} = {q[i].by : i \in 2..(1 + n)}
  <2> HIDE DEF n, s
  <2>1. \A i \in 1..n : s[i] = q[i + 1] /\ i + 1 \in 2..(1 + n)
    BY <1>2, <1>3
  <2>2. \A i \in 2..(1 + n) : i - 1 \in 1..n /\ s[i - 1] = q[i]
    BY <1>2, <1>3
  <2> QED BY <2>1, <2>2
<1>6. CASE n = Len(s)
  <2>1. r = <<>>
    BY <1>6 DEF Begun
  <2>2. <<>> \in Seq(Task) /\ Len(<<>>) = 0
    BY EmptySeq
  <2>3. Line(r, f)
    <3> HIDE DEF r
    <3>1. 1..Len(r) = {} /\ 2..Len(r) = {}
      BY <2>1, <2>2
    <3> QED BY <2>1, <2>2, <3>1 DEF Line
  <2>4. Advanced(r, q, 1 + n)
    BY <1>2, <1>6, <2>1, <2>2 DEF Advanced
  <2> QED BY <1>3, <1>4, <1>5, <2>1, <2>3, <2>4
<1>7. CASE n # Len(s)
  <2> HIDE DEF n, s
  <2>0. n < Len(s)
    BY <1>2, <1>3, <1>7
  <2>1. /\ sub \in Seq(Task) /\ Len(sub) = Len(s) - n
        /\ \A i \in 1..Len(sub) : sub[i] = s[n + i]
    <3>1. \A i \in (n + 1)..Len(s) : s[i] \in Task
      BY <1>2, <1>3
    <3>2. /\ sub \in Seq(Task) /\ Len(sub) = IF n + 1 <= Len(s) THEN Len(s) - (n + 1) + 1 ELSE 0
          /\ \A i \in 1..(Len(s) - (n + 1) + 1) : sub[i] = s[(n + 1) + i - 1]
      <4>1. n + 1 \in Int /\ Len(s) \in Int
        BY <1>2, <1>3
      <4> QED BY <3>1, <4>1, SubSeqProperties
    <3>3. Len(sub) = Len(s) - n
      BY <1>2, <1>3, <2>0, <3>2
    <3>4. \A i \in 1..Len(sub) : (n + 1) + i - 1 = n + i /\ i \in 1..(Len(s) - (n + 1) + 1)
      BY <1>2, <1>3, <3>3
    <3> HIDE DEF sub
    <3> QED BY <3>2, <3>3, <3>4
  <2> HIDE DEF sub
  <2>2. \A i \in 1..Len(sub) : sub[i] = q[1 + n + i] /\ sub[i] \in Task /\ 1 + n + i \in 2..Len(q)
    <3> SUFFICES ASSUME NEW i \in 1..Len(sub)
                 PROVE  sub[i] = q[1 + n + i] /\ sub[i] \in Task /\ 1 + n + i \in 2..Len(q)
      OBVIOUS
    <3>0. /\ n \in Nat /\ Len(s) \in Nat /\ Len(q) \in Nat /\ Len(s) = Len(q) - 1
          /\ i \in 1..(Len(s) - n) /\ n < Len(s)
      BY <1>2, <1>3, <2>0, <2>1
    <3>1. n + i \in 1..Len(s) /\ (n + i) + 1 = 1 + n + i /\ 1 + n + i \in 2..Len(q)
      BY <3>0
    <3>2. s[n + i] = q[(n + i) + 1]
      BY <1>2, <3>1
    <3> QED BY <1>2, <2>1, <3>1, <3>2
  <2>3. r = [sub EXCEPT ![1] = [sub[1] EXCEPT !.phase = "begun"]]
    BY <1>7 DEF Begun, n, sub
  <2>4. /\ 1 \in 1..Len(sub) /\ [sub[1] EXCEPT !.phase = "begun"] \in Task
        /\ Alike([sub[1] EXCEPT !.phase = "begun"], sub[1])
        /\ [sub[1] EXCEPT !.phase = "begun"].phase = "begun"
    <3>1. 1 \in 1..Len(sub)
      BY <1>2, <1>3, <2>0, <2>1
    <3> QED BY <2>2, <3>1 DEF Task, Alike
  <2>5. /\ r \in Seq(Task) /\ Len(r) = Len(sub)
        /\ \A i \in 1..Len(r) : r[i] = IF i = 1 THEN [sub[1] EXCEPT !.phase = "begun"] ELSE sub[i]
    BY <2>1, <2>3, <2>4, ExceptSeq
  <2> HIDE DEF r
  <2>6. \A i \in 1..Len(r) : /\ Alike(r[i], q[1 + n + i]) /\ 1 + n + i \in 2..Len(q)
                             /\ r[i].phase = IF i = 1 THEN "begun" ELSE "waiting"
    <3> SUFFICES ASSUME NEW i \in 1..Len(r)
                 PROVE  /\ Alike(r[i], q[1 + n + i]) /\ 1 + n + i \in 2..Len(q)
                        /\ r[i].phase = IF i = 1 THEN "begun" ELSE "waiting"
      OBVIOUS
    <3>1. Alike(sub[i], sub[i])
      BY DEF Alike
    <3>2. q[1 + n + i].phase = "waiting"
      BY <1>2, <2>2, <2>5 DEF Line
    <3> QED BY <2>2, <2>4, <2>5, <3>1, <3>2
  <2>7. Advanced(r, q, 1 + n)
    BY <1>2, <1>3, <2>1, <2>5, <2>6 DEF Advanced
  <2>8. Needed(r[1], f) /\ r # <<>> /\ 1 \in 1..Len(r)
    <3>1. Needed(sub[1], f)
      BY <1>3, <2>0, <2>1, <2>4
    <3>2. Needed([sub[1] EXCEPT !.phase = "begun"], f) <=> Needed(sub[1], f)
      BY <2>4 DEF Needed, Alike
    <3> QED BY <2>4, <2>5, <3>1, <3>2, QueueElements
  <2>9. Line(r, f)
    <3>1. \A i \in 1..Len(r) : (i = 1) <=> (r[i].phase # "waiting")
      BY <2>6
    <3>2. \A i \in 2..Len(r) : r[i].by # "nobody"
      BY <2>6 DEF Line, Alike
    <3>3. \A i, j \in 1..Len(r) : i # j => r[i].by # r[j].by
      <4> SUFFICES ASSUME NEW i \in 1..Len(r), NEW j \in 1..Len(r), i # j
                   PROVE  r[i].by # r[j].by
        OBVIOUS
      <4>1. 1 + n + i \in 1..Len(q) /\ 1 + n + j \in 1..Len(q) /\ 1 + n + i # 1 + n + j
        BY <1>2, <1>3, <2>6
      <4>2. q[1 + n + i].by # q[1 + n + j].by
        BY <4>1 DEF Line
      <4> QED BY <2>6, <4>2 DEF Alike
    <3>4. \A i \in 1..Len(r) : /\ r[i].by = "open" <=> r[i].kind = "resolve"
                               /\ r[i].phase \in {"waiting", "begun"}
      <4> SUFFICES ASSUME NEW i \in 1..Len(r)
                   PROVE  /\ r[i].by = "open" <=> r[i].kind = "resolve"
                          /\ r[i].phase \in {"waiting", "begun"}
        OBVIOUS
      <4>1. 1 + n + i \in 1..Len(q)
        BY <1>2, <2>6
      <4> QED BY <2>6, <4>1 DEF Line, Alike
    <3> QED BY <2>5, <2>8, <3>1, <3>2, <3>3, <3>4 DEF Line
  <2>10. r[1].phase = "begun"
    BY <2>6, <2>8
  <2> QED BY <1>3, <1>4, <1>5, <2>7, <2>9, <2>10 DEF r, n, s
<1> QED BY <1>6, <1>7

\* r is q with task t behind it, which runs at once if q is empty.
Added(r, q, t) ==
  /\ Len(r) = Len(q) + 1
  /\ \A i \in 1..Len(q) : r[i] = q[i]
  /\ Alike(r[Len(q) + 1], t)
  /\ q = <<>> => r[1].phase = "begun"

\* A task that is needed joins the queue, and runs at once in an empty one.
LEMMA QueuedEffect ==
  ASSUME NEW q, NEW e, NEW t \in Task, Line(q, e), t.phase = "waiting", t.by # "nobody",
         t.by = "open" <=> t.kind = "resolve", \A i \in 1..Len(q) : q[i].by # t.by, Needed(t, e)
  PROVE  /\ Line(Queued(q, e, t), e)
         /\ Added(Queued(q, e, t), q, t)
<1> DEFINE r == Queued(q, e, t)
<1>1. /\ q \in Seq(Task) /\ Len(q) \in 0..4
      /\ \A i \in 1..Len(q) : q[i] \in Task
  BY LineIsShort, QueueElements DEF Line
<1>2. CASE q = <<>>
  <2> DEFINE u == [t EXCEPT !.phase = "begun"]
  <2>1. Len(<<t>>) = 1 /\ <<t>>[1] = t
    OBVIOUS
  <2>2. Skipped(<<t>>, e) = 0
    <3>1. /\ Skipped(<<t>>, e) \in 0..Len(<<t>>)
          /\ \A i \in 1..Skipped(<<t>>, e) : ~Needed(<<t>>[i], e)
      <4>1. Len(<<t>>) \in 0..4
        BY <2>1
      <4> QED BY <4>1, SkippedEffect, Zenon
    <3>2. Skipped(<<t>>, e) \in 0..1
      BY <2>1, <3>1
    <3>3. ASSUME Skipped(<<t>>, e) = 1
          PROVE  FALSE
      <4>1. 1 \in 1..Skipped(<<t>>, e)
        BY <3>3
      <4> QED BY <2>1, <3>1, <4>1
    <3> QED BY <3>2, <3>3
  <2>3. SubSeq(<<t>>, 1, 1) = <<t>>
    <3>1. <<t>> \in Seq(Task)
      OBVIOUS
    <3> QED BY <2>1, <3>1, SubSeqFull
  <2>4. r = [<<t>> EXCEPT ![1] = u]
    <3>1. Skipped(<<t>>, e) # Len(<<t>>) /\ Skipped(<<t>>, e) + 1 = 1
      BY <2>1, <2>2
    <3>2. r = Begun(<<t>>, e)
      BY <1>2 DEF Queued
    <3>3. Begun(<<t>>, e) = [SubSeq(<<t>>, 1, 1) EXCEPT ![1].phase = "begun"]
      BY <2>1, <3>1 DEF Begun
    <3>4. [<<t>> EXCEPT ![1].phase = "begun"] = [<<t>> EXCEPT ![1] = u]
      BY <2>1
    <3> QED BY <2>3, <3>2, <3>3, <3>4
  <2>5. u \in Task /\ Alike(u, t) /\ u.phase = "begun" /\ Needed(u, e)
    BY DEF Task, Alike, Needed
  <2>6. r \in Seq(Task) /\ Len(r) = 1 /\ r[1] = u
    BY <2>4, <2>5
  <2> HIDE DEF r, u
  <2>7. 1..Len(r) = {1} /\ 2..Len(r) = {} /\ Len(q) = 0 /\ 1..Len(q) = {}
    BY <1>2, <2>6, EmptySeq
  <2>8. Line(r, e)
    <3>1. u.by = t.by /\ u.kind = t.kind
      BY <2>5 DEF Alike
    <3> QED BY <2>5, <2>6, <2>7, <3>1 DEF Line
  <2>9. Added(r, q, t)
    BY <2>5, <2>6, <2>7 DEF Added
  <2> QED BY <2>8, <2>9 DEF r
<1>3. CASE q # <<>>
  <2>1. r = Append(q, t)
    BY <1>3 DEF Queued
  <2>2. /\ r \in Seq(Task) /\ Len(r) = Len(q) + 1 /\ r[Len(q) + 1] = t
        /\ \A i \in 1..Len(q) : r[i] = q[i]
    BY <1>1, <2>1, AppendProperties
  <2> HIDE DEF r
  <2>3. Added(r, q, t)
    BY <1>3, <2>2 DEF Added, Alike
  <2>4. Len(q) >= 1
    BY <1>1, <1>3, QueueElements
  <2>5. /\ \A i \in 1..Len(r) : i \in 1..Len(q) \/ i = Len(q) + 1
        /\ Len(q) + 1 # 1 /\ 1 \in 1..Len(q)
    BY <1>1, <2>2, <2>4
  <2>6. Line(r, e)
    <3>1. \A i \in 1..Len(r) : (i = 1) <=> (r[i].phase # "waiting")
      BY <2>2, <2>5 DEF Line
    <3>2. \A i \in 2..Len(r) : r[i].by # "nobody"
      <4> SUFFICES ASSUME NEW i \in 2..Len(r) PROVE r[i].by # "nobody"
        OBVIOUS
      <4>1. i \in 2..Len(q) \/ i = Len(q) + 1
        BY <1>1, <2>2
      <4>2. \A j \in 2..Len(q) : j \in 1..Len(q)
        OBVIOUS
      <4> QED BY <2>2, <4>1, <4>2 DEF Line
    <3>3. \A i, j \in 1..Len(r) : i # j => r[i].by # r[j].by
      BY <2>2, <2>5 DEF Line
    <3>4. \A i \in 1..Len(r) : /\ r[i].by = "open" <=> r[i].kind = "resolve"
                               /\ r[i].kind = "resolve" => r[i].phase \in {"waiting", "begun"}
                               /\ r[i].kind = "discard" => r[i].phase \in {"waiting", "begun", "done"}
      BY <2>2, <2>5 DEF Line
    <3>5. Needed(r[1], e)
      BY <1>3, <2>2, <2>5 DEF Line
    <3> QED BY <2>2, <3>1, <3>2, <3>3, <3>4, <3>5 DEF Line
  <2> QED BY <2>3, <2>6 DEF r
<1> QED BY <1>2, <1>3

\* r is q after the task of who was cancelled: it had none, its task waited and
\* is left out, or its task ran and goes on for nobody.
Cut(r, q, who) ==
  \/ r = q
  \/ \E n \in 2..Len(q) :
       /\ q[n].by = who
       /\ Len(r) = Len(q) - 1
       /\ \A i \in 1..Len(r) : r[i] = IF i < n THEN q[i] ELSE q[i + 1]
  \/ /\ q # <<>> /\ q[1].by = who
     /\ Len(r) = Len(q)
     /\ r[1] = [q[1] EXCEPT !.by = "nobody"]
     /\ \A i \in 2..Len(r) : r[i] = q[i]

\* Cancelling leaves a queue without a task of who.
LEMMA CancelledEffect ==
  ASSUME NEW q, NEW e, Line(q, e), NEW who \in {"tracker", "shutdown"}
  PROVE  /\ Line(Cancelled(q, who), e)
         /\ Cut(Cancelled(q, who), q, who)
         /\ \A i \in 1..Len(Cancelled(q, who)) : Cancelled(q, who)[i].by # who
<1> DEFINE r == Cancelled(q, who)
           n == CHOOSE i \in 1..Len(q) : q[i].by = who
<1>1. /\ q \in Seq(Task) /\ Len(q) \in 0..4
      /\ \A i \in 1..Len(q) : q[i] \in Task
  BY LineIsShort, QueueElements DEF Line
<1>2. CASE \A i \in 1..Len(q) : q[i].by # who
  BY <1>2 DEF Cancelled, Cut
<1>3. CASE ~\A i \in 1..Len(q) : q[i].by # who
  <2>1. n \in 1..Len(q) /\ q[n].by = who
    BY <1>3
  <2>2. r = IF q[n].phase = "waiting" THEN Without(q, n) ELSE [q EXCEPT ![n].by = "nobody"]
    BY <1>3 DEF Cancelled
  <2> HIDE DEF n
  <2>3. CASE q[n].phase = "waiting"
    <3>1. n \in 2..Len(q)
      BY <1>1, <2>1, <2>3 DEF Line
    <3>2. r = [i \in 1..(Len(q) - 1) |-> IF i < n THEN q[i] ELSE q[i + 1]]
      BY <2>2, <2>3 DEF Without
    <3>3. /\ r \in Seq(Task) /\ Len(r) = Len(q) - 1
          /\ \A i \in 1..Len(r) : r[i] = IF i < n THEN q[i] ELSE q[i + 1]
      <4>1. r \in [1..(Len(q) - 1) -> Task] /\ Len(q) - 1 \in Nat
        BY <1>1, <3>1, <3>2
      <4> QED BY <3>2, <4>1, FunctionIsSeq
    <3> HIDE DEF r
    <3> DEFINE g(i) == IF i < n THEN i ELSE i + 1
    <3>4. \A i \in 1..Len(r) : r[i] = q[g(i)] /\ g(i) \in 1..Len(q) /\ g(i) # n /\ (g(i) = 1 <=> i = 1)
      BY <1>1, <3>1, <3>3
    <3>5. \A i, j \in 1..Len(r) : i # j => g(i) # g(j)
      BY <1>1, <3>1, <3>3
    <3> HIDE DEF g
    <3>6. \A i \in 1..Len(r) : r[i].by # who
      BY <2>1, <3>1, <3>4 DEF Line
    <3>7. Line(r, e)
      <4>1. \A i \in 1..Len(r) : (i = 1) <=> (r[i].phase # "waiting")
        BY <3>4 DEF Line
      <4>2. \A i \in 2..Len(r) : r[i].by # "nobody"
        <5> SUFFICES ASSUME NEW i \in 2..Len(r) PROVE r[i].by # "nobody"
          OBVIOUS
        <5>1. i \in 1..Len(r) /\ g(i) \in 2..Len(q)
          BY <1>1, <3>3, <3>4
        <5> QED BY <3>4, <5>1 DEF Line
      <4>3. \A i, j \in 1..Len(r) : i # j => r[i].by # r[j].by
        BY <3>4, <3>5 DEF Line
      <4>4. \A i \in 1..Len(r) : /\ r[i].by = "open" <=> r[i].kind = "resolve"
                                 /\ r[i].kind = "resolve" => r[i].phase \in {"waiting", "begun"}
                                 /\ r[i].kind = "discard" => r[i].phase \in {"waiting", "begun", "done"}
        BY <3>4 DEF Line
      <4>5. r # <<>> => Needed(r[1], e)
        <5> SUFFICES ASSUME r # <<>> PROVE Needed(r[1], e)
          OBVIOUS
        <5>1. 1 \in 1..Len(r) /\ q # <<>>
          BY <1>1, <3>1, <3>3, QueueElements
        <5>2. r[1] = q[1]
          BY <3>4, <5>1
        <5> QED BY <5>1, <5>2 DEF Line
      <4> QED BY <3>3, <4>1, <4>2, <4>3, <4>4, <4>5 DEF Line
    <3>8. Cut(r, q, who)
      BY <2>1, <3>1, <3>3 DEF Cut
    <3> QED BY <3>6, <3>7, <3>8 DEF r
  <2>4. CASE q[n].phase # "waiting"
    <3> DEFINE u == [q[1] EXCEPT !.by = "nobody"]
    <3>1. n = 1 /\ 1 \in 1..Len(q) /\ q # <<>>
      BY <1>1, <2>1, <2>4, QueueElements DEF Line
    <3>2. r = [q EXCEPT ![1] = u]
      BY <2>2, <2>4, <3>1
    <3>3. /\ u \in Task /\ u.by = "nobody" /\ u.kind = q[1].kind /\ u.phase = q[1].phase
          /\ (Needed(u, e) <=> Needed(q[1], e))
      BY <1>1, <3>1 DEF Task, Needed
    <3>4. r \in Seq(Task) /\ Len(r) = Len(q) /\ \A i \in 1..Len(q) : r[i] = IF i = 1 THEN u ELSE q[i]
      BY <1>1, <3>1, <3>2, <3>3, ExceptSeq
    <3>5. /\ \A i \in 1..Len(q) : i # 1 => i \in 2..Len(q) /\ q[i].by # "nobody" /\ q[i].by # q[1].by
          /\ \A i \in 2..Len(q) : i \in 1..Len(q) /\ i # 1
      BY <1>1, <3>1 DEF Line
    <3> HIDE DEF r, u
    <3>6. \A i \in 1..Len(r) : r[i].by # who
      BY <2>1, <3>1, <3>3, <3>4, <3>5
    <3>7. Line(r, e)
      <4>1. \A i \in 1..Len(r) : (i = 1) <=> (r[i].phase # "waiting")
        BY <3>3, <3>4 DEF Line
      <4>2. \A i \in 2..Len(r) : r[i].by # "nobody"
        BY <3>4, <3>5
      <4>3. \A i, j \in 1..Len(r) : i # j => r[i].by # r[j].by
        BY <3>3, <3>4, <3>5 DEF Line
      <4>4. \A i \in 1..Len(r) : /\ r[i].by = "open" <=> r[i].kind = "resolve"
                                 /\ r[i].kind = "resolve" => r[i].phase \in {"waiting", "begun"}
                                 /\ r[i].kind = "discard" => r[i].phase \in {"waiting", "begun", "done"}
        BY <2>1, <3>1, <3>3, <3>4 DEF Line
      <4>5. r # <<>> => Needed(r[1], e)
        BY <3>1, <3>3, <3>4 DEF Line
      <4> QED BY <3>4, <4>1, <4>2, <4>3, <4>4, <4>5 DEF Line
    <3>8. Cut(r, q, who)
      BY <2>1, <3>1, <3>4, <3>5 DEF Cut, u
    <3> QED BY <3>6, <3>7, <3>8 DEF r
  <2> QED BY <2>3, <2>4
<1> QED BY <1>2, <1>3

\* The task that runs goes on to its next phase.
LEMMA PhaseEffect ==
  ASSUME NEW q, NEW e, Line(q, e), q # <<>>, NEW p \in {"truncated", "done"},
         q[1].kind = "backup" \/ (q[1].kind = "discard" /\ p = "done")
  PROVE  /\ Line([q EXCEPT ![1].phase = p], e)
         /\ Advanced([q EXCEPT ![1].phase = p], q, 0)
         /\ [q EXCEPT ![1].phase = p][1].phase = p
         /\ [q EXCEPT ![1].phase = p] # <<>>
<1> DEFINE u == [q[1] EXCEPT !.phase = p]
           r == [q EXCEPT ![1] = u]
<1>1. /\ q \in Seq(Task) /\ Len(q) \in 1..4 /\ 1 \in 1..Len(q)
      /\ \A i \in 1..Len(q) : q[i] \in Task
  <2>1. q \in Seq(Task)
    BY DEF Line
  <2>2. Len(q) \in 0..4 /\ Len(q) >= 1 /\ \A i \in 1..Len(q) : q[i] \in Task
    BY <2>1, LineIsShort, QueueElements
  <2> QED BY <2>1, <2>2
<1>2. /\ u \in Task /\ Alike(u, q[1]) /\ u.phase = p
      /\ Needed(u, e) <=> Needed(q[1], e)
  BY <1>1 DEF Task, Needed, Alike
<1>3. r \in Seq(Task) /\ Len(r) = Len(q) /\ \A i \in 1..Len(q) : r[i] = IF i = 1 THEN u ELSE q[i]
  BY <1>1, <1>2, ExceptSeq
<1>4. r = [q EXCEPT ![1].phase = p]
  OBVIOUS
<1> HIDE DEF r, u
<1>5. \A i \in 1..Len(r) : Alike(r[i], q[i]) /\ (i # 1 => r[i] = q[i])
  BY <1>2, <1>3 DEF Alike
<1>6. Advanced(r, q, 0)
  BY <1>1, <1>3, <1>5 DEF Advanced
<1>7. Line(r, e)
  <2>1. \A i \in 1..Len(r) : (i = 1) <=> (r[i].phase # "waiting")
    BY <1>2, <1>3 DEF Line
  <2>2. \A i \in 2..Len(r) : r[i].by # "nobody"
    <3>1. \A i \in 2..Len(r) : i \in 1..Len(r) /\ i \in 2..Len(q)
      BY <1>1, <1>3
    <3> QED BY <1>5, <3>1 DEF Line, Alike
  <2>3. \A i, j \in 1..Len(r) : i # j => r[i].by # r[j].by
    BY <1>3, <1>5 DEF Line, Alike
  <2>4. \A i \in 1..Len(r) : /\ r[i].by = "open" <=> r[i].kind = "resolve"
                             /\ r[i].kind = "resolve" => r[i].phase \in {"waiting", "begun"}
                             /\ r[i].kind = "discard" => r[i].phase \in {"waiting", "begun", "done"}
    BY <1>2, <1>3, <1>5 DEF Line, Alike
  <2>5. r # <<>> => Needed(r[1], e)
    BY <1>1, <1>2, <1>3 DEF Line
  <2> QED BY <1>3, <2>1, <2>2, <2>3, <2>4, <2>5 DEF Line
<1>8. r # <<>> /\ r[1].phase = p
  BY <1>1, <1>2, <1>3, QueueElements
<1> QED BY <1>4, <1>6, <1>7, <1>8

-----------------------------------------------------------------------------
(* The types, and who owns the tasks of a queue *)

WorkingCopy == [state : {"closed", "opening", "open"}, content : Content, version : Nat, modified : BOOLEAN,
                reverting : BOOLEAN, undoable : BOOLEAN, stat : Meta]
BackupFile == [state : {"none", "torn", "whole"}, content : Content \cup {Nothing}, meta : Meta]
Operation == [op : {"none", "timer", "snapshot", "backup", "discard"}, content : Content \cup {Nothing}, meta : Meta]
Entry == [known : BOOLEAN, version : Nat, meta : Meta]
Phase == {"running", "autosave", "backup", "confirm", "saving", "error", "discard", "wipe", "clear",
          "decided", "joining", "gone"}
Shutdown == [phase : Phase, reason : {"CLOSE", "QUIT", "RELOAD", "LOAD"}, list : SUBSET Copy,
             left : SUBSET Copy, backups : SUBSET Copy, error : BOOLEAN, count : Nat]

\* The types, one conjunct per variable but io.  A backup that is whole has a
\* content, and so has a snapshot.
CopyOK == copy \in [Copy -> WorkingCopy]
DiskOK == disk \in [Copy -> [content : Content, mtime : Nat]]
FileOK == /\ backupFile \in [Copy -> BackupFile]
          /\ \A c \in Copy : backupFile[c].state = "whole" => backupFile[c].content \in Content
PendingOK == /\ pending \in [Copy -> Operation]
             /\ \A c \in Copy : pending[c].op = "snapshot" => pending[c].content \in Content
CacheOK == cache \in [Copy -> Entry]
FlagsOK == suspended \in BOOLEAN /\ isReady \in BOOLEAN /\ unrestored \subseteq Copy
ShutdownOK == shutdown \in Shutdown
GhostsOK == /\ interrupted \subseteq Copy /\ reused \subseteq Copy /\ excused \subseteq Copy
            /\ owed \in [Copy -> Content \cup {Nothing}] /\ spent \in [Kind -> Nat]
Typed == CopyOK /\ DiskOK /\ FileOK /\ PendingOK /\ CacheOK /\ FlagsOK /\ ShutdownOK /\ GhostsOK

\* Every queue is well formed.
Queues == io \in [Copy -> Seq(Task)] /\ \A c \in Copy : Line(io[c], cache[c])

\* The tracker works on what is pending for it, an open task belongs to a copy
\* that is being opened, a shutdown awaits its backups in phase "backup" and
\* discards at its end, and these discards alone can come after an open task.
Owned(q, op, state, phase, awaited) ==
  /\ \A i \in 1..Len(q) : q[i].by = "tracker" => op = q[i].kind
  /\ \A i \in 1..Len(q) : q[i].by = "open" => state = "opening"
  /\ \A i \in 1..Len(q) : q[i].by = "shutdown" =>
       \/ q[i].kind = "backup" /\ phase = "backup" /\ awaited
       \/ q[i].kind = "discard" /\ phase \in {"discard", "decided", "joining"}
       \/ phase = "gone"
  /\ \A i, j \in 1..Len(q) : i < j /\ q[i].by = "open" => q[j].by = "shutdown" /\ q[j].kind = "discard"
Owners == \A c \in Copy :
  Owned(io[c], pending[c].op, copy[c].state, shutdown.phase, c \in shutdown.left)

\* A copy that is not open is not modified, and nothing of it is to be backed up.
Dormant == \A c \in Copy : copy[c].state # "open" =>
  /\ pending[c].op \in {"none", "discard"}
  /\ ~copy[c].modified /\ ~copy[c].reverting /\ copy[c].version = 0

\* The tracker is suspended while a shutdown is decided and after it was, but
\* not in between, and has then nothing pending.
Suspension ==
  /\ Alive => (suspended <=> shutdown.phase \notin {"running", "decided"})
  /\ \A c \in Copy : suspended => pending[c].op = "none"

Base == Typed /\ Queues /\ Owners /\ Dormant /\ Suspension

\* The bounds are numbers, and contents and meta data are.
LEMMA Numbers ==
  /\ MaxChanges \in Nat /\ MaxOperations \in Nat /\ MaxFailures \in Nat /\ MaxShutdowns \in Nat
  /\ 0 \in Content /\ 1 \in Content /\ Content \subseteq Nat
  /\ \A n \in Nat : n < MaxChanges => n + 2 \in Content
  /\ Nat \subseteq Meta /\ Unknown \in Meta /\ Meta \subseteq Int /\ Nothing \notin Content
BY BoundsAssumption DEF Content, Meta, Unknown, Nothing

\* The values that are assigned as a whole have their types.
LEMMA Constants ==
  /\ Closed \in WorkingCopy /\ NoBackup \in BackupFile /\ Idle \in Operation /\ NoEntry \in Entry
  /\ NoShutdown \in Shutdown /\ [NoBackup EXCEPT !.state = "torn"] \in BackupFile
  /\ [Idle EXCEPT !.op = "timer"] \in Operation /\ [Idle EXCEPT !.op = "discard"] \in Operation
<1>1. 0 \in Content /\ 0 \in Meta /\ 0 \in Nat /\ Nothing \in Content \cup {Nothing}
  BY Numbers
<1> QED BY <1>1 DEF Closed, WorkingCopy, NoBackup, BackupFile, Idle, Operation, NoEntry, Entry,
                    NoShutdown, Shutdown, Phase

\* The types and the queues make up the type invariant.
LEMMA BaseTypes == Base => TypeOK
<1> SUFFICES ASSUME Base PROVE TypeOK
  OBVIOUS
<1>1. \A c \in Copy : Len(io[c]) <= 4 /\ \A i \in 1..Len(io[c]) : io[c][i] \in Task
  <2> SUFFICES ASSUME NEW c \in Copy
               PROVE  Len(io[c]) <= 4 /\ \A i \in 1..Len(io[c]) : io[c][i] \in Task
    OBVIOUS
  <2>1. io[c] \in Seq(Task) /\ Line(io[c], cache[c])
    BY DEF Base, Queues
  <2>2. Len(io[c]) \in 0..4 /\ \A i \in 1..Len(io[c]) : io[c][i] \in Task
    BY <2>1, LineIsShort, QueueElements
  <2> QED BY <2>2
<1> QED BY <1>1 DEF Base, Typed, CopyOK, DiskOK, FileOK, PendingOK, CacheOK, FlagsOK, ShutdownOK, GhostsOK,
                    WorkingCopy, BackupFile, Operation, Entry, Phase, Shutdown, TypeOK

\* Files that are listed make entries.
LEMMA ListedType ==
  ASSUME NEW files \in [Copy -> BackupFile]
  PROVE  /\ Listed(files) \in [Copy -> Entry]
         /\ \A c \in Copy : Listed(files)[c] = IF files[c].state = "none" THEN NoEntry
                                               ELSE [known |-> TRUE, version |-> 0, meta |-> Unknown]
<1>1. [known |-> TRUE, version |-> 0, meta |-> Unknown] \in Entry /\ NoEntry \in Entry
  BY Numbers, Constants DEF Entry
<1> QED BY <1>1 DEF Listed

LEMMA BaseInit == Init => Base
<1> SUFFICES ASSUME Init PROVE Base
  OBVIOUS
<1>1. /\ 0 \in Content /\ 1 \in Content /\ 0 \in Nat /\ 0 \in Meta
      /\ [state |-> "whole", content |-> 1, meta |-> 0] \in BackupFile
  BY Numbers DEF BackupFile
<1>2. CopyOK /\ DiskOK
  BY <1>1, Constants DEF Init, CopyOK, DiskOK
<1>3. FileOK
  <2>1. backupFile \in [Copy -> BackupFile]
    BY <1>1, Constants DEF Init
  <2>2. \A c \in Copy : backupFile[c].state = "whole" => backupFile[c].content \in Content
    BY <1>1 DEF Init, NoBackup
  <2> QED BY <2>1, <2>2 DEF FileOK
<1>4. PendingOK
  BY Constants DEF Init, PendingOK, Idle
<1>5. CacheOK
  BY <1>3, ListedType DEF Init, CacheOK, FileOK
<1>6. FlagsOK /\ ShutdownOK /\ GhostsOK
  BY <1>1, Constants DEF Init, FlagsOK, ShutdownOK, GhostsOK
<1>7. /\ <<>> \in Seq(Task) /\ Len(<<>>) = 0 /\ 1..0 = {} /\ 2..0 = {}
      /\ \A c \in Copy : io[c] = <<>>
  BY EmptySeq DEF Init
<1>8. Queues
  BY <1>7 DEF Init, Queues, Line
<1>9. Owners /\ Dormant /\ Suspension
  BY <1>7 DEF Init, Owners, Owned, Dormant, Suspension, Closed, Idle, NoShutdown, Alive
<1> QED BY <1>2, <1>3, <1>4, <1>5, <1>6, <1>8, <1>9 DEF Base, Typed

-----------------------------------------------------------------------------
(* Steps of one copy *)

\* What a step leaves alone: a copy with everything that is kept for it, and the
\* state of the window.
Untouched(d) ==
  /\ copy'[d] = copy[d] /\ disk'[d] = disk[d] /\ backupFile'[d] = backupFile[d]
  /\ pending'[d] = pending[d] /\ io'[d] = io[d] /\ cache'[d] = cache[d]
  /\ d \in interrupted' <=> d \in interrupted
  /\ d \in reused' <=> d \in reused
  /\ d \in excused' <=> d \in excused
  /\ owed'[d] = owed[d]
  /\ d \in shutdown'.left <=> d \in shutdown.left
  /\ d \in shutdown'.backups <=> d \in shutdown.backups
SameWindow ==
  /\ suspended' = suspended /\ isReady' = isReady /\ unrestored' = unrestored
  /\ shutdown'.phase = shutdown.phase /\ shutdown'.list = shutdown.list

\* The steps that concern one copy.
Single(c) == \/ InputOutput(c) \/ User(c) \/ reverted(c) \/ Failure(c)
             \/ savedBeforeShutdown(c) \/ notSavedBeforeShutdown(c)

\* What a change of copy c touches.
LEMMA ChangedFrame ==
  ASSUME Typed, Queues, NEW c \in Copy, NEW k, NEW dirty, NEW content, Changed(c, k, dirty, content),
         NEW d \in Copy, d # c
  PROVE  /\ copy'[d] = copy[d] /\ pending'[d] = pending[d] /\ io'[d] = io[d]
         /\ d \in interrupted' <=> d \in interrupted
<1>1. copy'[d] = copy[d]
  BY DEF Changed, Typed, CopyOK
<1>2. d \in interrupted' <=> d \in interrupted
  BY DEF Changed
<1>3. pending'[d] = pending[d] /\ io'[d] = io[d]
  <2>1. CASE scheduleBackup(c)
    BY <2>1 DEF scheduleBackup, Typed, PendingOK, Queues
  <2>2. CASE discardBackup(c)
    BY <2>2 DEF discardBackup, Typed, PendingOK, Queues
  <2>3. CASE UNCHANGED <<pending, io>>
    BY <2>3
  <2> QED BY <2>1, <2>2, <2>3 DEF Changed
<1> QED BY <1>1, <1>2, <1>3

\* What the end of a task touches.
LEMMA SettleFrame ==
  ASSUME Typed, Queues, NEW c \in Copy, NEW q, NEW e, NEW by, NEW failed, Settle(c, q, e, by, failed)
  PROVE  /\ shutdown'.phase = shutdown.phase /\ shutdown'.list = shutdown.list
         /\ \A d \in Copy : d # c =>
              /\ io'[d] = io[d] /\ cache'[d] = cache[d] /\ pending'[d] = pending[d]
              /\ d \in shutdown'.left <=> d \in shutdown.left
              /\ d \in shutdown'.backups <=> d \in shutdown.backups
<1> DEFINE skipped == {q[i].by : i \in 1..Skipped(q, e)}
           made == IF failed THEN skipped ELSE skipped \cup {by}
           backingUp == shutdown.phase = "backup"
<1>1. shutdown' = [shutdown EXCEPT
           !.left = IF "shutdown" \in skipped \cup {by} THEN @ \ {c} ELSE @,
           !.backups = IF backingUp /\ "shutdown" \in made THEN @ \cup {c} ELSE @,
           !.error = @ \/ (backingUp /\ failed /\ by = "shutdown")]
  BY DEF Settle
<1>2. shutdown \in Shutdown
  BY DEF Typed, ShutdownOK
<1> HIDE DEF skipped, made, backingUp
<1>3. /\ shutdown'.phase = shutdown.phase /\ shutdown'.list = shutdown.list
      /\ shutdown'.left \in {shutdown.left, shutdown.left \ {c}}
      /\ shutdown'.backups \in {shutdown.backups, shutdown.backups \cup {c}}
  BY <1>1, <1>2 DEF Shutdown
<1>4. \A d \in Copy : d # c => io'[d] = io[d] /\ cache'[d] = cache[d] /\ pending'[d] = pending[d]
  BY DEF Settle, Typed, PendingOK, CacheOK, Queues
<1> QED BY <1>3, <1>4

LEMMA LocalStep ==
  ASSUME Typed, Queues, NEW c \in Copy, Single(c)
  PROVE  SameWindow /\ \A d \in Copy : d # c => Untouched(d)
<1> USE DEF SameWindow, Untouched
<1>1. CASE timer(c) \/ snapshotTaken(c)
  BY <1>1 DEF timer, snapshotTaken, service, ghosts, Typed, PendingOK, Queues
<1>2. CASE truncate(c) \/ written(c) \/ deleted(c)
  <2>1. CASE truncate(c) \/ written(c)
    BY <2>1 DEF truncate, written, tracker, ghosts, Typed, FileOK, Queues
  <2>2. CASE deleted(c)
    BY <2>2 DEF deleted, tracker, Typed, FileOK, GhostsOK, Queues
  <2> QED BY <1>2, <2>1, <2>2
<1>3. CASE noted(c)
  <2>1. \E q, e, by : Settle(c, q, e, by, FALSE)
    BY <1>3 DEF noted
  <2>2. interrupted' \in {interrupted, interrupted \ {c}}
    BY <1>3 DEF noted
  <2> QED BY <1>3, <2>1, <2>2, SettleFrame DEF noted
<1>4. CASE ioFails(c)
  <2>1. \E q, e, by : Settle(c, q, e, by, TRUE)
    BY <1>4 DEF ioFails
  <2>2. interrupted' = interrupted \cup {c}
    BY <1>4 DEF ioFails
  <2> QED BY <1>4, <2>1, <2>2, SettleFrame DEF ioFails
<1>5. CASE edit(c) \/ undo(c) \/ saveFails(c) \/ reverted(c)
  <2>1. \E k, dirty, content : Changed(c, k, dirty, content)
    <3>1. CASE edit(c)
      BY <3>1 DEF edit
    <3>2. CASE undo(c)
      BY <3>2 DEF undo
    <3>3. CASE saveFails(c)
      BY <3>3 DEF saveFails
    <3>4. CASE reverted(c)
      <4>1. CASE copy[c].modified
        BY <3>4, <4>1 DEF reverted
      <4>2. CASE ~copy[c].modified
        BY <3>4, <4>2 DEF reverted
      <4> QED BY <4>1, <4>2
    <3> QED BY <1>5, <3>1, <3>2, <3>3, <3>4
  <2>2. /\ excused' \in {excused, excused \cup {c}} /\ shutdown' = shutdown /\ disk' = disk
        /\ backupFile' = backupFile /\ cache' = cache /\ reused' = reused /\ owed' = owed
        /\ suspended' = suspended /\ isReady' = isReady /\ unrestored' = unrestored
    BY <1>5 DEF edit, undo, saveFails, reverted, Excuse
  <2> QED BY <2>1, <2>2, ChangedFrame
<1>6. CASE save(c) \/ savedBeforeShutdown(c)
  <2>1. (\E k, dirty, content : Changed(c, k, dirty, content)) /\ Saved(c)
    BY <1>6 DEF save, savedBeforeShutdown, Saved
  <2>2. \A d \in Copy : d # c => disk'[d] = disk[d]
    BY <2>1 DEF Saved, Typed, DiskOK
  <2>3. /\ excused' = excused
        /\ backupFile' = backupFile /\ cache' = cache /\ reused' = reused /\ owed' = owed
        /\ suspended' = suspended /\ isReady' = isReady /\ unrestored' = unrestored
        /\ shutdown' \in {shutdown, [shutdown EXCEPT !.left = @ \ {c}]}
    BY <1>6 DEF save, savedBeforeShutdown
  <2>4. /\ shutdown'.phase = shutdown.phase /\ shutdown'.list = shutdown.list
        /\ shutdown'.left \in {shutdown.left, shutdown.left \ {c}} /\ shutdown'.backups = shutdown.backups
    BY <2>3 DEF Typed, ShutdownOK, Shutdown
  <2> QED BY <2>1, <2>2, <2>3, <2>4, ChangedFrame
<1>7. CASE revert(c) \/ revertFails(c)
  <2>1. /\ excused' \in {excused, excused \cup {c}} /\ interrupted' \in {interrupted, interrupted \cup {c}}
    BY <1>7 DEF revert, revertFails, Excuse
  <2> QED BY <1>7, <2>1 DEF revert, revertFails, tracker, service, Typed, CopyOK
<1>8. CASE close(c)
  <2>1. (pending' = pending /\ io' = io) \/ discardBackup(c)
    BY <1>8 DEF close
  <2>2. \A d \in Copy : d # c => pending'[d] = pending[d] /\ io'[d] = io[d]
    BY <2>1 DEF discardBackup, Typed, PendingOK, Queues
  <2>3. \A d \in Copy : d # c => copy'[d] = copy[d]
    BY <1>8 DEF close, Typed, CopyOK
  <2>4. interrupted' \in {interrupted, interrupted \cup {c}}
    BY <1>8 DEF close
  <2> QED BY <1>8, <2>2, <2>3, <2>4 DEF close
<1>9. CASE open(c)
  BY <1>9 DEF open, tracker, ghosts, Typed, CopyOK, Queues
<1>10. CASE opened(c)
  <2>1. /\ \A d \in Copy : d # c => /\ copy'[d] = copy[d] /\ cache'[d] = cache[d] /\ io'[d] = io[d]
                                    /\ pending'[d] = pending[d] /\ owed'[d] = owed[d]
    BY <1>10 DEF opened, Typed, CopyOK, CacheOK, Queues, PendingOK, GhostsOK
  <2>2. /\ excused' \in {excused, excused \cup {c}}
        /\ interrupted' \in {interrupted, interrupted \cup {c}, interrupted \ {c}}
        /\ reused' \in {reused, reused \cup {c}}
    BY <1>10 DEF opened, Excuse
  <2> QED BY <1>10, <2>1, <2>2 DEF opened
<1>11. CASE notSavedBeforeShutdown(c)
  <2>1. shutdown' = [shutdown EXCEPT !.left = @ \ {c}]
    BY <1>11 DEF notSavedBeforeShutdown
  <2>2. /\ shutdown'.phase = shutdown.phase /\ shutdown'.list = shutdown.list
        /\ shutdown'.left = shutdown.left \ {c} /\ shutdown'.backups = shutdown.backups
    BY <2>1 DEF Typed, ShutdownOK, Shutdown
  <2> QED BY <1>11, <2>2 DEF notSavedBeforeShutdown, tracker, service
<1>12. CASE resolveFails(c)
  <2>1. /\ \A d \in Copy : d # c => copy'[d] = copy[d] /\ io'[d] = io[d] /\ pending'[d] = pending[d]
        /\ interrupted' \in {interrupted, interrupted \cup {c}}
    BY <1>12 DEF resolveFails, Typed, CopyOK, Queues, PendingOK
  <2> QED BY <1>12, <2>1 DEF resolveFails
<1> QED BY <1>1, <1>2, <1>3, <1>4, <1>5, <1>6, <1>7, <1>8, <1>9, <1>10, <1>11, <1>12
        DEF Single, InputOutput, User, Failure

-----------------------------------------------------------------------------
(* Queues that get shorter, and what remains true of them *)

\* The tasks of r are tasks of q, in their order; some may have lost their owner.
Kin(x, y) == x.kind = y.kind /\ x.content = y.content /\ x.version = y.version /\ x.meta = y.meta
Fewer(r, q) == \E h \in [1..Len(r) -> 1..Len(q)] :
  /\ \A i, j \in 1..Len(r) : i < j => h[i] < h[j]
  /\ \A i \in 1..Len(r) : Kin(r[i], q[h[i]]) /\ r[i].by \in {q[h[i]].by, "nobody"}

LEMMA AdvancedFewer ==
  ASSUME NEW q, NEW r, NEW n, Len(q) \in Nat, Advanced(r, q, n)
  PROVE  Fewer(r, q)
<1> DEFINE h == [i \in 1..Len(r) |-> n + i]
<1>1. Len(r) = Len(q) - n /\ n \in 0..Len(q) /\ n \in Nat /\ Len(r) \in Nat
  BY DEF Advanced
<1>2. h \in [1..Len(r) -> 1..Len(q)]
  BY <1>1
<1>3. \A i, j \in 1..Len(r) : i < j => h[i] < h[j]
  BY <1>1
<1>4. \A i \in 1..Len(r) : Kin(r[i], q[h[i]]) /\ r[i].by \in {q[h[i]].by, "nobody"}
  BY DEF Advanced, Alike, Kin
<1> HIDE DEF h
<1> QED BY <1>2, <1>3, <1>4 DEF Fewer

LEMMA CutFewer ==
  ASSUME NEW q \in Seq(Task), NEW r, NEW who, Cut(r, q, who)
  PROVE  Fewer(r, q)
<1>0. Len(q) \in Nat /\ \A i \in 1..Len(q) : q[i] \in Task
  BY QueueElements
<1>1. CASE r = q
  <2> DEFINE h == [i \in 1..Len(r) |-> i]
  <2>1. h \in [1..Len(r) -> 1..Len(q)] /\ \A i \in 1..Len(r) : h[i] = i
    BY <1>1
  <2> HIDE DEF h
  <2> QED BY <1>1, <2>1 DEF Fewer, Kin
<1>2. ASSUME NEW n \in 2..Len(q), Len(r) = Len(q) - 1,
             \A i \in 1..Len(r) : r[i] = IF i < n THEN q[i] ELSE q[i + 1]
      PROVE  Fewer(r, q)
  <2> DEFINE h == [i \in 1..Len(r) |-> IF i < n THEN i ELSE i + 1]
  <2>1. /\ h \in [1..Len(r) -> 1..Len(q)]
        /\ \A i, j \in 1..Len(r) : i < j => h[i] < h[j]
        /\ \A i \in 1..Len(r) : r[i] = q[h[i]]
    BY <1>0, <1>2
  <2> HIDE DEF h
  <2> QED BY <2>1 DEF Fewer, Kin
<1>3. CASE /\ q # <<>> /\ Len(r) = Len(q) /\ r[1] = [q[1] EXCEPT !.by = "nobody"]
           /\ \A i \in 2..Len(r) : r[i] = q[i]
  <2> DEFINE h == [i \in 1..Len(r) |-> i]
  <2>1. h \in [1..Len(r) -> 1..Len(q)] /\ \A i \in 1..Len(r) : h[i] = i
    BY <1>3
  <2>2. 1 \in 1..Len(q) /\ q[1] \in Task
    BY <1>0, <1>3, QueueElements
  <2>3. Kin(r[1], q[1]) /\ r[1].by = "nobody"
    BY <1>3, <2>2 DEF Kin, Task
  <2>4. \A i \in 1..Len(r) : Kin(r[i], q[i]) /\ r[i].by \in {q[i].by, "nobody"}
    <3> SUFFICES ASSUME NEW i \in 1..Len(r) PROVE Kin(r[i], q[i]) /\ r[i].by \in {q[i].by, "nobody"}
      OBVIOUS
    <3>1. CASE i = 1
      BY <2>3, <3>1
    <3>2. CASE i # 1
      <4>1. r[i] = q[i]
        BY <1>0, <1>3, <3>2
      <4> QED BY <4>1 DEF Kin
    <3> QED BY <3>1, <3>2
  <2> HIDE DEF h
  <2> QED BY <2>1, <2>4 DEF Fewer
<1> QED BY <1>1, <1>2, <1>3 DEF Cut

\* The tasks of a shorter queue have their owners for the reasons they had.
LEMMA OwnedFewer ==
  ASSUME NEW q, NEW r, NEW op, NEW state, NEW phase, NEW awaited, Owned(q, op, state, phase, awaited),
         Fewer(r, q), \A i \in 2..Len(r) : r[i].by # "nobody", NEW op2, NEW state2, NEW phase2, NEW awaited2,
         \A i \in 1..Len(r) : /\ r[i].by = "tracker" => op2 = op
                              /\ r[i].by = "open" => state2 = state
                              /\ r[i].by = "shutdown" => /\ phase2 = phase \/ phase2 = "gone"
                                                         /\ phase2 = phase => (awaited => awaited2)
  PROVE  Owned(r, op2, state2, phase2, awaited2)
<1>1. PICK h \in [1..Len(r) -> 1..Len(q)] :
        /\ \A i, j \in 1..Len(r) : i < j => h[i] < h[j]
        /\ \A i \in 1..Len(r) : Kin(r[i], q[h[i]]) /\ r[i].by \in {q[h[i]].by, "nobody"}
  BY DEF Fewer
<1>2. \A i \in 1..Len(r) : /\ h[i] \in 1..Len(q) /\ r[i].kind = q[h[i]].kind
                           /\ r[i].by # "nobody" => r[i].by = q[h[i]].by
  BY <1>1 DEF Kin
<1>3. \A i \in 1..Len(r) : r[i].by = "tracker" => op2 = r[i].kind
  BY <1>2 DEF Owned
<1>4. \A i \in 1..Len(r) : r[i].by = "open" => state2 = "opening"
  BY <1>2 DEF Owned
<1>5. \A i \in 1..Len(r) : r[i].by = "shutdown" =>
         \/ r[i].kind = "backup" /\ phase2 = "backup" /\ awaited2
         \/ r[i].kind = "discard" /\ phase2 \in {"discard", "decided", "joining"}
         \/ phase2 = "gone"
  <2> SUFFICES ASSUME NEW i \in 1..Len(r), r[i].by = "shutdown", phase2 # "gone"
               PROVE  \/ r[i].kind = "backup" /\ phase2 = "backup" /\ awaited2
                      \/ r[i].kind = "discard" /\ phase2 \in {"discard", "decided", "joining"}
    OBVIOUS
  <2>1. phase2 = phase /\ (awaited => awaited2) /\ q[h[i]].by = "shutdown" /\ h[i] \in 1..Len(q)
    BY <1>2
  <2> QED BY <1>2, <2>1 DEF Owned
<1>6. \A i, j \in 1..Len(r) : i < j /\ r[i].by = "open" => r[j].by = "shutdown" /\ r[j].kind = "discard"
  <2> SUFFICES ASSUME NEW i \in 1..Len(r), NEW j \in 1..Len(r), i < j, r[i].by = "open",
                      ~(r[j].by = "shutdown" /\ r[j].kind = "discard")
               PROVE  FALSE
    OBVIOUS
  <2>1. h[i] < h[j] /\ q[h[i]].by = "open" /\ h[i] \in 1..Len(q) /\ h[j] \in 1..Len(q)
    BY <1>1, <1>2
  <2>2. q[h[j]].by = "shutdown" /\ q[h[j]].kind = "discard"
    BY <2>1 DEF Owned
  <2>3. j \in 2..Len(r)
    OBVIOUS
  <2> QED BY <1>2, <2>2, <2>3
<1> QED BY <1>3, <1>4, <1>5, <1>6 DEF Owned

\* A task that is added has its owner for one of the reasons there are.
LEMMA OwnedAdded ==
  ASSUME NEW q, NEW r, NEW op, NEW state, NEW phase, NEW awaited, Owned(q, op, state, phase, awaited),
         Len(q) \in Nat, NEW t, Added(r, q, t),
         t.by = "tracker" => op = t.kind,
         t.by = "open" => state = "opening",
         t.by = "shutdown" => \/ t.kind = "backup" /\ phase = "backup" /\ awaited
                              \/ t.kind = "discard" /\ phase \in {"discard", "decided", "joining"},
         \A i \in 1..Len(q) : q[i].by = "open" => t.by = "shutdown" /\ t.kind = "discard"
  PROVE  Owned(r, op, state, phase, awaited)
<1>1. /\ Len(r) = Len(q) + 1
      /\ \A i \in 1..Len(r) : i \in 1..Len(q) \/ i = Len(q) + 1
      /\ \A i \in 1..Len(q) : r[i] = q[i]
      /\ r[Len(q) + 1].kind = t.kind /\ r[Len(q) + 1].by = t.by
  BY DEF Added, Alike
<1>2. \A i \in 1..Len(r) : r[i].by = "tracker" => op = r[i].kind
  BY <1>1 DEF Owned
<1>3. \A i \in 1..Len(r) : r[i].by = "open" => state = "opening"
  BY <1>1 DEF Owned
<1>4. \A i \in 1..Len(r) : r[i].by = "shutdown" =>
         \/ r[i].kind = "backup" /\ phase = "backup" /\ awaited
         \/ r[i].kind = "discard" /\ phase \in {"discard", "decided", "joining"}
         \/ phase = "gone"
  BY <1>1 DEF Owned
<1>5. \A i, j \in 1..Len(r) : i < j /\ r[i].by = "open" => r[j].by = "shutdown" /\ r[j].kind = "discard"
  <2> SUFFICES ASSUME NEW i \in 1..Len(r), NEW j \in 1..Len(r), i < j, r[i].by = "open"
               PROVE  r[j].by = "shutdown" /\ r[j].kind = "discard"
    OBVIOUS
  <2>1. i \in 1..Len(q) /\ q[i].by = "open"
    BY <1>1
  <2>2. CASE j \in 1..Len(q)
    BY <1>1, <2>1, <2>2 DEF Owned
  <2>3. CASE j = Len(q) + 1
    BY <1>1, <2>1, <2>3
  <2> QED BY <1>1, <2>2, <2>3
<1> QED BY <1>2, <1>3, <1>4, <1>5 DEF Owned

-----------------------------------------------------------------------------
(* The effect of the operations on a queue *)

\* The tasks have their types.
LEMMA TaskTypes ==
  ASSUME NEW by \in {"tracker", "shutdown", "open", "nobody"}
  PROVE  /\ discardTask(by) \in Task /\ resolveTask \in Task
         /\ \A content \in Content, version \in Nat, meta \in Meta : backupTask(content, version, meta, by) \in Task
<1>1. 0 \in Content /\ 0 \in Nat /\ 0 \in Meta
  BY Numbers
<1> QED BY <1>1 DEF discardTask, resolveTask, backupTask, Task

\* A discard or an open task joins the queue of c, if its owner has none there.
LEMMA QueuedDiscard ==
  ASSUME NEW q, NEW e, Line(q, e), NEW by \in {"tracker", "shutdown"}, \A i \in 1..Len(q) : q[i].by # by
  PROVE  Line(Queued(q, e, discardTask(by)), e) /\ Added(Queued(q, e, discardTask(by)), q, discardTask(by))
<1>1. discardTask(by) \in Task
  BY TaskTypes
<1>2. /\ discardTask(by).phase = "waiting" /\ discardTask(by).by = by /\ discardTask(by).kind = "discard"
      /\ Needed(discardTask(by), e)
  BY DEF discardTask, Needed
<1> HIDE DEF discardTask
<1> QED BY <1>1, <1>2, QueuedEffect

LEMMA QueuedResolve ==
  ASSUME NEW q, NEW e, Line(q, e), \A i \in 1..Len(q) : q[i].by # "open"
  PROVE  Line(Queued(q, e, resolveTask), e) /\ Added(Queued(q, e, resolveTask), q, resolveTask)
<1>1. resolveTask \in Task
  BY TaskTypes
<1>2. /\ resolveTask.phase = "waiting" /\ resolveTask.by = "open" /\ resolveTask.kind = "resolve"
      /\ Needed(resolveTask, e)
  BY DEF resolveTask, Needed
<1> QED BY <1>1, <1>2, QueuedEffect

LEMMA QueuedBackup ==
  ASSUME NEW q, NEW e, Line(q, e), NEW by \in {"tracker", "shutdown"}, \A i \in 1..Len(q) : q[i].by # by,
         NEW content \in Content, NEW version \in Nat, NEW meta \in Meta,
         ~has(e, version, meta)
  PROVE  /\ Line(Queued(q, e, backupTask(content, version, meta, by)), e)
         /\ Added(Queued(q, e, backupTask(content, version, meta, by)), q, backupTask(content, version, meta, by))
<1> DEFINE t == backupTask(content, version, meta, by)
<1>1. t \in Task
  BY TaskTypes
<1>2. t.phase = "waiting" /\ t.by = by /\ t.kind = "backup" /\ Needed(t, e)
  BY DEF backupTask, Needed
<1> HIDE DEF t
<1> QED BY <1>1, <1>2, QueuedEffect DEF t

\* The two ways in which the tracker reacts to a change.
LEMMA ScheduleEffect ==
  ASSUME Base, NEW c \in Copy, scheduleBackup(c)
  PROVE  /\ pending'[c] = [Idle EXCEPT !.op = "timer"]
         /\ io'[c] = Cancelled(io[c], "tracker")
         /\ Line(io'[c], cache[c]) /\ Fewer(io'[c], io[c]) /\ Cut(io'[c], io[c], "tracker")
         /\ \A i \in 1..Len(io'[c]) : io'[c][i].by # "tracker"
<1>1. Line(io[c], cache[c]) /\ io[c] \in Seq(Task)
  BY DEF Base, Queues
<1>2. pending'[c] = [Idle EXCEPT !.op = "timer"] /\ io'[c] = Cancelled(io[c], "tracker")
  BY DEF scheduleBackup, Base, Typed, PendingOK, Queues
<1> QED BY <1>1, <1>2, CancelledEffect, CutFewer

LEMMA DiscardEffect ==
  ASSUME Base, NEW c \in Copy, discardBackup(c)
  PROVE  /\ pending'[c] = [Idle EXCEPT !.op = "discard"]
         /\ Line(io'[c], cache[c])
         /\ Added(io'[c], Cancelled(io[c], "tracker"), discardTask("tracker"))
         /\ Line(Cancelled(io[c], "tracker"), cache[c])
         /\ Fewer(Cancelled(io[c], "tracker"), io[c]) /\ Cut(Cancelled(io[c], "tracker"), io[c], "tracker")
         /\ \A i \in 1..Len(Cancelled(io[c], "tracker")) : Cancelled(io[c], "tracker")[i].by # "tracker"
<1>1. Line(io[c], cache[c]) /\ io[c] \in Seq(Task)
  BY DEF Base, Queues
<1>2. /\ pending'[c] = [Idle EXCEPT !.op = "discard"]
      /\ io'[c] = Queued(Cancelled(io[c], "tracker"), cache[c], discardTask("tracker"))
  BY DEF discardBackup, Base, Typed, PendingOK, Queues
<1>3. /\ Line(Cancelled(io[c], "tracker"), cache[c])
      /\ Fewer(Cancelled(io[c], "tracker"), io[c]) /\ Cut(Cancelled(io[c], "tracker"), io[c], "tracker")
      /\ \A i \in 1..Len(Cancelled(io[c], "tracker")) : Cancelled(io[c], "tracker")[i].by # "tracker"
  BY <1>1, CancelledEffect, CutFewer
<1> QED BY <1>2, <1>3, QueuedDiscard

-----------------------------------------------------------------------------
(* The types and the owners are kept *)

\* A step of copy c keeps the base if it keeps the types and what is true of c.
LEMMA LocalBase ==
  ASSUME Base, NEW c \in Copy, Single(c), Typed', NEW x, io' = [io EXCEPT ![c] = x], Line(x, cache'[c]),
         Owned(x, pending'[c].op, copy'[c].state, shutdown'.phase, c \in shutdown'.left),
         copy'[c].state # "open" => /\ pending'[c].op \in {"none", "discard"}
                                    /\ ~copy'[c].modified /\ ~copy'[c].reverting /\ copy'[c].version = 0,
         suspended => pending'[c].op = "none"
  PROVE  Base'
<1>1. SameWindow /\ \A d \in Copy : d # c => Untouched(d)
  BY LocalStep DEF Base
<1>2. io \in [Copy -> Seq(Task)] /\ x \in Seq(Task)
  BY DEF Base, Queues, Line
<1>3. io' \in [Copy -> Seq(Task)] /\ io'[c] = x
  BY <1>2
<1>4. Queues'
  <2>1. \A d \in Copy : Line(io'[d], cache'[d])
    <3> SUFFICES ASSUME NEW d \in Copy PROVE Line(io'[d], cache'[d])
      OBVIOUS
    <3>1. CASE d = c
      BY <1>3, <3>1
    <3>2. CASE d # c
      <4>1. io'[d] = io[d] /\ cache'[d] = cache[d]
        BY <1>1, <3>2 DEF Untouched
      <4> QED BY <4>1 DEF Base, Queues
    <3> QED BY <3>1, <3>2
  <2> QED BY <1>3, <2>1 DEF Queues
<1>5. Owners'
  <2> SUFFICES ASSUME NEW d \in Copy
               PROVE  Owned(io'[d], pending'[d].op, copy'[d].state, shutdown'.phase, d \in shutdown'.left)
    BY DEF Owners
  <2>1. CASE d = c
    BY <1>3, <2>1
  <2>2. CASE d # c
    <3>1. /\ io'[d] = io[d] /\ pending'[d] = pending[d] /\ copy'[d] = copy[d]
          /\ d \in shutdown'.left <=> d \in shutdown.left
          /\ shutdown'.phase = shutdown.phase
      BY <1>1, <2>2 DEF Untouched, SameWindow
    <3>2. Owned(io[d], pending[d].op, copy[d].state, shutdown.phase, d \in shutdown.left)
      BY DEF Base, Owners
    <3> QED BY <3>1, <3>2 DEF Owned
  <2> QED BY <2>1, <2>2
<1>6. Dormant'
  BY <1>1 DEF Dormant, Base, Untouched
<1>7. Suspension'
  BY <1>1 DEF Suspension, Base, Untouched, SameWindow, Alive
<1> QED BY <1>4, <1>5, <1>6, <1>7 DEF Base

\* Without a task of the shutdown, nor one behind that of an editor, the
\* reasons are those of the tracker.
LEMMA OwnedByTracker ==
  ASSUME NEW q, NEW op, NEW state, NEW phase, NEW awaited, Owned(q, op, state, phase, awaited),
         state # "opening", NEW op2, \A i \in 1..Len(q) : q[i].by # "tracker"
  PROVE  Owned(q, op2, state, phase, awaited)
BY DEF Owned

\* What a change of an open copy does.
LEMMA ChangedEffect ==
  ASSUME Base, NEW c \in Copy, IsOpen(c), NEW k \in WorkingCopy, k.state = "open",
         NEW dirty \in BOOLEAN, NEW content \in BOOLEAN, Changed(c, k, dirty, content)
  PROVE  /\ CopyOK' /\ PendingOK' /\ interrupted' \subseteq Copy
         /\ copy'[c] = [k EXCEPT !.version = IF content THEN @ + 1 ELSE @]
         /\ copy'[c].state = "open"
         /\ io' = [io EXCEPT ![c] = io'[c]]
         /\ Line(io'[c], cache[c])
         /\ Owned(io'[c], pending'[c].op, "open", shutdown.phase, c \in shutdown.left)
         /\ suspended => pending'[c].op = "none"
<1>1. /\ copy \in [Copy -> WorkingCopy] /\ pending \in [Copy -> Operation] /\ io \in [Copy -> Seq(Task)]
      /\ copy[c].state = "open"
      /\ interrupted \subseteq Copy /\ Line(io[c], cache[c])
      /\ Owned(io[c], pending[c].op, "open", shutdown.phase, c \in shutdown.left)
  BY DEF Base, Typed, CopyOK, PendingOK, Queues, Owners, GhostsOK, IsOpen
<1>2. CopyOK' /\ copy'[c] = [k EXCEPT !.version = IF content THEN @ + 1 ELSE @] /\ copy'[c].state = "open"
  <2>1. [k EXCEPT !.version = IF content THEN @ + 1 ELSE @] \in WorkingCopy
    BY DEF WorkingCopy
  <2>2. [k EXCEPT !.version = IF content THEN @ + 1 ELSE @].state = "open"
    BY DEF WorkingCopy
  <2> QED BY <1>1, <2>1, <2>2 DEF Changed, CopyOK
<1>3. interrupted' \subseteq Copy
  BY <1>1 DEF Changed
<1>4. CASE ~suspended /\ scheduleBackup(c)
  <2>1. io' = [io EXCEPT ![c] = io'[c]] /\ pending' = [pending EXCEPT ![c] = [Idle EXCEPT !.op = "timer"]]
    BY <1>1, <1>4 DEF scheduleBackup
  <2>2. PendingOK'
    <3>1. pending' \in [Copy -> Operation] /\ [Idle EXCEPT !.op = "timer"].op = "timer"
      BY <1>1, <2>1, Constants DEF Idle
    <3> QED BY <2>1, <3>1 DEF PendingOK, Base, Typed
  <2>3. /\ Line(io'[c], cache[c]) /\ Fewer(io'[c], io[c])
        /\ \A i \in 1..Len(io'[c]) : io'[c][i].by # "tracker"
    BY <1>4, ScheduleEffect
  <2>4. Owned(io'[c], pending'[c].op, "open", shutdown.phase, c \in shutdown.left)
    <3>1. \A i \in 2..Len(io'[c]) : io'[c][i].by # "nobody"
      BY <2>3 DEF Line
    <3> DEFINE r == io'[c]
               awaited == c \in shutdown.left
               op == pending'[c].op
    <3>2. /\ Fewer(r, io[c]) /\ \A i \in 2..Len(r) : r[i].by # "nobody"
          /\ \A i \in 1..Len(r) : r[i].by # "tracker"
          /\ Owned(io[c], pending[c].op, "open", shutdown.phase, awaited)
      BY <1>1, <2>3, <3>1
    <3> HIDE DEF r, awaited, op
    <3>3. Owned(r, op, "open", shutdown.phase, awaited)
      BY <3>2, OwnedFewer
    <3> QED BY <3>3 DEF r, awaited, op
  <2> QED BY <1>2, <1>3, <1>4, <2>1, <2>2, <2>3, <2>4
<1>5. CASE ~suspended /\ discardBackup(c)
  <2> DEFINE q == Cancelled(io[c], "tracker")
  <2>1. io' = [io EXCEPT ![c] = io'[c]] /\ pending' = [pending EXCEPT ![c] = [Idle EXCEPT !.op = "discard"]]
    BY <1>1, <1>5 DEF discardBackup
  <2>2. PendingOK' /\ pending'[c].op = "discard"
    <3>1. pending' \in [Copy -> Operation] /\ [Idle EXCEPT !.op = "discard"].op = "discard"
      BY <1>1, <2>1, Constants DEF Idle
    <3> QED BY <1>1, <2>1, <3>1 DEF PendingOK, Base, Typed
  <2>3. /\ Line(io'[c], cache[c]) /\ Added(io'[c], q, discardTask("tracker"))
        /\ Line(q, cache[c]) /\ Fewer(q, io[c]) /\ \A i \in 1..Len(q) : q[i].by # "tracker"
    BY <1>5, DiscardEffect
  <2> HIDE DEF q
  <2>4. Owned(q, "discard", "open", shutdown.phase, c \in shutdown.left)
    <3>1. \A i \in 2..Len(q) : q[i].by # "nobody"
      BY <2>3 DEF Line
    <3> QED BY <1>1, <2>3, <3>1, OwnedFewer, SMTT(20)
  <2>5. Owned(io'[c], "discard", "open", shutdown.phase, c \in shutdown.left)
    <3>1. q \in Seq(Task)
      BY <2>3 DEF Line
    <3>2. Len(q) \in Nat
      BY <3>1, QueueElements
    <3>3. discardTask("tracker").by = "tracker" /\ discardTask("tracker").kind = "discard"
      BY DEF discardTask
    <3>4. \A i \in 1..Len(q) : q[i].by # "open"
      BY <2>4 DEF Owned
    <3> HIDE DEF discardTask
    <3> QED BY <2>3, <2>4, <3>2, <3>3, <3>4, OwnedAdded
  <2> QED BY <1>2, <1>3, <1>5, <2>1, <2>2, <2>3, <2>5
<1>6. CASE pending' = pending /\ io' = io
  <2>1. PendingOK' /\ (suspended => pending'[c].op = "none")
    BY <1>6 DEF Base, Typed, PendingOK, Suspension
  <2>2. io' = [io EXCEPT ![c] = io'[c]]
    BY <1>1, <1>6
  <2> QED BY <1>1, <1>2, <1>3, <1>6, <2>1, <2>2
<1> QED BY <1>4, <1>5, <1>6 DEF Changed

\* What the end of a task does: the first n tasks of the queue have ended.
LEMMA SettleEffect ==
  ASSUME Base, NEW c \in Copy, io[c] # <<>>, NEW e \in Entry, NEW failed \in BOOLEAN,
         Settle(c, Tail(io[c]), e, io[c][1].by, failed)
  PROVE  /\ PendingOK' /\ CacheOK' /\ ShutdownOK'
         /\ cache'[c] = e /\ shutdown'.phase = shutdown.phase
         /\ io' = [io EXCEPT ![c] = io'[c]]
         /\ Line(io'[c], e) /\ Fewer(io'[c], io[c])
         /\ io'[c] = <<>> \/ io'[c][1].phase = "begun"
         /\ Owned(io'[c], pending'[c].op, copy[c].state, shutdown'.phase, c \in shutdown'.left)
         /\ pending'[c] \in {Idle, pending[c]}
         /\ shutdown'.list = shutdown.list
         /\ \E n \in 1..Len(io[c]) :
              /\ Advanced(io'[c], io[c], n)
              /\ \A i \in 2..n : ~Needed(io[c][i], e)
              /\ pending'[c] = IF \E i \in 1..n : io[c][i].by = "tracker" THEN Idle ELSE pending[c]
              /\ c \in shutdown'.left <=> c \in shutdown.left /\ \A i \in 1..n : io[c][i].by # "shutdown"
              /\ c \in shutdown'.backups <=>
                   \/ c \in shutdown.backups
                   \/ /\ shutdown.phase = "backup"
                      /\ \E i \in 1..n : io[c][i].by = "shutdown" /\ (i = 1 => ~failed)
<1> DEFINE q == io[c]
           r == io'[c]
           s == Skipped(Tail(q), e)
           n == 1 + s
           skipped == {Tail(q)[i].by : i \in 1..s}
           made == IF failed THEN skipped ELSE skipped \cup {q[1].by}
           backingUp == shutdown.phase = "backup"
<1>1. /\ io \in [Copy -> Seq(Task)] /\ Line(q, cache[c]) /\ q # <<>>
      /\ pending \in [Copy -> Operation] /\ cache \in [Copy -> Entry] /\ shutdown \in Shutdown
      /\ Owned(q, pending[c].op, copy[c].state, shutdown.phase, c \in shutdown.left)
  BY DEF Base, Typed, PendingOK, CacheOK, ShutdownOK, Queues, Owners
<1>2. q \in Seq(Task)
  BY <1>1
<1>3. Len(q) \in 1..4 /\ Len(q) \in Nat
  <2>1. Len(q) \in 0..4 /\ Len(q) >= 1
    BY <1>1, <1>2, LineIsShort, QueueElements
  <2> QED BY <2>1
<1>4. r = Begun(Tail(q), e) /\ io' = [io EXCEPT ![c] = r]
  BY <1>1 DEF Settle
<1>5. /\ Line(r, e) /\ Advanced(r, q, n) /\ s \in 0..Len(Tail(q))
      /\ \A i \in 2..n : ~Needed(q[i], e)
      /\ skipped = {q[i].by : i \in 2..n}
      /\ r # <<>> => r[1].phase = "begun"
  <2>1. /\ Line(Begun(Tail(q), e), e)
        /\ Begun(Tail(q), e) # <<>> => Begun(Tail(q), e)[1].phase = "begun"
        /\ Advanced(Begun(Tail(q), e), q, 1 + Skipped(Tail(q), e))
        /\ Skipped(Tail(q), e) \in 0..Len(Tail(q))
        /\ \A i \in 2..(1 + Skipped(Tail(q), e)) : ~Needed(q[i], e)
        /\ {Tail(q)[i].by : i \in 1..Skipped(Tail(q), e)} = {q[i].by : i \in 2..(1 + Skipped(Tail(q), e))}
    <3> HIDE DEF q
    <3> QED BY <1>1, BegunEffect
  <2> QED BY <1>4, <2>1
<1>6. n \in 1..Len(q) /\ Fewer(r, q)
  <2>1. Fewer(r, q)
    <3> HIDE DEF q, r, n
    <3> QED BY <1>3, <1>5, AdvancedFewer
  <2>2. n \in 0..Len(q) /\ s \in Nat
    <3> HIDE DEF q, r, s
    <3>1. n \in 0..Len(q)
      BY <1>5 DEF Advanced
    <3>2. s \in Int
      BY <1>5
    <3> HIDE DEF n
    <3>3. s >= 0
      BY <1>5
    <3> QED BY <3>1, <3>2, <3>3
  <2> QED BY <2>1, <2>2
<1>7. /\ pending' = [pending EXCEPT ![c] = IF "tracker" \in skipped \cup {q[1].by} THEN Idle ELSE @]
      /\ cache' = [cache EXCEPT ![c] = e]
      /\ shutdown' = [shutdown EXCEPT
           !.left = IF "shutdown" \in skipped \cup {q[1].by} THEN @ \ {c} ELSE @,
           !.backups = IF backingUp /\ "shutdown" \in made THEN @ \cup {c} ELSE @,
           !.error = @ \/ (backingUp /\ failed /\ q[1].by = "shutdown")]
  BY DEF Settle
<1>8. skipped \cup {q[1].by} = {q[i].by : i \in 1..n}
  <2> HIDE DEF q, n, skipped
  <2>1. \A i \in 1..n : i = 1 \/ i \in 2..n
    BY <1>6
  <2>2. \A i \in 2..n : i \in 1..n
    BY <1>6
  <2>3. 1 \in 1..n
    BY <1>6
  <2> QED BY <1>5, <2>1, <2>2, <2>3
<1>9. ("shutdown" \in made) <=> \E i \in 1..n : q[i].by = "shutdown" /\ (i = 1 => ~failed)
  <2>1. CASE failed
    <3>1. made = {q[i].by : i \in 2..n}
      BY <1>5, <2>1
    <3> HIDE DEF q, n, skipped, made
    <3>2. \A i \in 1..n : i # 1 <=> i \in 2..n
      BY <1>6
    <3>3. \A i \in 2..n : i \in 1..n
      BY <1>6
    <3> QED BY <2>1, <3>1, <3>2, <3>3
  <2>2. CASE ~failed
    <3>1. made = {q[i].by : i \in 1..n}
      BY <1>8, <2>2
    <3> HIDE DEF q, n, skipped, made
    <3> QED BY <2>2, <3>1
  <2> QED BY <2>1, <2>2
<1> HIDE DEF q, r, s, n, skipped, made, backingUp
<1>10. cache'[c] = e /\ CacheOK'
  BY <1>1, <1>7 DEF CacheOK
<1>11. pending'[c] = IF \E i \in 1..n : q[i].by = "tracker" THEN Idle ELSE pending[c]
  BY <1>1, <1>7, <1>8
<1>12. PendingOK'
  <2>1. pending' \in [Copy -> Operation]
    BY <1>1, <1>7, Constants
  <2>2. \A d \in Copy : pending'[d].op = "snapshot" => pending'[d].content \in Content
    <3> SUFFICES ASSUME NEW d \in Copy, pending'[d].op = "snapshot" PROVE pending'[d].content \in Content
      OBVIOUS
    <3>1. pending'[d] \in {Idle, pending[d]} /\ Idle.op # "snapshot"
      BY <1>1, <1>7 DEF Idle
    <3> QED BY <3>1 DEF Base, Typed, PendingOK
  <2> QED BY <2>1, <2>2 DEF PendingOK
<1>13. /\ ShutdownOK' /\ shutdown'.phase = shutdown.phase /\ shutdown'.list = shutdown.list
       /\ shutdown'.left = IF "shutdown" \in skipped \cup {q[1].by} THEN shutdown.left \ {c} ELSE shutdown.left
       /\ shutdown'.backups = IF backingUp /\ "shutdown" \in made THEN shutdown.backups \cup {c} ELSE shutdown.backups
  BY <1>1, <1>7 DEF ShutdownOK, Shutdown
<1>14. c \in shutdown'.left <=> c \in shutdown.left /\ \A i \in 1..n : q[i].by # "shutdown"
  BY <1>8, <1>13
<1>15. c \in shutdown'.backups <=>
        \/ c \in shutdown.backups
        \/ shutdown.phase = "backup" /\ \E i \in 1..n : q[i].by = "shutdown" /\ (i = 1 => ~failed)
  BY <1>9, <1>13 DEF backingUp
<1>16. \A i \in 1..Len(r), j \in 1..n : r[i].by # q[j].by
  <2> SUFFICES ASSUME NEW i \in 1..Len(r), NEW j \in 1..n PROVE r[i].by # q[j].by
    OBVIOUS
  <2>1. Len(r) = Len(q) - n /\ r[i].by = q[n + i].by
    BY <1>5 DEF Advanced, Alike
  <2>2. n + i \in 1..Len(q) /\ j \in 1..Len(q) /\ n + i # j
    BY <1>3, <1>6, <2>1
  <2> QED BY <1>1, <2>1, <2>2 DEF Line
<1>17. Owned(r, pending'[c].op, copy[c].state, shutdown'.phase, c \in shutdown'.left)
  <2> DEFINE op == pending'[c].op
             awaited == c \in shutdown'.left
             before == c \in shutdown.left
             old == pending[c].op
             state == copy[c].state
             phase == shutdown.phase
  <2>1. \A i \in 2..Len(r) : r[i].by # "nobody"
    BY <1>5 DEF Line
  <2>2. \A i \in 1..Len(r) : /\ r[i].by = "tracker" => op = old
                             /\ r[i].by = "shutdown" => (before => awaited)
    BY <1>11, <1>14, <1>16
  <2>3. Owned(q, old, state, phase, before)
    BY <1>1
  <2> HIDE DEF op, awaited, before, old, state, phase
  <2>4. Owned(r, op, state, phase, awaited)
    BY <1>6, <2>1, <2>2, <2>3, OwnedFewer
  <2> QED BY <1>13, <2>4 DEF op, awaited, state, phase
<1>18. pending'[c] \in {Idle, pending[c]}
  BY <1>11
<1>19. io' = [io EXCEPT ![c] = io'[c]]
  BY <1>4 DEF r
<1>20. \E m \in 1..Len(io[c]) :
              /\ Advanced(io'[c], io[c], m)
              /\ \A i \in 2..m : ~Needed(io[c][i], e)
              /\ pending'[c] = IF \E i \in 1..m : io[c][i].by = "tracker" THEN Idle ELSE pending[c]
              /\ c \in shutdown'.left <=> c \in shutdown.left /\ \A i \in 1..m : io[c][i].by # "shutdown"
              /\ c \in shutdown'.backups <=>
                   \/ c \in shutdown.backups
                   \/ /\ shutdown.phase = "backup"
                      /\ \E i \in 1..m : io[c][i].by = "shutdown" /\ (i = 1 => ~failed)
  BY <1>5, <1>6, <1>11, <1>14, <1>15 DEF q, r
<1> QED BY <1>5, <1>6, <1>10, <1>12, <1>13, <1>17, <1>18, <1>19, <1>20 DEF q, r

LEMMA SpendEffect ==
  ASSUME Base, NEW kind \in Kind, NEW max \in Nat, Spend(kind, max)
  PROVE  spent' \in [Kind -> Nat]
BY DEF Spend, Base, Typed, GhostsOK

\* Base, as the steps below need it for one copy.
LEMMA BaseOf ==
  ASSUME Base, NEW c \in Copy
  PROVE  /\ copy \in [Copy -> WorkingCopy] /\ copy[c] \in WorkingCopy
         /\ disk \in [Copy -> [content : Content, mtime : Nat]] /\ disk[c] \in [content : Content, mtime : Nat]
         /\ backupFile \in [Copy -> BackupFile] /\ backupFile[c] \in BackupFile
         /\ backupFile[c].state = "whole" => backupFile[c].content \in Content
         /\ pending \in [Copy -> Operation] /\ pending[c] \in Operation
         /\ pending[c].op = "snapshot" => pending[c].content \in Content
         /\ cache \in [Copy -> Entry] /\ cache[c] \in Entry
         /\ io \in [Copy -> Seq(Task)] /\ io[c] \in Seq(Task) /\ Line(io[c], cache[c])
         /\ shutdown \in Shutdown
         /\ Owned(io[c], pending[c].op, copy[c].state, shutdown.phase, c \in shutdown.left)
         /\ copy[c].state # "open" => /\ pending[c].op \in {"none", "discard"}
                                      /\ ~copy[c].modified /\ ~copy[c].reverting /\ copy[c].version = 0
         /\ suspended => pending[c].op = "none"
BY DEF Base, Typed, CopyOK, DiskOK, FileOK, PendingOK, CacheOK, ShutdownOK, Queues, Owners, Dormant, Suspension

\* A step that leaves a variable alone leaves its type.
LEMMA TypesKept ==
  ASSUME Typed
  PROVE  /\ copy' = copy => CopyOK'
         /\ disk' = disk => DiskOK'
         /\ backupFile' = backupFile => FileOK'
         /\ pending' = pending => PendingOK'
         /\ cache' = cache => CacheOK'
         /\ UNCHANGED <<suspended, isReady, unrestored>> => FlagsOK'
         /\ shutdown' = shutdown => ShutdownOK'
         /\ UNCHANGED <<interrupted, reused, excused, owed, spent>> => GhostsOK'
BY DEF Typed, CopyOK, DiskOK, FileOK, PendingOK, CacheOK, FlagsOK, ShutdownOK, GhostsOK

LEMMA TimerKeepsBase ==
  ASSUME Base, NEW c \in Copy, timer(c)
  PROVE  Base'
<1>1. /\ UNCHANGED <<copy, disk, service, suspended, unrestored, isReady, shutdown, ghosts>>
      /\ Alive /\ pending[c].op = "timer"
      /\ pending' = [pending EXCEPT ![c] = IF copy[c].modified
           THEN [op |-> "snapshot", content |-> copy[c].content, meta |-> copy[c].stat] ELSE Idle]
  BY DEF timer
<1>2. /\ pending \in [Copy -> Operation] /\ copy[c] \in WorkingCopy /\ io \in [Copy -> Seq(Task)]
      /\ Line(io[c], cache[c]) /\ copy[c].state = "open"
      /\ Owned(io[c], "timer", copy[c].state, shutdown.phase, c \in shutdown.left)
      /\ ~suspended
  BY <1>1, BaseOf
<1>3. PendingOK'
  <2>1. [op |-> "snapshot", content |-> copy[c].content, meta |-> copy[c].stat] \in Operation
    BY <1>2 DEF WorkingCopy, Operation
  <2>2. pending' \in [Copy -> Operation]
    BY <1>1, <1>2, <2>1, Constants
  <2>3. \A d \in Copy : pending'[d].op = "snapshot" => pending'[d].content \in Content
    <3>1. copy[c].content \in Content
      BY <1>2 DEF WorkingCopy
    <3> QED BY <1>1, <1>2, <3>1, BaseOf DEF Idle
  <2> QED BY <2>2, <2>3 DEF PendingOK
<1>4. Typed'
  BY <1>1, <1>3, TypesKept DEF Base, Typed, service, ghosts
<1>5. Single(c)
  BY DEF Single, InputOutput
<1>6. io' = [io EXCEPT ![c] = io[c]] /\ Line(io[c], cache'[c])
  BY <1>1, <1>2 DEF service
<1>7. Owned(io[c], pending'[c].op, copy'[c].state, shutdown'.phase, c \in shutdown'.left)
  <2>1. \A i \in 1..Len(io[c]) : io[c][i].by # "tracker"
    <3>1. \A i \in 1..Len(io[c]) : io[c][i] \in Task
      BY BaseOf, QueueElements
    <3>2. \A i \in 1..Len(io[c]) : io[c][i].kind # "timer"
      BY <3>1 DEF Task
    <3> QED BY <1>2, <3>2 DEF Owned
  <2> QED BY <1>1, <1>2, <2>1 DEF Owned
<1>8. copy'[c].state = "open"
  BY <1>1, <1>2
<1> QED BY <1>2, <1>4, <1>5, <1>6, <1>7, <1>8, LocalBase

LEMMA SnapshotKeepsBase ==
  ASSUME Base, NEW c \in Copy, snapshotTaken(c)
  PROVE  Base'
<1> DEFINE t == backupTask(pending[c].content, copy[c].version, pending[c].meta, "tracker")
<1>1. /\ UNCHANGED <<copy, disk, cache, backupFile, suspended, unrestored, isReady, shutdown, ghosts>>
      /\ Alive /\ pending[c].op = "snapshot"
  BY DEF snapshotTaken
<1>2. /\ pending \in [Copy -> Operation] /\ copy[c] \in WorkingCopy /\ io \in [Copy -> Seq(Task)]
      /\ io[c] \in Seq(Task) /\ pending[c] \in Operation /\ cache[c] \in Entry
      /\ Line(io[c], cache[c]) /\ copy[c].state = "open"
      /\ Owned(io[c], "snapshot", "open", shutdown.phase, c \in shutdown.left)
      /\ ~suspended /\ pending[c].content \in Content
  BY <1>1, BaseOf
<1>3. \A i \in 1..Len(io[c]) : io[c][i].by # "tracker" /\ io[c][i].by # "open"
  <2>1. \A i \in 1..Len(io[c]) : io[c][i] \in Task
    BY BaseOf, QueueElements
  <2>2. \A i \in 1..Len(io[c]) : io[c][i].kind # "snapshot"
    BY <2>1 DEF Task
  <2> QED BY <1>2, <2>2 DEF Owned
<1>4. Single(c) /\ copy'[c].state = "open"
  BY <1>1, <1>2 DEF Single, InputOutput
<1>5. CASE copy[c].modified /\ Needed(t, cache[c])
  <2> DEFINE x == Queued(io[c], cache[c], t)
  <2>1. pending' = [pending EXCEPT ![c] = [pending[c] EXCEPT !.op = "backup"]] /\ io' = [io EXCEPT ![c] = x]
    BY <1>5 DEF snapshotTaken
  <2>2. Line(x, cache[c]) /\ Added(x, io[c], t)
    <3>1. /\ pending[c].meta \in Meta /\ copy[c].version \in Nat
          /\ ~has(cache[c], copy[c].version, pending[c].meta)
      BY <1>2, <1>5 DEF Operation, WorkingCopy, Needed, backupTask
    <3> QED BY <1>2, <1>3, <3>1, QueuedBackup
  <2>3. [pending[c] EXCEPT !.op = "backup"] \in Operation /\ [pending[c] EXCEPT !.op = "backup"].op = "backup"
    BY <1>2 DEF Operation
  <2>4. pending' \in [Copy -> Operation] /\ pending'[c].op = "backup"
    BY <1>2, <2>1, <2>3
  <2>5. PendingOK'
    <3>1. \A d \in Copy : pending'[d].op = "snapshot" => d # c /\ pending'[d] = pending[d]
      BY <1>2, <2>1, <2>4
    <3> QED BY <2>4, <3>1, BaseOf DEF PendingOK
  <2>6. Typed'
    BY <1>1, <2>5, TypesKept DEF Base, Typed, ghosts
  <2>7. Owned(x, "backup", "open", shutdown.phase, c \in shutdown.left)
    <3> DEFINE awaited == c \in shutdown.left
    <3>1. Len(io[c]) \in Nat
      BY <1>2, QueueElements
    <3>2. t.by = "tracker" /\ t.kind = "backup"
      BY DEF backupTask
    <3>3. Owned(io[c], "backup", "open", shutdown.phase, awaited)
      BY <1>2, <1>3 DEF Owned
    <3> HIDE DEF t, x, awaited
    <3>4. Owned(x, "backup", "open", shutdown.phase, awaited)
      BY <1>3, <2>2, <3>1, <3>2, <3>3, OwnedAdded
    <3> QED BY <3>4 DEF awaited
  <2>8. Owned(x, pending'[c].op, copy'[c].state, shutdown'.phase, c \in shutdown'.left)
    BY <1>1, <1>2, <2>4, <2>7
  <2> HIDE DEF x
  <2>9. Line(x, cache'[c])
    BY <1>1, <2>2
  <2> QED BY <1>2, <1>4, <2>1, <2>6, <2>8, <2>9, LocalBase
<1>6. CASE ~(copy[c].modified /\ Needed(t, cache[c]))
  <2>1. pending' = [pending EXCEPT ![c] = Idle] /\ io' = io
    BY <1>6 DEF snapshotTaken
  <2>2. PendingOK'
    <3>1. pending' \in [Copy -> Operation]
      BY <1>2, <2>1, Constants
    <3>2. \A d \in Copy : pending'[d].op = "snapshot" => pending'[d].content \in Content
      BY <1>2, <2>1, BaseOf DEF Idle
    <3> QED BY <3>1, <3>2 DEF PendingOK
  <2>3. Typed'
    BY <1>1, <2>2, TypesKept DEF Base, Typed, ghosts
  <2>4. io' = [io EXCEPT ![c] = io[c]] /\ Line(io[c], cache'[c])
    BY <1>1, <1>2, <2>1
  <2>5. Owned(io[c], pending'[c].op, copy'[c].state, shutdown'.phase, c \in shutdown'.left)
    BY <1>1, <1>2, <1>3 DEF Owned
  <2> QED BY <1>2, <1>4, <2>3, <2>4, <2>5, LocalBase
<1> QED BY <1>5, <1>6

\* The first task of a queue goes on, and its backup file with it.
LEMMA WritingKeepsBase ==
  ASSUME Base, NEW c \in Copy, truncate(c) \/ written(c) \/ deleted(c)
  PROVE  Base'
<1>1. /\ UNCHANGED <<copy, disk, tracker, cache, shutdown, interrupted, reused, excused, spent>>
      /\ io[c] # <<>> /\ Single(c)
      /\ owed' = owed \/ owed' = [owed EXCEPT ![c] = IF GivenUp(c) THEN Nothing ELSE @]
  BY DEF truncate, written, deleted, Running, Single, InputOutput, ghosts
<1>2. /\ backupFile \in [Copy -> BackupFile] /\ backupFile[c] \in BackupFile
      /\ io \in [Copy -> Seq(Task)] /\ io[c] \in Seq(Task) /\ Line(io[c], cache[c])
      /\ Owned(io[c], pending[c].op, copy[c].state, shutdown.phase, c \in shutdown.left)
  BY BaseOf
<1>3. PICK p \in {"truncated", "done"} : /\ io' = [io EXCEPT ![c] = [io[c] EXCEPT ![1].phase = p]]
                                         /\ io[c][1].kind = "backup" \/ (io[c][1].kind = "discard" /\ p = "done")
  <2>1. CASE truncate(c)
    BY <2>1 DEF truncate, Running
  <2>2. CASE written(c)
    BY <2>2 DEF written, Running
  <2>3. CASE deleted(c)
    BY <2>3 DEF deleted, Running
  <2> QED BY <2>1, <2>2, <2>3
<1>4. FileOK'
  <2>1. io[c][1] \in Task
    <3>1. 1 \in 1..Len(io[c]) /\ \A i \in 1..Len(io[c]) : io[c][i] \in Task
      BY <1>1, <1>2, QueueElements
    <3> QED BY <3>1
  <2>2. PICK b \in BackupFile : /\ backupFile' = [backupFile EXCEPT ![c] = b]
                                /\ b.state = "whole" => b.content \in Content
    <3>1. CASE truncate(c)
      <4>1. [NoBackup EXCEPT !.state = "torn"].state = "torn"
        BY DEF NoBackup
      <4> QED BY <3>1, <4>1, Constants DEF truncate
    <3>2. CASE written(c)
      <4>1. [state |-> "whole", content |-> io[c][1].content, meta |-> io[c][1].meta] \in BackupFile
        BY <2>1 DEF Task, BackupFile
      <4>2. io[c][1].content \in Content
        BY <2>1 DEF Task
      <4>3. CASE backupFile[c].state = "torn"
        BY <3>2, <4>1, <4>2, <4>3 DEF written
      <4>4. CASE backupFile[c].state # "torn"
        <5>1. backupFile' = [backupFile EXCEPT ![c] = backupFile[c]]
          BY <3>2, <4>4 DEF written
        <5>2. backupFile[c].state = "whole" => backupFile[c].content \in Content
          BY BaseOf
        <5> QED BY <1>2, <5>1, <5>2
      <4> QED BY <4>3, <4>4
    <3>3. CASE deleted(c)
      BY <3>3, Constants DEF deleted, NoBackup
    <3> QED BY <3>1, <3>2, <3>3
  <2>3. backupFile' \in [Copy -> BackupFile]
    BY <1>2, <2>2
  <2>4. \A d \in Copy : backupFile'[d].state = "whole" => backupFile'[d].content \in Content
    BY <1>2, <2>2, BaseOf
  <2> QED BY <2>3, <2>4 DEF FileOK
<1>5. Typed'
  <2>1. GhostsOK'
    BY <1>1 DEF Base, Typed, GhostsOK
  <2> QED BY <1>1, <1>4, <2>1, TypesKept DEF Base, Typed, tracker
<1> DEFINE x == [io[c] EXCEPT ![1].phase = p]
<1>6. Line(x, cache[c]) /\ Advanced(x, io[c], 0)
  BY <1>1, <1>2, <1>3, PhaseEffect
<1> HIDE DEF x
<1>7. Owned(x, pending[c].op, copy[c].state, shutdown.phase, c \in shutdown.left)
  <2> DEFINE awaited == c \in shutdown.left
             op == pending[c].op
  <2>1. Len(io[c]) \in Nat
    BY <1>2, QueueElements
  <2>2. Fewer(x, io[c])
    BY <1>6, <2>1, AdvancedFewer
  <2>3. \A i \in 2..Len(x) : x[i].by # "nobody"
    BY <1>6 DEF Line
  <2>4. Owned(io[c], op, copy[c].state, shutdown.phase, awaited)
    BY <1>2
  <2> HIDE DEF awaited, op
  <2>5. Owned(x, op, copy[c].state, shutdown.phase, awaited)
    BY <2>2, <2>3, <2>4, OwnedFewer
  <2> QED BY <2>5 DEF awaited, op
<1>8. /\ Owned(x, pending'[c].op, copy'[c].state, shutdown'.phase, c \in shutdown'.left)
      /\ Line(x, cache'[c]) /\ io' = [io EXCEPT ![c] = x]
      /\ suspended => pending'[c].op = "none"
      /\ copy'[c].state # "open" => /\ pending'[c].op \in {"none", "discard"}
                                    /\ ~copy'[c].modified /\ ~copy'[c].reverting /\ copy'[c].version = 0
  BY <1>1, <1>3, <1>6, <1>7, BaseOf DEF tracker, x
<1> QED BY <1>1, <1>5, <1>8, LocalBase

\* A task ends, or fails.
LEMMA SettlingKeepsBase ==
  ASSUME Base, NEW c \in Copy, noted(c) \/ ioFails(c)
  PROVE  Base'
<1>1. /\ UNCHANGED <<copy, disk, backupFile, suspended, unrestored, isReady, reused, excused, owed>>
      /\ io[c] # <<>> /\ Single(c) /\ interrupted' \subseteq Copy
  <2>1. interrupted \subseteq Copy
    BY DEF Base, Typed, GhostsOK
  <2>2. CASE noted(c)
    BY <2>1, <2>2 DEF noted, Running, Single, InputOutput
  <2>3. CASE ioFails(c)
    BY <2>1, <2>3 DEF ioFails, Running, Single, Failure
  <2> QED BY <2>2, <2>3
<1>2. spent' \in [Kind -> Nat]
  <2>1. CASE noted(c)
    BY <2>1 DEF noted, Base, Typed, GhostsOK
  <2>2. CASE ioFails(c)
    BY <2>2, Numbers, SpendEffect DEF ioFails, Kind
  <2> QED BY <2>1, <2>2
<1>3. \E e \in Entry, failed \in BOOLEAN : Settle(c, Tail(io[c]), e, io[c][1].by, failed)
  <2>1. CASE noted(c)
    <3> DEFINE e == IF io[c][1].kind = "backup"
                    THEN [known |-> TRUE, version |-> io[c][1].version, meta |-> io[c][1].meta] ELSE NoEntry
    <3>1. io[c][1] \in Task
      <4>1. io[c] \in Seq(Task)
        BY BaseOf
      <4>2. 1 \in 1..Len(io[c]) /\ \A i \in 1..Len(io[c]) : io[c][i] \in Task
        BY <1>1, <4>1, QueueElements
      <4> QED BY <4>2
    <3>2. e \in Entry
      BY <3>1, Constants DEF Task, Entry
    <3>3. Settle(c, Tail(io[c]), e, io[c][1].by, FALSE)
      BY <2>1 DEF noted
    <3> HIDE DEF e
    <3> QED BY <3>2, <3>3
  <2>2. CASE ioFails(c)
    <3>1. cache[c] \in Entry /\ Settle(c, Tail(io[c]), cache[c], io[c][1].by, TRUE)
      BY <2>2, BaseOf DEF ioFails
    <3> QED BY <3>1
  <2> QED BY <2>1, <2>2
<1>4. /\ PendingOK' /\ CacheOK' /\ ShutdownOK'
      /\ io' = [io EXCEPT ![c] = io'[c]]
      /\ Line(io'[c], cache'[c])
      /\ Owned(io'[c], pending'[c].op, copy[c].state, shutdown'.phase, c \in shutdown'.left)
      /\ pending'[c] \in {Idle, pending[c]}
  BY <1>1, <1>3, SettleEffect
<1>5. GhostsOK'
  BY <1>1, <1>2 DEF GhostsOK, Base, Typed
<1>6. Typed'
  BY <1>1, <1>4, <1>5, TypesKept DEF Base, Typed
<1>7. /\ suspended => pending'[c].op = "none"
      /\ copy'[c].state # "open" => /\ pending'[c].op \in {"none", "discard"}
                                    /\ ~copy'[c].modified /\ ~copy'[c].reverting /\ copy'[c].version = 0
      /\ Owned(io'[c], pending'[c].op, copy'[c].state, shutdown'.phase, c \in shutdown'.left)
  BY <1>1, <1>4, BaseOf DEF Idle
<1> QED BY <1>1, <1>4, <1>6, <1>7, LocalBase

\* A copy changes.
LEMMA ChangingKeepsBase ==
  ASSUME Base, NEW c \in Copy, NEW k \in WorkingCopy, k.state = "open", NEW dirty \in BOOLEAN, NEW content \in BOOLEAN,
         Changed(c, k, dirty, content), IsOpen(c), Single(c), DiskOK', cache' = cache, backupFile' = backupFile,
         UNCHANGED <<suspended, unrestored, isReady, owed, reused>>, excused' \subseteq Copy, spent' \in [Kind -> Nat],
         ShutdownOK', shutdown.phase = "backup" => shutdown' = shutdown
  PROVE  Base'
<1>1. /\ CopyOK' /\ PendingOK' /\ interrupted' \subseteq Copy
      /\ copy'[c] = [k EXCEPT !.version = IF content THEN @ + 1 ELSE @]
      /\ copy'[c].state = "open"
      /\ io' = [io EXCEPT ![c] = io'[c]]
      /\ Line(io'[c], cache[c])
      /\ Owned(io'[c], pending'[c].op, "open", shutdown.phase, c \in shutdown.left)
      /\ suspended => pending'[c].op = "none"
  BY ChangedEffect
<1>2. GhostsOK'
  BY <1>1 DEF GhostsOK, Base, Typed
<1>3. Typed'
  BY <1>1, <1>2, TypesKept DEF Base, Typed
<1>4. SameWindow
  BY LocalStep DEF Base
<1>5. Owned(io'[c], pending'[c].op, copy'[c].state, shutdown'.phase, c \in shutdown'.left)
  BY <1>1, <1>4 DEF Owned, SameWindow
<1> QED BY <1>1, <1>3, <1>5, LocalBase

LEMMA EditingKeepsBase ==
  ASSUME Base, NEW c \in Copy, edit(c) \/ undo(c) \/ saveFails(c) \/ reverted(c)
  PROVE  Base'
<1>1. /\ UNCHANGED <<disk, cache, backupFile, suspended, unrestored, isReady, shutdown, owed, reused>>
      /\ Single(c) /\ IsOpen(c) /\ Excuse(c)
  BY DEF edit, undo, saveFails, reverted, Single, User, Failure
<1>2. excused' \subseteq Copy /\ DiskOK' /\ ShutdownOK'
  BY <1>1, TypesKept DEF Excuse, Base, Typed, GhostsOK
<1>3. spent' \in [Kind -> Nat]
  BY Numbers, SpendEffect DEF edit, undo, saveFails, reverted, Kind, Base, Typed, GhostsOK
<1>4. /\ copy[c] \in WorkingCopy /\ disk[c] \in [content : Content, mtime : Nat] /\ copy[c].state = "open"
      /\ disk[c].mtime \in Meta /\ spent["changes"] \in Nat
  <2>1. spent["changes"] \in Nat
    BY DEF Base, Typed, GhostsOK, Kind
  <2> QED BY <1>1, <2>1, BaseOf, Numbers DEF IsOpen
<1>5. \E k \in WorkingCopy, dirty \in BOOLEAN, content \in BOOLEAN :
         k.state = "open" /\ Changed(c, k, dirty, content)
  <2>1. CASE edit(c)
    <3> DEFINE k == [copy[c] EXCEPT !.content = spent["changes"] + 2, !.modified = TRUE]
    <3>1. spent["changes"] + 2 \in Content
      BY <1>4, <2>1, Numbers DEF edit, Spend
    <3>2. k \in WorkingCopy /\ k.state = "open" /\ (~copy[c].modified) \in BOOLEAN
      BY <1>4, <3>1 DEF WorkingCopy
    <3>3. Changed(c, k, ~copy[c].modified, TRUE)
      BY <2>1 DEF edit
    <3> HIDE DEF k
    <3> QED BY <3>2, <3>3
  <2>2. CASE undo(c)
    <3> DEFINE k == [copy[c] EXCEPT !.content = disk[c].content, !.modified = FALSE]
    <3>1. k \in WorkingCopy /\ k.state = "open"
      BY <1>4 DEF WorkingCopy
    <3>2. Changed(c, k, TRUE, TRUE)
      BY <2>2 DEF undo
    <3> HIDE DEF k
    <3> QED BY <3>1, <3>2
  <2>3. CASE saveFails(c)
    <3> DEFINE k == [copy[c] EXCEPT !.modified = TRUE]
    <3>1. k \in WorkingCopy /\ k.state = "open"
      BY <1>4 DEF WorkingCopy
    <3>2. Changed(c, k, TRUE, FALSE)
      BY <2>3 DEF saveFails
    <3> HIDE DEF k
    <3> QED BY <3>1, <3>2
  <2>4. CASE reverted(c) /\ copy[c].modified
    <3> DEFINE k == [copy[c] EXCEPT !.reverting = FALSE]
    <3>1. k \in WorkingCopy /\ k.state = "open"
      BY <1>4 DEF WorkingCopy
    <3>2. Changed(c, k, TRUE, FALSE)
      BY <2>4 DEF reverted
    <3> HIDE DEF k
    <3> QED BY <3>1, <3>2
  <2>5. CASE reverted(c) /\ ~copy[c].modified
    <3> DEFINE k == [copy[c] EXCEPT !.reverting = FALSE, !.content = disk[c].content,
                                    !.stat = disk[c].mtime, !.undoable = TRUE]
    <3>1. k \in WorkingCopy /\ k.state = "open"
      BY <1>4 DEF WorkingCopy
    <3>2. Changed(c, k, TRUE, TRUE)
      BY <2>5 DEF reverted
    <3> HIDE DEF k
    <3> QED BY <3>1, <3>2
  <2> QED BY <2>1, <2>2, <2>3, <2>4, <2>5
<1> QED BY <1>1, <1>2, <1>3, <1>5, ChangingKeepsBase

LEMMA SavingKeepsBase ==
  ASSUME Base, NEW c \in Copy, save(c) \/ savedBeforeShutdown(c)
  PROVE  Base'
<1>1. /\ UNCHANGED <<cache, backupFile, suspended, unrestored, isReady, excused, owed, reused>>
      /\ Single(c) /\ Saved(c) /\ copy[c].modified
  BY DEF save, savedBeforeShutdown, Single, User
<1>2. /\ copy[c] \in WorkingCopy /\ disk[c] \in [content : Content, mtime : Nat] /\ copy[c].state = "open"
      /\ disk \in [Copy -> [content : Content, mtime : Nat]] /\ shutdown \in Shutdown
      /\ disk[c].mtime + 1 \in Nat /\ disk[c].mtime + 1 \in Meta
  <2>1. disk[c] \in [content : Content, mtime : Nat]
    BY BaseOf
  <2> QED BY <1>1, <2>1, BaseOf, Numbers
<1>3. ShutdownOK' /\ (shutdown.phase = "backup" => shutdown' = shutdown) /\ IsOpen(c)
  <2>1. CASE save(c)
    BY <2>1, <1>2 DEF save, ShutdownOK, IsOpen
  <2>2. CASE savedBeforeShutdown(c)
    <3>1. shutdown' = [shutdown EXCEPT !.left = @ \ {c}] /\ Saving(c)
      BY <2>2 DEF savedBeforeShutdown
    <3> QED BY <1>2, <3>1 DEF Saving, ShutdownOK, Shutdown, IsOpen, Alive
  <2> QED BY <2>1, <2>2
<1>4. spent' \in [Kind -> Nat] /\ excused' \subseteq Copy
  BY <1>1, Numbers, SpendEffect DEF save, savedBeforeShutdown, Kind, Base, Typed, GhostsOK
<1>5. DiskOK'
  <2>1. [content |-> copy[c].content, mtime |-> disk[c].mtime + 1] \in [content : Content, mtime : Nat]
    BY <1>2 DEF WorkingCopy
  <2>2. disk' = [disk EXCEPT ![c] = [content |-> copy[c].content, mtime |-> disk[c].mtime + 1]]
    BY <1>1 DEF Saved
  <2> QED BY <1>2, <2>1, <2>2 DEF DiskOK
<1> DEFINE k == [copy[c] EXCEPT !.modified = FALSE, !.stat = disk[c].mtime + 1, !.undoable = TRUE]
<1>6. k \in WorkingCopy /\ k.state = "open"
  BY <1>2 DEF WorkingCopy
<1>7. Changed(c, k, TRUE, FALSE)
  BY <1>1 DEF Saved
<1> HIDE DEF k
<1> QED BY <1>1, <1>3, <1>4, <1>5, <1>6, <1>7, ChangingKeepsBase

LEMMA RevertingKeepsBase ==
  ASSUME Base, NEW c \in Copy, revert(c) \/ revertFails(c)
  PROVE  Base'
<1>1. /\ UNCHANGED <<disk, tracker, service, shutdown, owed, reused>>
      /\ Single(c) /\ IsOpen(c) /\ Excuse(c)
  BY DEF revert, revertFails, Single, User, Failure
<1>2. /\ copy \in [Copy -> WorkingCopy] /\ copy[c] \in WorkingCopy /\ copy[c].state = "open"
      /\ io \in [Copy -> Seq(Task)] /\ Line(io[c], cache[c])
      /\ Owned(io[c], pending[c].op, copy[c].state, shutdown.phase, c \in shutdown.left)
      /\ suspended => pending[c].op = "none"
  BY <1>1, BaseOf DEF IsOpen
<1>3. PICK k \in WorkingCopy : copy' = [copy EXCEPT ![c] = k] /\ k.state = "open"
  <2>1. CASE revert(c)
    <3> DEFINE k == [copy[c] EXCEPT !.modified = FALSE, !.reverting = TRUE]
    <3>1. k \in WorkingCopy /\ k.state = "open"
      BY <1>2 DEF WorkingCopy
    <3>2. copy' = [copy EXCEPT ![c] = k]
      BY <1>2, <2>1 DEF revert
    <3> HIDE DEF k
    <3> QED BY <3>1, <3>2
  <2>2. CASE revertFails(c)
    <3> DEFINE k == [copy[c] EXCEPT !.modified = TRUE, !.reverting = FALSE]
    <3>1. k \in WorkingCopy /\ k.state = "open"
      BY <1>2 DEF WorkingCopy
    <3>2. copy' = [copy EXCEPT ![c] = k]
      BY <1>2, <2>2 DEF revertFails
    <3> HIDE DEF k
    <3> QED BY <3>1, <3>2
  <2> QED BY <2>1, <2>2
<1>4. CopyOK' /\ copy'[c].state = "open"
  BY <1>2, <1>3 DEF CopyOK
<1>5. GhostsOK'
  <2>1. spent' \in [Kind -> Nat]
    BY Numbers, SpendEffect DEF revert, revertFails, Kind
  <2>2. excused' \subseteq Copy /\ interrupted' \subseteq Copy
    BY <1>1 DEF revert, revertFails, Excuse, Base, Typed, GhostsOK
  <2> QED BY <1>1, <2>1, <2>2 DEF GhostsOK, Base, Typed
<1>6. Typed'
  BY <1>1, <1>4, <1>5, TypesKept DEF Base, Typed, tracker, service
<1>7. /\ io' = [io EXCEPT ![c] = io[c]] /\ Line(io[c], cache'[c])
      /\ Owned(io[c], pending'[c].op, copy'[c].state, shutdown'.phase, c \in shutdown'.left)
      /\ suspended => pending'[c].op = "none"
  BY <1>1, <1>2, <1>4 DEF tracker, service
<1> QED BY <1>1, <1>4, <1>6, <1>7, LocalBase

LEMMA NotSavingKeepsBase ==
  ASSUME Base, NEW c \in Copy, notSavedBeforeShutdown(c)
  PROVE  Base'
<1>1. /\ UNCHANGED <<copy, disk, tracker, service, interrupted, excused, owed, reused>>
      /\ shutdown' = [shutdown EXCEPT !.left = @ \ {c}]
      /\ Single(c) /\ Saving(c)
  BY DEF notSavedBeforeShutdown, Single
<1>2. /\ io \in [Copy -> Seq(Task)] /\ Line(io[c], cache[c]) /\ shutdown \in Shutdown
      /\ Owned(io[c], pending[c].op, copy[c].state, shutdown.phase, c \in shutdown.left)
  BY BaseOf
<1>3. ShutdownOK' /\ shutdown'.phase = shutdown.phase
  BY <1>1, <1>2 DEF ShutdownOK, Shutdown
<1>4. GhostsOK'
  <2>1. spent' \in [Kind -> Nat]
    BY Numbers, SpendEffect DEF notSavedBeforeShutdown, Kind, Base, Typed, GhostsOK
  <2> QED BY <1>1, <2>1 DEF GhostsOK, Base, Typed
<1>5. Typed'
  BY <1>1, <1>3, <1>4, TypesKept DEF Base, Typed, tracker, service
<1>6. Owned(io[c], pending'[c].op, copy'[c].state, shutdown'.phase, c \in shutdown'.left)
  <2>1. shutdown.phase # "backup"
    BY <1>1 DEF Saving
  <2> QED BY <1>1, <1>2, <1>3, <2>1 DEF Owned, tracker
<1>7. io' = [io EXCEPT ![c] = io[c]] /\ Line(io[c], cache'[c])
  BY <1>1, <1>2 DEF service
<1>8. /\ suspended => pending'[c].op = "none"
      /\ copy'[c].state # "open" => /\ pending'[c].op \in {"none", "discard"}
                                    /\ ~copy'[c].modified /\ ~copy'[c].reverting /\ copy'[c].version = 0
  BY <1>1, BaseOf DEF tracker
<1> QED BY <1>1, <1>5, <1>6, <1>7, <1>8, LocalBase

LEMMA ClosingKeepsBase ==
  ASSUME Base, NEW c \in Copy, close(c)
  PROVE  Base'
<1>1. /\ UNCHANGED <<disk, cache, backupFile, suspended, unrestored, isReady, shutdown, excused, owed, reused>>
      /\ Single(c) /\ IsOpen(c) /\ copy' = [copy EXCEPT ![c] = Closed] /\ interrupted' \subseteq Copy
      /\ spent' \in [Kind -> Nat]
  <2>1. interrupted' \subseteq Copy
    BY DEF close, Base, Typed, GhostsOK
  <2>2. spent' \in [Kind -> Nat]
    BY Numbers, SpendEffect DEF close, Kind
  <2> QED BY <2>1, <2>2 DEF close, Single, User
<1>2. /\ copy \in [Copy -> WorkingCopy] /\ copy[c].state = "open" /\ pending \in [Copy -> Operation]
      /\ io \in [Copy -> Seq(Task)] /\ Line(io[c], cache[c])
      /\ Owned(io[c], pending[c].op, "open", shutdown.phase, c \in shutdown.left)
      /\ suspended => pending[c].op = "none"
  BY <1>1, BaseOf DEF IsOpen
<1>3. CopyOK' /\ copy'[c] = Closed
  BY <1>1, <1>2, Constants DEF CopyOK
<1>4. GhostsOK'
  BY <1>1 DEF GhostsOK, Base, Typed
<1>5. ASSUME PendingOK', pending'[c].op \in {"none", "discard"}, suspended => pending'[c].op = "none",
             NEW x, io' = [io EXCEPT ![c] = x], Line(x, cache[c]),
             Owned(x, pending'[c].op, "open", shutdown.phase, c \in shutdown.left)
      PROVE  Base'
  <2>1. Typed'
    BY <1>1, <1>3, <1>4, <1>5, TypesKept DEF Base, Typed
  <2>2. Owned(x, pending'[c].op, copy'[c].state, shutdown'.phase, c \in shutdown'.left)
    BY <1>1, <1>5 DEF Owned
  <2>3. ~copy'[c].modified /\ ~copy'[c].reverting /\ copy'[c].version = 0 /\ Line(x, cache'[c])
    BY <1>1, <1>3, <1>5 DEF Closed
  <2> QED BY <1>1, <1>5, <2>1, <2>2, <2>3, LocalBase
<1>6. CASE suspended
  <2>1. pending' = pending /\ io' = io
    BY <1>6 DEF close
  <2>2. PendingOK' /\ pending'[c].op = "none" /\ io' = [io EXCEPT ![c] = io[c]]
    BY <1>2, <1>6, <2>1, TypesKept DEF Base
  <2>3. Owned(io[c], pending'[c].op, "open", shutdown.phase, c \in shutdown.left)
    BY <1>2, <2>1
  <2> QED BY <1>2, <1>5, <2>2, <2>3
<1>7. CASE ~suspended
  <2> DEFINE q == Cancelled(io[c], "tracker")
             r == io'[c]
             awaited == c \in shutdown.left
  <2>0. discardBackup(c)
    BY <1>7 DEF close
  <2>1. io' = [io EXCEPT ![c] = r] /\ pending' = [pending EXCEPT ![c] = [Idle EXCEPT !.op = "discard"]]
    BY <1>2, <2>0 DEF discardBackup
  <2>2. PendingOK' /\ pending'[c].op = "discard"
    <3>1. pending' \in [Copy -> Operation] /\ [Idle EXCEPT !.op = "discard"].op = "discard"
      BY <1>2, <2>1, Constants DEF Idle
    <3> QED BY <1>2, <2>1, <3>1, BaseOf DEF PendingOK
  <2>3. /\ Line(r, cache[c]) /\ Added(r, q, discardTask("tracker"))
        /\ Line(q, cache[c]) /\ Fewer(q, io[c]) /\ \A i \in 1..Len(q) : q[i].by # "tracker"
    BY <2>0, DiscardEffect
  <2>4. Owned(io[c], pending[c].op, "open", shutdown.phase, awaited)
    BY <1>2
  <2> HIDE DEF q, r, awaited
  <2>5. Owned(q, "discard", "open", shutdown.phase, awaited)
    <3>1. \A i \in 2..Len(q) : q[i].by # "nobody"
      BY <2>3 DEF Line
    <3> QED BY <2>4, <2>3, <3>1, OwnedFewer
  <2>6. Owned(r, "discard", "open", shutdown.phase, awaited)
    <3>1. q \in Seq(Task)
      BY <2>3 DEF Line
    <3>2. Len(q) \in Nat
      BY <3>1, QueueElements
    <3>3. discardTask("tracker").by = "tracker" /\ discardTask("tracker").kind = "discard"
      BY DEF discardTask
    <3>4. \A i \in 1..Len(q) : q[i].by # "open"
      BY <2>5 DEF Owned
    <3> HIDE DEF discardTask
    <3> QED BY <2>3, <2>5, <3>2, <3>3, <3>4, OwnedAdded
  <2>7. Owned(r, pending'[c].op, "open", shutdown.phase, c \in shutdown.left)
    BY <2>2, <2>6 DEF awaited
  <2> QED BY <1>5, <1>7, <2>1, <2>2, <2>3, <2>7
<1> QED BY <1>6, <1>7

LEMMA OpeningKeepsBase ==
  ASSUME Base, NEW c \in Copy, open(c)
  PROVE  Base'
<1> DEFINE k == [copy[c] EXCEPT !.state = "opening"]
           x == Queued(io[c], cache[c], resolveTask)
           awaited == c \in shutdown.left
           op == pending[c].op
<1>1. /\ UNCHANGED <<disk, tracker, cache, backupFile, shutdown, ghosts>>
      /\ Single(c) /\ copy[c].state = "closed" /\ copy' = [copy EXCEPT ![c] = k] /\ io' = [io EXCEPT ![c] = x]
  BY DEF open, Single, User
<1>2. /\ copy \in [Copy -> WorkingCopy] /\ copy[c] \in WorkingCopy /\ Line(io[c], cache[c])
      /\ io[c] \in Seq(Task)
      /\ Owned(io[c], op, "closed", shutdown.phase, awaited)
      /\ op \in {"none", "discard"} /\ ~copy[c].modified /\ ~copy[c].reverting /\ copy[c].version = 0
      /\ suspended => op = "none"
  BY <1>1, BaseOf
<1>3. /\ k \in WorkingCopy /\ k.state = "opening" /\ k.modified = copy[c].modified
      /\ k.reverting = copy[c].reverting /\ k.version = copy[c].version
  BY <1>2 DEF WorkingCopy
<1> HIDE DEF k
<1>4. CopyOK' /\ copy'[c] = k
  BY <1>1, <1>2, <1>3 DEF CopyOK
<1>5. Typed'
  BY <1>1, <1>4, TypesKept DEF Base, Typed, tracker, ghosts
<1>6. \A i \in 1..Len(io[c]) : io[c][i].by # "open"
  BY <1>2 DEF Owned
<1>7. Line(x, cache[c]) /\ Added(x, io[c], resolveTask)
  BY <1>2, <1>6, QueuedResolve
<1> HIDE DEF x, awaited, op
<1>8. Owned(x, op, "opening", shutdown.phase, awaited)
  <2>1. Len(io[c]) \in Nat
    BY <1>2, QueueElements
  <2>2. resolveTask.by = "open" /\ resolveTask.kind = "resolve"
    BY DEF resolveTask
  <2>3. Owned(io[c], op, "opening", shutdown.phase, awaited)
    BY <1>2, <1>6 DEF Owned
  <2> HIDE DEF resolveTask
  <2> QED BY <1>6, <1>7, <2>1, <2>2, <2>3, OwnedAdded
<1>9. /\ Owned(x, pending'[c].op, copy'[c].state, shutdown'.phase, c \in shutdown'.left) /\ Line(x, cache'[c])
      /\ pending'[c].op \in {"none", "discard"} /\ (suspended => pending'[c].op = "none")
      /\ ~copy'[c].modified /\ ~copy'[c].reverting /\ copy'[c].version = 0
  BY <1>1, <1>2, <1>3, <1>4, <1>7, <1>8 DEF tracker, awaited, op
<1> QED BY <1>1, <1>5, <1>9, LocalBase

\* The queue goes on after a backup was asked for: only discards of a shutdown
\* can come behind an open task.
LEMMA ResolvedEffect ==
  ASSUME Base, NEW c \in Copy, Running(c, "resolve", "begun"), NEW f
  PROVE  LET x == Begun(Tail(io[c]), f)
         IN  /\ Line(x, f) /\ Fewer(x, io[c]) /\ (x = <<>> \/ x[1].phase = "begun")
             /\ \A i \in 1..Len(x) : x[i].by = "shutdown" /\ x[i].kind = "discard"
             /\ \E n \in 1..Len(io[c]) : Advanced(x, io[c], n)
             /\ io[c] # <<>> /\ io[c][1].kind = "resolve"
             /\ \A i \in 2..Len(io[c]) : io[c][i].by = "shutdown" /\ io[c][i].kind = "discard"
             /\ copy[c].state = "opening" /\ copy[c].version = 0 /\ ~copy[c].reverting
<1> DEFINE q == io[c]
           x == Begun(Tail(q), f)
           n == 1 + Skipped(Tail(q), f)
<1>1. /\ q \in Seq(Task) /\ Line(q, cache[c])
      /\ Owned(q, pending[c].op, copy[c].state, shutdown.phase, c \in shutdown.left)
  BY BaseOf
<1>2. q # <<>> /\ q[1].kind = "resolve" /\ q[1].phase = "begun"
  BY DEF Running
<1>3. Len(q) \in Nat /\ 1 \in 1..Len(q)
  BY <1>1, <1>2, QueueElements
<1>4. q[1].by = "open" /\ copy[c].state = "opening"
  BY <1>1, <1>2, <1>3 DEF Line, Owned
<1>5. copy[c].version = 0 /\ ~copy[c].reverting
  BY <1>4, BaseOf
<1>6. \A i \in 2..Len(q) : q[i].by = "shutdown" /\ q[i].kind = "discard"
  <2>1. \A i \in 2..Len(q) : i \in 1..Len(q) /\ 1 < i
    OBVIOUS
  <2> QED BY <1>1, <1>3, <1>4, <2>1 DEF Owned
<1>7. Line(x, f) /\ Advanced(x, q, n) /\ (x # <<>> => x[1].phase = "begun")
      /\ Skipped(Tail(q), f) \in 0..Len(Tail(q))
  <2> HIDE DEF q
  <2> QED BY <1>1, <1>2, BegunEffect
<1>8. n \in 1..Len(q) /\ Fewer(x, q)
  <2>1. Skipped(Tail(q), f) \in Int /\ Skipped(Tail(q), f) >= 0
    BY <1>7
  <2>2. n \in 0..Len(q)
    BY <1>7 DEF Advanced
  <2> HIDE DEF x, q
  <2>3. n \in 1..Len(q)
    BY <1>3, <2>1, <2>2
  <2> HIDE DEF n
  <2> QED BY <1>3, <1>7, <2>3, AdvancedFewer
<1>9. \A i \in 1..Len(x) : x[i].by = "shutdown" /\ x[i].kind = "discard"
  <2> HIDE DEF x, q, n
  <2> SUFFICES ASSUME NEW i \in 1..Len(x) PROVE x[i].by = "shutdown" /\ x[i].kind = "discard"
    OBVIOUS
  <2>1. x[i].by = q[n + i].by /\ x[i].kind = q[n + i].kind /\ Len(x) = Len(q) - n
    BY <1>7 DEF Advanced, Alike
  <2>2. n + i \in 2..Len(q)
    BY <1>3, <1>8, <2>1
  <2> QED BY <1>6, <2>1, <2>2
<1> HIDE DEF n
<1>10. \E m \in 1..Len(q) : Advanced(x, q, m)
  BY <1>7, <1>8
<1> HIDE DEF x, q
<1> QED BY <1>2, <1>4, <1>5, <1>6, <1>7, <1>8, <1>9, <1>10 DEF x, q

\* What the end of the opening of a copy does.
LEMMA OpenedEffect ==
  ASSUME Base, NEW c \in Copy, opened(c)
  PROVE  LET b == backupFile[c]
             e == IF resolve(c) THEN [cache[c] EXCEPT !.meta = b.meta] ELSE cache[c]
             k == [copy[c] EXCEPT !.state = "open", !.modified = resolve(c), !.undoable = ~resolve(c),
                     !.content = IF resolve(c) THEN b.content ELSE disk[c].content,
                     !.stat = IF resolve(c) THEN b.meta ELSE disk[c].mtime]
         IN  /\ copy' = [copy EXCEPT ![c] = k] /\ cache' = [cache EXCEPT ![c] = e]
             /\ k \in WorkingCopy /\ e \in Entry
             /\ io' = [io EXCEPT ![c] = io'[c]] /\ Line(io'[c], e) /\ Fewer(io'[c], io[c])
             /\ \A i \in 1..Len(io'[c]) : io'[c][i].by = "shutdown" /\ io'[c][i].kind = "discard"
             /\ copy[c].state = "opening" /\ copy[c].version = 0 /\ ~copy[c].reverting
             /\ io[c] # <<>> /\ io[c][1].kind = "resolve"
             /\ \A i \in 2..Len(io[c]) : io[c][i].by = "shutdown" /\ io[c][i].kind = "discard"
             /\ \E n \in 1..Len(io[c]) : Advanced(io'[c], io[c], n)
             /\ io'[c] = <<>> \/ io'[c][1].phase = "begun"
<1> DEFINE b == backupFile[c]
           e == IF resolve(c) THEN [cache[c] EXCEPT !.meta = b.meta] ELSE cache[c]
           k == [copy[c] EXCEPT !.state = "open", !.modified = resolve(c), !.undoable = ~resolve(c),
                     !.content = IF resolve(c) THEN b.content ELSE disk[c].content,
                     !.stat = IF resolve(c) THEN b.meta ELSE disk[c].mtime]
           x == Begun(Tail(io[c]), e)
<1>1. /\ copy \in [Copy -> WorkingCopy] /\ copy[c] \in WorkingCopy /\ cache[c] \in Entry /\ b \in BackupFile
      /\ disk[c] \in [content : Content, mtime : Nat]
      /\ b.state = "whole" => b.content \in Content
      /\ io \in [Copy -> Seq(Task)]
  BY BaseOf
<1>2. copy' = [copy EXCEPT ![c] = k] /\ cache' = [cache EXCEPT ![c] = e] /\ io' = [io EXCEPT ![c] = x]
  BY DEF opened
<1>3. k \in WorkingCopy /\ e \in Entry
  <2>1. b.meta \in Meta /\ disk[c].mtime \in Meta /\ disk[c].content \in Content /\ resolve(c) \in BOOLEAN
    BY <1>1, Numbers DEF BackupFile, resolve, Entry
  <2>2. e \in Entry
    BY <1>1, <2>1 DEF Entry
  <2>3. resolve(c) => b.content \in Content
    BY <1>1 DEF resolve
  <2>4. k \in WorkingCopy
    <3>1. (IF resolve(c) THEN b.content ELSE disk[c].content) \in Content
      BY <2>1, <2>3
    <3>2. (IF resolve(c) THEN b.meta ELSE disk[c].mtime) \in Meta
      BY <2>1
    <3>3. (~resolve(c)) \in BOOLEAN
      BY <2>1
    <3> QED BY <1>1, <2>1, <3>1, <3>2, <3>3 DEF WorkingCopy
  <2> QED BY <2>2, <2>4
<1>4. io'[c] = x
  BY <1>1, <1>2
<1>5. Running(c, "resolve", "begun")
  BY DEF opened
<1> HIDE DEF e, k
<1>6. /\ Line(x, e) /\ Fewer(x, io[c]) /\ (x = <<>> \/ x[1].phase = "begun")
      /\ \A i \in 1..Len(x) : x[i].by = "shutdown" /\ x[i].kind = "discard"
      /\ \E n \in 1..Len(io[c]) : Advanced(x, io[c], n)
      /\ io[c] # <<>> /\ io[c][1].kind = "resolve"
      /\ \A i \in 2..Len(io[c]) : io[c][i].by = "shutdown" /\ io[c][i].kind = "discard"
      /\ copy[c].state = "opening" /\ copy[c].version = 0 /\ ~copy[c].reverting
  BY <1>5, ResolvedEffect
<1> HIDE DEF x
<1> QED BY <1>2, <1>3, <1>4, <1>6 DEF e, k

LEMMA OpenedKeepsBase ==
  ASSUME Base, NEW c \in Copy, opened(c)
  PROVE  Base'
<1> DEFINE b == backupFile[c]
           e == IF resolve(c) THEN [cache[c] EXCEPT !.meta = b.meta] ELSE cache[c]
           k == [copy[c] EXCEPT !.state = "open", !.modified = resolve(c), !.undoable = ~resolve(c),
                     !.content = IF resolve(c) THEN b.content ELSE disk[c].content,
                     !.stat = IF resolve(c) THEN b.meta ELSE disk[c].mtime]
<1>1. /\ copy' = [copy EXCEPT ![c] = k] /\ cache' = [cache EXCEPT ![c] = e]
      /\ k \in WorkingCopy /\ e \in Entry
      /\ io' = [io EXCEPT ![c] = io'[c]] /\ Line(io'[c], e) /\ Fewer(io'[c], io[c])
      /\ \A i \in 1..Len(io'[c]) : io'[c][i].by = "shutdown" /\ io'[c][i].kind = "discard"
      /\ copy[c].state = "opening"
  BY OpenedEffect
<1>2. k.state = "open"
  <2>1. copy[c] \in WorkingCopy
    BY BaseOf
  <2> QED BY <2>1 DEF WorkingCopy
<1> HIDE DEF e, k
<1>3. /\ UNCHANGED <<disk, backupFile, suspended, unrestored, isReady, shutdown, spent>>
      /\ pending' = [pending EXCEPT ![c] = IF resolve(c) /\ ~suspended THEN [Idle EXCEPT !.op = "timer"] ELSE @]
      /\ Single(c)
  BY DEF opened, Single, InputOutput
<1>4. /\ copy \in [Copy -> WorkingCopy] /\ cache \in [Copy -> Entry] /\ pending \in [Copy -> Operation]
      /\ Owned(io[c], pending[c].op, "opening", shutdown.phase, c \in shutdown.left)
      /\ suspended => pending[c].op = "none"
  BY <1>1, BaseOf
<1>5. CopyOK' /\ CacheOK' /\ copy'[c] = k /\ cache'[c] = e
  BY <1>1, <1>4 DEF CopyOK, CacheOK
<1>6. PendingOK' /\ (suspended => pending'[c].op = "none")
  <2>1. pending' \in [Copy -> Operation]
    BY <1>3, <1>4, Constants
  <2>2. \A d \in Copy : pending'[d].op = "snapshot" => pending'[d] = pending[d]
    BY <1>3, <1>4 DEF Idle
  <2>3. suspended => pending'[c] = pending[c]
    BY <1>3, <1>4
  <2> QED BY <1>4, <2>1, <2>2, <2>3, BaseOf DEF PendingOK
<1>7. GhostsOK'
  <2>1. /\ reused \subseteq Copy /\ interrupted \subseteq Copy /\ excused \subseteq Copy
        /\ owed \in [Copy -> Content \cup {Nothing}] /\ spent \in [Kind -> Nat]
    BY DEF Base, Typed, GhostsOK
  <2>2. reused' \subseteq Copy /\ interrupted' \subseteq Copy /\ excused' \subseteq Copy
    BY <2>1 DEF opened, Excuse
  <2>3. owed' \in [Copy -> Content \cup {Nothing}]
    BY <2>1 DEF opened
  <2> QED BY <1>3, <2>1, <2>2, <2>3 DEF GhostsOK
<1>8. Typed'
  BY <1>3, <1>5, <1>6, <1>7, TypesKept DEF Base, Typed
<1>9. Owned(io'[c], pending'[c].op, copy'[c].state, shutdown'.phase, c \in shutdown'.left)
  <2> DEFINE r == io'[c]
             awaited == c \in shutdown.left
             op == pending[c].op
             op2 == pending'[c].op
  <2>1. /\ Fewer(r, io[c]) /\ \A i \in 1..Len(r) : r[i].by = "shutdown"
        /\ Owned(io[c], op, "opening", shutdown.phase, awaited)
        /\ \A i \in 2..Len(r) : r[i].by # "nobody"
    <3>1. \A i \in 2..Len(r) : r[i].by # "nobody"
      BY <1>1 DEF Line
    <3> QED BY <1>1, <1>4, <3>1
  <2> HIDE DEF r, awaited, op, op2
  <2>2. Owned(r, op2, "open", shutdown.phase, awaited)
    BY <2>1, OwnedFewer
  <2> QED BY <1>2, <1>3, <1>5, <2>2 DEF r, awaited, op2
<1>10. Line(io'[c], cache'[c]) /\ copy'[c].state = "open"
  BY <1>1, <1>2, <1>5
<1> QED BY <1>1, <1>3, <1>6, <1>8, <1>9, <1>10, LocalBase

\* What a failing read of a backup does: the discard of the tracker, unless it
\* is suspended, comes behind those of the shutdown.
LEMMA FailedEffect ==
  ASSUME Base, NEW c \in Copy, resolveFails(c)
  PROVE  LET q == Begun(Tail(io[c]), cache[c])
         IN  /\ copy' = [copy EXCEPT ![c] = Closed] /\ copy'[c] = Closed
             /\ UNCHANGED <<disk, cache, backupFile, suspended, unrestored, isReady, shutdown, excused, owed, reused>>
             /\ Running(c, "resolve", "begun") /\ Line(q, cache[c])
             /\ \/ suspended /\ io'[c] = q /\ UNCHANGED <<pending, interrupted>>
                \/ /\ ~suspended /\ interrupted' = interrupted \cup {c}
                   /\ pending' = [pending EXCEPT ![c] = [Idle EXCEPT !.op = "discard"]]
                   /\ Line(io'[c], cache[c]) /\ Added(io'[c], q, discardTask("tracker"))
             /\ io' = [io EXCEPT ![c] = io'[c]]
<1> DEFINE q == Begun(Tail(io[c]), cache[c])
           r == Queued(Cancelled(q, "tracker"), cache[c], discardTask("tracker"))
<1>1. /\ copy' = [copy EXCEPT ![c] = Closed]
      /\ UNCHANGED <<disk, cache, backupFile, suspended, unrestored, isReady, shutdown, excused, owed, reused>>
      /\ Running(c, "resolve", "begun")
      /\ \/ suspended /\ io' = [io EXCEPT ![c] = q] /\ UNCHANGED <<pending, interrupted>>
         \/ /\ ~suspended /\ interrupted' = interrupted \cup {c}
            /\ pending' = [pending EXCEPT ![c] = [Idle EXCEPT !.op = "discard"]]
            /\ io' = [io EXCEPT ![c] = r]
  BY DEF resolveFails
<1>2. copy \in [Copy -> WorkingCopy] /\ io \in [Copy -> Seq(Task)]
  BY BaseOf
<1>3. Line(q, cache[c]) /\ \A i \in 1..Len(q) : q[i].by = "shutdown"
  <2> DEFINE e == cache[c]
             x == Begun(Tail(io[c]), e)
  <2> HIDE DEF e
  <2>1. Running(c, "resolve", "begun")
    BY <1>1
  <2>2. Line(x, e) /\ \A i \in 1..Len(x) : x[i].by = "shutdown"
    BY <2>1, ResolvedEffect
  <2> QED BY <2>2 DEF e
<1>4. Cancelled(q, "tracker") = q
  <2> HIDE DEF q
  <2>1. \A i \in 1..Len(q) : q[i].by # "tracker"
    BY <1>3
  <2> QED BY <2>1 DEF Cancelled
<1> HIDE DEF q
<1>5. Line(r, cache[c]) /\ Added(r, q, discardTask("tracker"))
  BY <1>3, <1>4, QueuedDiscard
<1> HIDE DEF r
<1> QED BY <1>1, <1>2, <1>3, <1>5 DEF q

LEMMA FailedReadKeepsBase ==
  ASSUME Base, NEW c \in Copy, resolveFails(c)
  PROVE  Base'
<1> DEFINE q == Begun(Tail(io[c]), cache[c])
           r == io'[c]
           awaited == c \in shutdown.left
           op == pending[c].op
<1>1. /\ copy' = [copy EXCEPT ![c] = Closed] /\ copy'[c] = Closed
      /\ UNCHANGED <<disk, cache, backupFile, suspended, unrestored, isReady, shutdown, excused, owed, reused>>
      /\ Running(c, "resolve", "begun") /\ Line(q, cache[c])
      /\ \/ suspended /\ r = q /\ UNCHANGED <<pending, interrupted>>
         \/ /\ ~suspended /\ interrupted' = interrupted \cup {c}
            /\ pending' = [pending EXCEPT ![c] = [Idle EXCEPT !.op = "discard"]]
            /\ Line(r, cache[c]) /\ Added(r, q, discardTask("tracker"))
      /\ io' = [io EXCEPT ![c] = r]
  BY FailedEffect
<1>2. /\ copy \in [Copy -> WorkingCopy] /\ pending \in [Copy -> Operation]
      /\ Owned(io[c], op, copy[c].state, shutdown.phase, awaited)
      /\ suspended => op = "none"
  BY BaseOf
<1>3. Fewer(q, io[c]) /\ \A i \in 1..Len(q) : q[i].by = "shutdown"
  <2> DEFINE e == cache[c]
             x == Begun(Tail(io[c]), e)
  <2> HIDE DEF e
  <2>1. Running(c, "resolve", "begun")
    BY <1>1
  <2>2. Fewer(x, io[c]) /\ \A i \in 1..Len(x) : x[i].by = "shutdown"
    BY <2>1, ResolvedEffect
  <2> QED BY <2>2 DEF e
<1> HIDE DEF q, r
<1>4. CopyOK'
  BY <1>1, <1>2, Constants DEF CopyOK
<1>5. GhostsOK'
  <2>1. spent' \in [Kind -> Nat]
    BY Numbers, SpendEffect DEF resolveFails, Kind, Base, Typed, GhostsOK
  <2> QED BY <1>1, <2>1 DEF GhostsOK, Base, Typed
<1>6. PendingOK' /\ pending'[c].op \in {"none", "discard"} /\ (suspended => pending'[c].op = "none")
  <2>1. CASE suspended
    BY <1>1, <1>2, <2>1, TypesKept DEF Base
  <2>2. CASE ~suspended
    <3>1. pending' = [pending EXCEPT ![c] = [Idle EXCEPT !.op = "discard"]]
      BY <1>1, <2>2
    <3>2. pending' \in [Copy -> Operation] /\ [Idle EXCEPT !.op = "discard"].op = "discard"
      BY <1>2, <3>1, Constants DEF Idle
    <3> QED BY <1>2, <2>2, <3>1, <3>2, BaseOf DEF PendingOK
  <2> QED BY <2>1, <2>2
<1>7. Typed'
  BY <1>1, <1>4, <1>5, <1>6, TypesKept DEF Base, Typed
<1>8. Line(r, cache[c])
  BY <1>1
<1>9. Owned(q, pending'[c].op, "closed", shutdown.phase, awaited)
  <2> DEFINE op2 == pending'[c].op
  <2>1. \A i \in 2..Len(q) : q[i].by # "nobody"
    BY <1>1 DEF Line
  <2> HIDE DEF op, op2, awaited
  <2>2. Owned(q, op2, "closed", shutdown.phase, awaited)
    BY <1>2, <1>3, <2>1, OwnedFewer
  <2> QED BY <2>2 DEF op2
<1>10. Owned(r, pending'[c].op, "closed", shutdown.phase, awaited)
  <2>1. CASE suspended
    <3>1. r = q
      BY <1>1, <2>1
    <3> QED BY <1>9, <3>1
  <2>2. CASE ~suspended
    <3>1. Added(r, q, discardTask("tracker")) /\ pending'[c].op = "discard"
      BY <1>1, <1>2, <2>2 DEF Idle
    <3>2. Len(q) \in Nat
      BY <1>1, QueueElements DEF Line
    <3>3. discardTask("tracker").by = "tracker" /\ discardTask("tracker").kind = "discard"
      BY DEF discardTask
    <3> HIDE DEF discardTask, awaited
    <3>4. Owned(r, "discard", "closed", shutdown.phase, awaited)
      BY <1>3, <1>9, <3>1, <3>2, <3>3, OwnedAdded
    <3> QED BY <3>1, <3>4
  <2> QED BY <2>1, <2>2
<1>11. /\ Owned(r, pending'[c].op, copy'[c].state, shutdown'.phase, c \in shutdown'.left) /\ Line(r, cache'[c])
       /\ ~copy'[c].modified /\ ~copy'[c].reverting /\ copy'[c].version = 0
  BY <1>1, <1>8, <1>10 DEF Closed, awaited
<1>12. Single(c)
  BY DEF Single, InputOutput
<1> QED BY <1>1, <1>6, <1>7, <1>11, <1>12, LocalBase

\* Every step that concerns one copy keeps the base.
LEMMA SingleKeepsBase ==
  ASSUME Base, NEW c \in Copy, Single(c)
  PROVE  Base'
BY TimerKeepsBase, SnapshotKeepsBase, WritingKeepsBase, SettlingKeepsBase, EditingKeepsBase, SavingKeepsBase,
   RevertingKeepsBase, NotSavingKeepsBase, ClosingKeepsBase, OpeningKeepsBase, OpenedKeepsBase, FailedReadKeepsBase
   DEF Single, InputOutput, User, Failure

-----------------------------------------------------------------------------
(* Steps of the window *)

\* Without a task of the shutdown in a queue, its phase does not matter.
LEMMA OwnedInAnyPhase ==
  ASSUME NEW q, NEW op, NEW state, NEW phase, NEW awaited, Owned(q, op, state, phase, awaited),
         \A i \in 1..Len(q) : q[i].by # "shutdown", NEW phase2, NEW awaited2
  PROVE  Owned(q, op, state, phase2, awaited2)
BY DEF Owned

\* A shutdown has tasks only while it makes backups and when it discards them.
LEMMA NoShutdownTask ==
  ASSUME Base, NEW c \in Copy,
         \/ shutdown.phase \in {"running", "autosave", "confirm", "saving", "error", "wipe", "clear"}
         \/ shutdown.phase = "backup" /\ c \notin shutdown.left
  PROVE  \A i \in 1..Len(io[c]) : io[c][i].by # "shutdown"
BY BaseOf DEF Owned

\* What the end of a shutdown without a veto does.
LEMMA NoVetoEffect ==
  ASSUME Base, shutdown.phase \in {"autosave", "confirm", "saving"}, NEW discards \in SUBSET Copy, noVeto(discards)
  PROVE  /\ ShutdownOK' /\ io' \in [Copy -> Seq(Task)]
         /\ \/ shutdown'.phase = "discard" /\ isReady /\ suspended' = suspended /\ shutdown'.left = discards
            \/ shutdown'.phase = "decided" /\ suspended' = FALSE
         /\ \A c \in Copy : /\ Line(io'[c], cache[c])
                            /\ Owned(io'[c], pending[c].op, copy[c].state, shutdown'.phase, c \in shutdown'.left)
                            /\ \/ io'[c] = io[c]
                               \/ /\ Added(io'[c], io[c], discardTask("shutdown"))
                                  /\ c \in discards /\ shutdown'.phase = "discard"
<1>1. shutdown \in Shutdown /\ io \in [Copy -> Seq(Task)]
  BY DEF Base, Typed, ShutdownOK, Queues
<1>2. CASE isReady /\ UNCHANGED suspended
           /\ io' = [c \in Copy |-> IF c \in discards THEN Queued(io[c], cache[c], discardTask("shutdown")) ELSE io[c]]
           /\ shutdown' = [shutdown EXCEPT !.phase = "discard", !.left = discards]
  <2>1. ShutdownOK' /\ shutdown'.phase = "discard" /\ shutdown'.left = discards
    BY <1>1, <1>2 DEF ShutdownOK, Shutdown, Phase
  <2>2. ASSUME NEW c \in Copy
        PROVE  /\ Line(io'[c], cache[c])
               /\ Owned(io'[c], pending[c].op, copy[c].state, "discard", c \in discards)
               /\ \/ io'[c] = io[c]
                  \/ Added(io'[c], io[c], discardTask("shutdown")) /\ c \in discards
    <3> DEFINE op == pending[c].op
               state == copy[c].state
               awaited == c \in discards
               r == Queued(io[c], cache[c], discardTask("shutdown"))
    <3>1. /\ Line(io[c], cache[c]) /\ io[c] \in Seq(Task)
          /\ Owned(io[c], op, state, shutdown.phase, c \in shutdown.left)
      BY BaseOf
    <3>2. \A i \in 1..Len(io[c]) : io[c][i].by # "shutdown"
      BY NoShutdownTask
    <3> HIDE DEF op, state, awaited
    <3>3. Owned(io[c], op, state, "discard", awaited)
      BY <3>1, <3>2 DEF Owned
    <3>4. Line(r, cache[c]) /\ Added(r, io[c], discardTask("shutdown"))
      BY <3>1, <3>2, QueuedDiscard
    <3> HIDE DEF r
    <3>5. Owned(r, op, state, "discard", awaited)
      <4>1. Len(io[c]) \in Nat
        BY <3>1, QueueElements
      <4>2. discardTask("shutdown").by = "shutdown" /\ discardTask("shutdown").kind = "discard"
        BY DEF discardTask
      <4> HIDE DEF discardTask
      <4> QED BY <3>3, <3>4, <4>1, <4>2, OwnedAdded
    <3>6. io'[c] = IF c \in discards THEN r ELSE io[c]
      BY <1>2 DEF r
    <3> QED BY <3>1, <3>3, <3>4, <3>5, <3>6 DEF op, state, awaited
  <2>3. io' \in [Copy -> Seq(Task)]
    <3>1. \A c \in Copy : io'[c] \in Seq(Task)
      BY <2>2 DEF Line
    <3> QED BY <1>2, <3>1
  <2> QED BY <1>2, <2>1, <2>2, <2>3
<1>3. CASE Decide(FALSE) /\ UNCHANGED io
  <2>1. shutdown' = [NoShutdown EXCEPT !.phase = "decided"] /\ suspended' = FALSE /\ io' = io
    BY <1>3 DEF Decide
  <2>2. ShutdownOK' /\ shutdown'.phase = "decided"
    BY <2>1, Constants DEF ShutdownOK, NoShutdown, Shutdown, Phase
  <2>3. ASSUME NEW c \in Copy
        PROVE  /\ Line(io'[c], cache[c])
               /\ Owned(io'[c], pending[c].op, copy[c].state, "decided", c \in shutdown'.left)
    <3>1. \A i \in 1..Len(io[c]) : io[c][i].by # "shutdown"
      BY NoShutdownTask
    <3>2. /\ Line(io[c], cache[c])
          /\ Owned(io[c], pending[c].op, copy[c].state, shutdown.phase, c \in shutdown.left)
      BY BaseOf
    <3> QED BY <2>1, <3>1, <3>2 DEF Owned
  <2> QED BY <1>1, <2>1, <2>2, <2>3
<1> QED BY <1>2, <1>3 DEF noVeto

\* What is backed up is modified.
LEMMA BackedUpIsModified ==
  ASSUME NEW reason \in {"CLOSE", "QUIT", "RELOAD", "LOAD"}, NEW m
  PROVE  shouldBackupBeforeShutdown(reason, m) \subseteq m
<1>1. hotExit \in {"off", "onExit", "onExitAndWindowClose"}
  BY ConfigurationAssumption
<1> QED BY <1>1 DEF shouldBackupBeforeShutdown

\* The copies that are modified are open, and their backups are queued
\* behind what there is.
LEMMA HandleEffect ==
  ASSUME Base, NEW sh \in Shutdown, NEW q \in [Copy -> Seq(Task)], NEW m, m = modifiedWorkingCopies(copy),
         \A c \in Copy : Line(q[c], cache[c]) /\ \A i \in 1..Len(q[c]) : q[c][i].by # "shutdown",
         \A c \in Copy : copy[c].state = "open" => \A i \in 1..Len(q[c]) : q[c][i].by # "open",
         handleModifiedBeforeShutdown(sh, m, q)
  PROVE  /\ ShutdownOK' /\ io' \in [Copy -> Seq(Task)]
         /\ shutdown'.phase \in {"confirm", "backup"} /\ shutdown'.list = m
         /\ \A c \in shutdown'.backups : shutdown'.phase = "backup" /\ c \in m /\ hasBackupSync(c)
         /\ \A c \in Copy :
              /\ Line(io'[c], cache[c])
              /\ \/ io'[c] = q[c]
                 \/ /\ Added(io'[c], q[c], backupTask(copy[c].content, copy[c].version, copy[c].stat, "shutdown"))
                    /\ shutdown'.phase = "backup" /\ c \in shutdown'.left /\ c \in m /\ ~hasBackupSync(c)
<1> DEFINE toBackup == shouldBackupBeforeShutdown(sh.reason, m)
           missing == {c \in toBackup : ~hasBackupSync(c)}
           task(c) == backupTask(copy[c].content, copy[c].version, copy[c].stat, "shutdown")
<1>1. toBackup \subseteq m /\ m \subseteq Copy /\ \A c \in m : copy[c].modified
  BY BackedUpIsModified DEF Shutdown, modifiedWorkingCopies
<1>2. /\ io' = [c \in Copy |-> IF c \in missing THEN Queued(q[c], cache[c], task(c)) ELSE q[c]]
      /\ shutdown' = [sh EXCEPT !.phase = IF toBackup = {} THEN "confirm" ELSE "backup",
                                !.list = m, !.left = missing, !.backups = toBackup \ missing, !.error = FALSE]
  BY DEF handleModifiedBeforeShutdown
<1>3. /\ missing \subseteq Copy /\ missing \subseteq m /\ toBackup \ missing \subseteq Copy
      /\ \A c \in missing : toBackup # {} /\ ~hasBackupSync(c)
      /\ \A c \in toBackup \ missing : toBackup # {} /\ c \in m /\ hasBackupSync(c)
  BY <1>1
<1> HIDE DEF toBackup, missing
<1>4. /\ ShutdownOK' /\ shutdown'.phase = (IF toBackup = {} THEN "confirm" ELSE "backup") /\ shutdown'.list = m
      /\ shutdown'.left = missing /\ shutdown'.backups = toBackup \ missing
  BY <1>1, <1>2, <1>3 DEF ShutdownOK, Shutdown, Phase
<1>5. ASSUME NEW c \in Copy, c \in missing
      PROVE  /\ Line(Queued(q[c], cache[c], task(c)), cache[c])
             /\ Added(Queued(q[c], cache[c], task(c)), q[c], task(c))
  <2>1. copy[c] \in WorkingCopy
    BY BaseOf
  <2>2. copy[c].content \in Content /\ copy[c].version \in Nat /\ copy[c].stat \in Meta
    BY <2>1 DEF WorkingCopy
  <2>3. ~has(cache[c], copy[c].version, copy[c].stat)
    BY <1>3, <1>5 DEF has, hasBackupSync
  <2> QED BY <2>2, <2>3, QueuedBackup
<1>6. ASSUME NEW c \in Copy
      PROVE  /\ Line(io'[c], cache[c])
             /\ \/ io'[c] = q[c]
                \/ Added(io'[c], q[c], task(c)) /\ c \in missing
  <2> HIDE DEF task
  <2>1. io'[c] = IF c \in missing THEN Queued(q[c], cache[c], task(c)) ELSE q[c]
    BY <1>2
  <2> QED BY <1>5, <2>1
<1>7. io' \in [Copy -> Seq(Task)]
  <2>1. \A c \in Copy : io'[c] \in Seq(Task)
    BY <1>6 DEF Line
  <2> QED BY <1>2, <2>1
<1> QED BY <1>3, <1>4, <1>6, <1>7

\* Who owns the tasks then.
LEMMA HandleOwners ==
  ASSUME Base, NEW sh \in Shutdown, NEW q \in [Copy -> Seq(Task)], NEW m, m = modifiedWorkingCopies(copy),
         \A c \in Copy : Line(q[c], cache[c]) /\ \A i \in 1..Len(q[c]) : q[c][i].by # "shutdown",
         \A c \in Copy : copy[c].state = "open" => \A i \in 1..Len(q[c]) : q[c][i].by # "open",
         handleModifiedBeforeShutdown(sh, m, q),
         NEW c \in Copy, NEW op, Owned(q[c], op, copy[c].state, "confirm", FALSE)
  PROVE  Owned(io'[c], op, copy[c].state, shutdown'.phase, c \in shutdown'.left)
<1> DEFINE state == copy[c].state
           phase == shutdown'.phase
           awaited == c \in shutdown'.left
           r == io'[c]
           t == backupTask(copy[c].content, copy[c].version, copy[c].stat, "shutdown")
           p == q[c]
<1>1. \/ r = p
      \/ Added(r, p, t) /\ phase = "backup" /\ awaited /\ c \in m
  BY HandleEffect
<1>2. \A i \in 1..Len(p) : p[i].by # "shutdown"
  OBVIOUS
<1>3. Owned(p, op, state, phase, awaited)
  BY <1>2 DEF Owned
<1>4. t.by = "shutdown" /\ t.kind = "backup"
  BY DEF backupTask
<1>5. c \in m => \A i \in 1..Len(p) : p[i].by # "open"
  BY BaseOf DEF modifiedWorkingCopies
<1>6. p \in Seq(Task)
  OBVIOUS
<1>7. Len(p) \in Nat
  BY <1>6, QueueElements
<1> HIDE DEF state, phase, awaited, r, t, p
<1>8. Owned(r, op, state, phase, awaited)
  BY <1>1, <1>3, <1>4, <1>5, <1>7, OwnedAdded
<1> QED BY <1>8 DEF state, phase, awaited, r

\* A step of the window keeps the base if it keeps the types, the queues and
\* their owners, and the tracker is suspended when it should be.
LEMMA WindowBase ==
  ASSUME Base, Typed', io' \in [Copy -> Seq(Task)],
         \A c \in Copy : Line(io'[c], cache'[c]),
         \A c \in Copy : Owned(io'[c], pending'[c].op, copy'[c].state, shutdown'.phase, c \in shutdown'.left),
         \A c \in Copy : /\ copy'[c].state = copy[c].state /\ copy'[c].reverting = copy[c].reverting
                         /\ copy'[c].version = copy[c].version /\ (copy'[c].modified => copy[c].modified)
                         /\ pending'[c].op \in {pending[c].op, "none"},
         shutdown'.phase # "gone" => (suspended' <=> shutdown'.phase \notin {"running", "decided"}),
         \A c \in Copy : suspended' => pending'[c].op = "none"
  PROVE  Base'
<1>1. Queues' /\ Owners'
  BY DEF Queues, Owners
<1>2. Dormant'
  BY BaseOf DEF Dormant
<1>3. Suspension'
  BY DEF Suspension, Alive
<1> QED BY <1>1, <1>2, <1>3 DEF Base

\* The same where only the phase changes.
LEMMA PhaseBase ==
  ASSUME Base, Typed', UNCHANGED <<copy, pending, io, cache>>,
         \/ \A c \in Copy : \A i \in 1..Len(io[c]) : io[c][i].by # "shutdown"
         \/ shutdown'.phase = "gone"
         \/ shutdown.phase = "discard" /\ shutdown'.phase = "decided"
         \/ shutdown'.phase = shutdown.phase /\ shutdown.phase # "backup"
         \/ shutdown' = shutdown,
         shutdown'.phase # "gone" => (suspended' <=> shutdown'.phase \notin {"running", "decided"}),
         suspended' => suspended
  PROVE  Base'
<1>1. io' \in [Copy -> Seq(Task)] /\ \A c \in Copy : Line(io'[c], cache'[c])
  BY DEF Base, Queues
<1>2. \A c \in Copy : Owned(io'[c], pending'[c].op, copy'[c].state, shutdown'.phase, c \in shutdown'.left)
  <2> SUFFICES ASSUME NEW c \in Copy
               PROVE  Owned(io[c], pending[c].op, copy[c].state, shutdown'.phase, c \in shutdown'.left)
    OBVIOUS
  <2>1. Owned(io[c], pending[c].op, copy[c].state, shutdown.phase, c \in shutdown.left)
    BY BaseOf
  <2> QED BY <2>1 DEF Owned
<1>3. \A c \in Copy : suspended' => pending'[c].op = "none"
  BY BaseOf
<1> QED BY <1>1, <1>2, <1>3, WindowBase

\* The veto is known.
LEMMA DecideEffect ==
  ASSUME NEW veto \in BOOLEAN, Decide(veto)
  PROVE  /\ ShutdownOK' /\ suspended' = FALSE
         /\ shutdown'.phase = IF veto THEN "running" ELSE "decided"
<1>1. [NoShutdown EXCEPT !.phase = "decided"] \in Shutdown /\ [NoShutdown EXCEPT !.phase = "decided"].phase = "decided"
  BY Constants DEF Shutdown, Phase
<1>2. NoShutdown \in Shutdown /\ NoShutdown.phase = "running"
  BY Constants DEF NoShutdown
<1> QED BY <1>1, <1>2 DEF Decide, ShutdownOK

LEMMA DecidingKeepsBase ==
  ASSUME Base,
         confirmCancel \/ showErrorDialog \/ notDiscardedBackups \/ discarded
  PROVE  Base'
<1>1. /\ UNCHANGED <<copy, disk, pending, unrestored, isReady, service, owed, reused>>
      /\ \E veto \in BOOLEAN : Decide(veto) /\ (shutdown.phase = "discard" => ~veto)
      /\ shutdown.phase \in {"confirm", "error", "wipe", "discard"}
  BY DEF confirmCancel, showErrorDialog, notDiscardedBackups, discarded, ghosts
<1>2. /\ ShutdownOK' /\ suspended' = FALSE /\ shutdown'.phase \in {"running", "decided"}
      /\ shutdown.phase = "discard" => shutdown'.phase = "decided"
  BY <1>1, DecideEffect
<1>3. GhostsOK'
  <2>1. spent' \in [Kind -> Nat]
    BY Numbers, SpendEffect DEF confirmCancel, showErrorDialog, notDiscardedBackups, discarded, ghosts, Kind,
                                Base, Typed, GhostsOK
  <2>2. interrupted' \subseteq Copy
    BY DEF confirmCancel, showErrorDialog, notDiscardedBackups, discarded, ghosts, Base, Typed, GhostsOK
  <2>3. excused' \subseteq Copy
    <3>1. excused \subseteq Copy /\ shutdown.list \subseteq Copy
      BY DEF Base, Typed, GhostsOK, ShutdownOK, Shutdown
    <3> QED BY <3>1 DEF confirmCancel, showErrorDialog, notDiscardedBackups, discarded, ghosts
  <2> QED BY <1>1, <2>1, <2>2, <2>3 DEF GhostsOK, Base, Typed
<1>4. FlagsOK'
  BY <1>1, <1>2 DEF FlagsOK, Base, Typed
<1>5. Typed'
  BY <1>1, <1>2, <1>3, <1>4, TypesKept DEF Base, Typed, service
<1>6. shutdown.phase # "discard" => \A c \in Copy : \A i \in 1..Len(io[c]) : io[c][i].by # "shutdown"
  BY <1>1, NoShutdownTask
<1> QED BY <1>1, <1>2, <1>5, <1>6, PhaseBase DEF service

LEMMA BackedUpKeepsBase ==
  ASSUME Base, backedUp
  PROVE  Base'
<1>1. /\ UNCHANGED <<copy, disk, pending, unrestored, isReady, service, ghosts>>
      /\ shutdown.phase = "backup" /\ shutdown.left = {}
  BY DEF backedUp
<1>2. suspended /\ shutdown \in Shutdown
  BY <1>1 DEF Base, Suspension, Alive, Typed, ShutdownOK
<1>3. ShutdownOK' /\ suspended' \in BOOLEAN /\ (suspended' <=> shutdown'.phase \notin {"running", "decided"})
  <2>1. CASE Decide(FALSE)
    BY <2>1, DecideEffect
  <2>2. CASE /\ shutdown' = [shutdown EXCEPT !.phase = IF shutdown.error THEN "error" ELSE "confirm",
                                             !.list = @ \ shutdown.backups]
             /\ UNCHANGED suspended
    <3>1. ShutdownOK' /\ shutdown'.phase \in {"error", "confirm"}
      BY <1>2, <2>2 DEF ShutdownOK, Shutdown, Phase
    <3> QED BY <1>2, <2>2, <3>1 DEF Base, Typed, FlagsOK
  <2> QED BY <2>1, <2>2 DEF backedUp
<1>4. Typed'
  BY <1>1, <1>3, TypesKept DEF Base, Typed, service, ghosts, FlagsOK
<1>5. \A c \in Copy : \A i \in 1..Len(io[c]) : io[c][i].by # "shutdown"
  BY <1>1, NoShutdownTask
<1> QED BY <1>1, <1>2, <1>3, <1>4, <1>5, PhaseBase DEF service

LEMMA ConfirmSaveKeepsBase ==
  ASSUME Base, confirmSave
  PROVE  Base'
<1>1. /\ UNCHANGED <<copy, disk, tracker, service, ghosts>> /\ shutdown.phase = "confirm"
      /\ shutdown' = [shutdown EXCEPT !.phase = "saving", !.left = shutdown.list,
                                      !.count = Cardinality(modifiedWorkingCopies(copy))]
  BY DEF confirmSave
<1>2. Cardinality(modifiedWorkingCopies(copy)) \in Nat
  <2>1. modifiedWorkingCopies(copy) \subseteq Copy /\ IsFiniteSet(Copy)
    BY ConfigurationAssumption DEF modifiedWorkingCopies
  <2>2. IsFiniteSet(modifiedWorkingCopies(copy))
    BY <2>1, FS_Subset
  <2> QED BY <2>2, FS_CardinalityType
<1>3. shutdown \in Shutdown /\ suspended
  BY <1>1 DEF Base, Typed, ShutdownOK, Suspension, Alive
<1>4. ShutdownOK' /\ shutdown'.phase = "saving"
  BY <1>1, <1>2, <1>3 DEF ShutdownOK, Shutdown, Phase
<1>5. Typed'
  BY <1>1, <1>4, TypesKept DEF Base, Typed, service, ghosts, tracker
<1>6. \A c \in Copy : \A i \in 1..Len(io[c]) : io[c][i].by # "shutdown"
  BY <1>1, NoShutdownTask
<1> QED BY <1>1, <1>3, <1>4, <1>5, <1>6, PhaseBase DEF service, tracker

LEMMA DiscardingKeepsBase ==
  ASSUME Base, discardBackups
  PROVE  Base'
<1>1. /\ UNCHANGED <<copy, disk, tracker, io, cache, excused, spent, reused>> /\ shutdown.phase = "wipe"
      /\ shutdown' = [shutdown EXCEPT !.phase = "clear"] /\ backupFile' = [c \in Copy |-> NoBackup]
      /\ interrupted' \subseteq Copy /\ owed' \in [Copy -> Content \cup {Nothing}]
  BY DEF discardBackups, Base, Typed, GhostsOK, modifiedWorkingCopies
<1>2. shutdown \in Shutdown /\ suspended
  BY <1>1 DEF Base, Typed, ShutdownOK, Suspension, Alive
<1>3. ShutdownOK' /\ shutdown'.phase = "clear"
  BY <1>1, <1>2 DEF ShutdownOK, Shutdown, Phase
<1>4. FileOK'
  BY <1>1, Constants DEF FileOK, NoBackup
<1>5. GhostsOK'
  BY <1>1 DEF GhostsOK, Base, Typed
<1>6. Typed'
  BY <1>1, <1>3, <1>4, <1>5, TypesKept DEF Base, Typed, tracker
<1>7. \A c \in Copy : \A i \in 1..Len(io[c]) : io[c][i].by # "shutdown"
  BY <1>1, NoShutdownTask
<1> QED BY <1>1, <1>2, <1>3, <1>6, <1>7, PhaseBase DEF tracker

LEMMA GoneKeepsBase ==
  ASSUME Base, joinBackups \/ crash
  PROVE  Base'
<1>1. /\ UNCHANGED <<copy, disk, tracker, service, interrupted, excused, reused>>
      /\ shutdown' = [NoShutdown EXCEPT !.phase = "gone"]
      /\ \E orderly \in BOOLEAN : owed' = [c \in Copy |->
       IF copy[c].state # "open" THEN owed[c]
       ELSE IF copy[c].modified /\ IF orderly THEN c \notin excused \cup reused ELSE Quiet(c) THEN copy[c].content
       ELSE IF ~copy[c].modified /\ Quiet(c) /\ (orderly => c \notin excused) THEN disk[c].content
       ELSE Nothing]
  BY DEF joinBackups, crash, Gone
<1>2. ShutdownOK' /\ shutdown'.phase = "gone"
  BY <1>1, Constants DEF ShutdownOK, NoShutdown, Shutdown, Phase
<1>3. owed' \in [Copy -> Content \cup {Nothing}]
  <2>1. /\ \A c \in Copy : copy[c] \in WorkingCopy /\ disk[c] \in [content : Content, mtime : Nat]
        /\ owed \in [Copy -> Content \cup {Nothing}]
    BY BaseOf DEF Base, Typed, GhostsOK
  <2>2. \A c \in Copy : copy[c].content \in Content /\ disk[c].content \in Content /\ owed[c] \in Content \cup {Nothing}
    BY <2>1 DEF WorkingCopy
  <2> QED BY <1>1, <2>2
<1>4. spent' \in [Kind -> Nat]
  BY Numbers, SpendEffect DEF joinBackups, crash, Kind, Base, Typed, GhostsOK
<1>5. GhostsOK'
  BY <1>1, <1>3, <1>4 DEF GhostsOK, Base, Typed
<1>6. Typed'
  BY <1>1, <1>2, <1>5, TypesKept DEF Base, Typed, tracker, service
<1> QED BY <1>1, <1>2, <1>6, PhaseBase DEF tracker, service

LEMMA RestoringKeepsBase ==
  ASSUME Base, resolveBackupsToRestore \/ restoreBackups
  PROVE  Base'
<1>1. UNCHANGED <<copy, disk, pending, suspended, io, backupFile, shutdown, reused, excused, owed, spent>> /\ Alive
  BY DEF resolveBackupsToRestore, restoreBackups, service, ghosts
<1>2. FlagsOK'
  BY <1>1 DEF resolveBackupsToRestore, restoreBackups, FlagsOK, Base, Typed
<1>3. CacheOK' /\ \A c \in Copy : Line(io[c], cache'[c])
  <2>1. CASE resolveBackupsToRestore
    <3>1. /\ cache' = [c \in Copy |-> IF resolve(c) THEN [cache[c] EXCEPT !.meta = backupFile[c].meta] ELSE cache[c]]
          /\ \A c \in Copy : io[c] = <<>>
      BY <2>1 DEF resolveBackupsToRestore
    <3>2. \A c \in Copy : cache[c] \in Entry /\ backupFile[c] \in BackupFile
      BY BaseOf
    <3>3. \A c \in Copy : [cache[c] EXCEPT !.meta = backupFile[c].meta] \in Entry
      BY <3>2 DEF BackupFile, Entry
    <3>4. CacheOK'
      BY <3>1, <3>2, <3>3 DEF CacheOK
    <3>5. <<>> \in Seq(Task) /\ Len(<<>>) = 0 /\ 1..0 = {} /\ 2..0 = {}
      BY EmptySeq
    <3> QED BY <3>1, <3>4, <3>5 DEF Line
  <2>2. CASE restoreBackups
    BY <2>2, TypesKept DEF restoreBackups, service, Base, Typed, Queues
  <2> QED BY <2>1, <2>2
<1>4. Typed'
  <2>1. GhostsOK'
    BY <1>1 DEF resolveBackupsToRestore, restoreBackups, ghosts, Base, Typed, GhostsOK, FlagsOK
  <2> QED BY <1>1, <1>2, <1>3, <2>1, TypesKept DEF Base, Typed
<1>5. io' \in [Copy -> Seq(Task)] /\ \A c \in Copy : Line(io'[c], cache'[c])
  BY <1>1, <1>3 DEF Base, Queues
<1>6. /\ \A c \in Copy : Owned(io'[c], pending'[c].op, copy'[c].state, shutdown'.phase, c \in shutdown'.left)
      /\ \A c \in Copy : suspended' => pending'[c].op = "none"
  BY <1>1, BaseOf
<1>7. suspended' <=> shutdown'.phase \notin {"running", "decided"}
  BY <1>1 DEF Base, Suspension
<1> QED BY <1>1, <1>4, <1>5, <1>6, <1>7, WindowBase

LEMMA DiscardedKeepsBase ==
  ASSUME Base, discardedBackups
  PROVE  Base'
<1>1. /\ UNCHANGED <<copy, disk, pending, unrestored, isReady, io, backupFile, ghosts>>
      /\ cache' = [c \in Copy |-> NoEntry] /\ Decide(FALSE) /\ shutdown.phase = "clear"
  BY DEF discardedBackups
<1>2. ShutdownOK' /\ suspended' = FALSE /\ shutdown'.phase = "decided"
  BY <1>1, DecideEffect
<1>3. CacheOK'
  BY <1>1, Constants DEF CacheOK
<1>4. FlagsOK'
  BY <1>1, <1>2 DEF FlagsOK, Base, Typed
<1>5. Typed'
  BY <1>1, <1>2, <1>3, <1>4, TypesKept DEF Base, Typed, ghosts
<1>6. \A c \in Copy : Line(io'[c], cache'[c])
  <2> SUFFICES ASSUME NEW c \in Copy PROVE Line(io[c], NoEntry)
    BY <1>1
  <2>1. Line(io[c], cache[c]) /\ \A t : Needed(t, NoEntry)
    BY BaseOf DEF Needed, has, NoEntry
  <2> QED BY <2>1 DEF Line
<1>7. \A c \in Copy : Owned(io'[c], pending'[c].op, copy'[c].state, shutdown'.phase, c \in shutdown'.left)
  <2> SUFFICES ASSUME NEW c \in Copy
               PROVE  Owned(io[c], pending[c].op, copy[c].state, shutdown'.phase, c \in shutdown'.left)
    BY <1>1
  <2>1. Owned(io[c], pending[c].op, copy[c].state, shutdown.phase, c \in shutdown.left)
    BY BaseOf
  <2>2. \A i \in 1..Len(io[c]) : io[c][i].by # "shutdown"
    BY <1>1, NoShutdownTask
  <2> QED BY <2>1, <2>2 DEF Owned
<1>8. io' \in [Copy -> Seq(Task)]
  BY <1>1 DEF Base, Queues
<1> QED BY <1>1, <1>2, <1>5, <1>6, <1>7, <1>8, WindowBase

\* The tasks of who are cancelled in every queue.
LEMMA CancelEffect ==
  ASSUME Base, NEW who \in {"tracker", "shutdown"}, NEW c \in Copy, NEW r, r = Cancelled(io[c], who),
         NEW op, NEW phase, NEW awaited,
         who # "tracker" => op = pending[c].op,
         who # "shutdown" => /\ phase = shutdown.phase \/ phase \in {"confirm", "gone"}
                             /\ phase = shutdown.phase => (awaited <=> c \in shutdown.left)
                             /\ phase = "confirm" => \A i \in 1..Len(io[c]) : io[c][i].by # "shutdown"
  PROVE  /\ Line(r, cache[c]) /\ r \in Seq(Task) /\ Cut(r, io[c], who)
         /\ \A i \in 1..Len(r) : r[i].by # who
         /\ Owned(r, op, copy[c].state, phase, awaited)
         /\ \A i \in 1..Len(r) : \E j \in 1..Len(io[c]) : r[i].by \in {io[c][j].by, "nobody"}
<1> DEFINE state == copy[c].state
           before == c \in shutdown.left
           q == io[c]
           old == pending[c].op
<1>1. Line(q, cache[c]) /\ Owned(q, old, state, shutdown.phase, before) /\ q \in Seq(Task)
  BY BaseOf
<1>2. Line(r, cache[c]) /\ Cut(r, q, who) /\ \A i \in 1..Len(r) : r[i].by # who
  BY <1>1, CancelledEffect
<1>3. r \in Seq(Task) /\ Fewer(r, q) /\ \A i \in 2..Len(r) : r[i].by # "nobody"
  <2> HIDE DEF q
  <2> QED BY <1>1, <1>2, CutFewer DEF Line
<1>4. PICK h \in [1..Len(r) -> 1..Len(q)] :
        \A i \in 1..Len(r) : Kin(r[i], q[h[i]]) /\ r[i].by \in {q[h[i]].by, "nobody"}
  BY <1>3 DEF Fewer
<1>5. \A i \in 1..Len(r) : \E j \in 1..Len(q) : r[i].by \in {q[j].by, "nobody"}
  BY <1>4
<1>6. Owned(r, op, state, phase, awaited)
  <2>1. (who = "shutdown" \/ phase = "confirm") => \A i \in 1..Len(r) : r[i].by # "shutdown"
    BY <1>2, <1>4
  <2>2. \A i \in 1..Len(r) : r[i].by = "tracker" => op = old
    BY <1>2
  <2>3. ~(who = "shutdown" \/ phase = "confirm") => /\ phase = shutdown.phase \/ phase = "gone"
                                                    /\ phase = shutdown.phase => (before => awaited)
    OBVIOUS
  <2> HIDE DEF state, before, q, old
  <2>4. \A i \in 1..Len(r) : /\ r[i].by = "tracker" => op = old
                             /\ r[i].by = "shutdown" => /\ phase = shutdown.phase \/ phase = "gone"
                                                        /\ phase = shutdown.phase => (before => awaited)
    BY <2>1, <2>2, <2>3
  <2> QED BY <1>1, <1>3, <2>4, OwnedFewer
<1> QED BY <1>2, <1>3, <1>5, <1>6

LEMMA CancelProgressKeepsBase ==
  ASSUME Base, cancelProgress
  PROVE  Base'
<1>1. /\ UNCHANGED <<copy, disk, tracker, cache, backupFile, interrupted, excused, owed, reused>>
      /\ shutdown.phase \in {"autosave", "saving", "backup", "discard"} /\ spent' \in [Kind -> Nat]
  BY Numbers, SpendEffect DEF cancelProgress, Kind
<1>2. GhostsOK'
  BY <1>1 DEF GhostsOK, Base, Typed
<1>3. shutdown \in Shutdown /\ suspended
  BY <1>1 DEF Base, Typed, ShutdownOK, Suspension, Alive
<1>4. CASE shutdown.phase = "backup"
  <2>1. /\ io' = [c \in Copy |-> Cancelled(io[c], "shutdown")]
        /\ shutdown' = [shutdown EXCEPT !.phase = "confirm", !.list = @ \ shutdown.backups, !.left = {}]
    BY <1>4 DEF cancelProgress
  <2>2. ShutdownOK' /\ shutdown'.phase = "confirm"
    BY <1>3, <2>1 DEF ShutdownOK, Shutdown, Phase
  <2>3. Typed'
    BY <1>1, <1>2, <2>2, TypesKept DEF Base, Typed, tracker
  <2>4. ASSUME NEW c \in Copy
        PROVE  /\ Line(io'[c], cache[c]) /\ io'[c] \in Seq(Task)
               /\ Owned(io'[c], pending[c].op, copy[c].state, "confirm", FALSE)
    <3> DEFINE r == io'[c]
    <3>1. r = Cancelled(io[c], "shutdown")
      BY <2>1
    <3> HIDE DEF r
    <3>2. /\ Line(r, cache[c]) /\ r \in Seq(Task)
          /\ Owned(r, pending[c].op, copy[c].state, "confirm", FALSE)
      BY <3>1, CancelEffect
    <3> QED BY <3>2 DEF r
  <2>5. io' \in [Copy -> Seq(Task)]
    BY <2>1, <2>4
  <2>6. \A c \in Copy : Owned(io'[c], pending'[c].op, copy'[c].state, shutdown'.phase, c \in shutdown'.left)
    BY <1>1, <2>2, <2>4 DEF Owned, tracker
  <2>7. \A c \in Copy : suspended' => pending'[c].op = "none"
    BY <1>1, BaseOf DEF tracker
  <2> QED BY <1>1, <1>3, <2>2, <2>3, <2>4, <2>5, <2>6, <2>7, WindowBase DEF tracker
<1>5. CASE shutdown.phase # "backup"
  <2>1. shutdown' = [shutdown EXCEPT !.left = {}] /\ io' = io
    BY <1>5 DEF cancelProgress
  <2>2. ShutdownOK' /\ shutdown'.phase = shutdown.phase
    BY <1>3, <2>1 DEF ShutdownOK, Shutdown
  <2>3. Typed'
    BY <1>1, <1>2, <2>2, TypesKept DEF Base, Typed, tracker
  <2> QED BY <1>1, <1>3, <1>5, <2>1, <2>2, <2>3, PhaseBase DEF tracker
<1> QED BY <1>4, <1>5

\* The shutdown ends without a veto.
LEMMA NoVetoKeepsBase ==
  ASSUME Base, confirmDontSave \/ confirmedSaves
  PROVE  Base'
<1>1. /\ UNCHANGED <<disk, pending, unrestored, isReady, cache, backupFile, reused, owed, spent>>
      /\ shutdown.phase \in {"confirm", "saving"}
      /\ \/ noVeto(shutdown.list)
         \/ Decide(TRUE) /\ io' = io /\ copy' = copy
  BY DEF confirmDontSave, confirmedSaves
<1>2. shutdown \in Shutdown /\ suspended /\ shutdown.list \in SUBSET Copy
  BY <1>1 DEF Base, Typed, ShutdownOK, Suspension, Alive, Shutdown
<1>3. /\ CopyOK'
      /\ \A c \in Copy : /\ copy'[c].state = copy[c].state /\ copy'[c].reverting = copy[c].reverting
                         /\ copy'[c].version = copy[c].version /\ (copy'[c].modified => copy[c].modified)
  <2>1. CASE confirmDontSave
    <3>1. copy' = [c \in Copy |-> IF c \in shutdown.list /\ copy[c].modified
                                  THEN [copy[c] EXCEPT !.modified = FALSE, !.undoable = FALSE] ELSE copy[c]]
      BY <2>1 DEF confirmDontSave
    <3>2. ASSUME NEW c \in Copy
          PROVE  /\ copy'[c] \in WorkingCopy
                 /\ copy'[c].state = copy[c].state /\ copy'[c].reverting = copy[c].reverting
                 /\ copy'[c].version = copy[c].version /\ (copy'[c].modified => copy[c].modified)
      <4>1. copy[c] \in WorkingCopy
        BY BaseOf
      <4>2. copy'[c] \in {copy[c], [copy[c] EXCEPT !.modified = FALSE, !.undoable = FALSE]}
        BY <3>1
      <4> QED BY <4>1, <4>2 DEF WorkingCopy
    <3> QED BY <3>1, <3>2 DEF CopyOK
  <2>2. CASE confirmedSaves
    <3>1. copy' = copy
      BY <2>2 DEF confirmedSaves
    <3> QED BY <3>1, TypesKept DEF Base
  <2> QED BY <1>1, <2>1, <2>2
<1>4. GhostsOK'
  <2>1. interrupted' \subseteq Copy
    BY <1>2 DEF confirmDontSave, confirmedSaves, Base, Typed, GhostsOK
  <2>2. excused' \subseteq Copy
    BY <1>2 DEF confirmDontSave, confirmedSaves, Base, Typed, GhostsOK
  <2> QED BY <1>1, <2>1, <2>2 DEF GhostsOK, Base, Typed
<1>5. /\ ShutdownOK' /\ io' \in [Copy -> Seq(Task)]
      /\ suspended' \in BOOLEAN /\ (suspended' <=> shutdown'.phase \notin {"running", "decided"})
      /\ \A c \in Copy : /\ Line(io'[c], cache[c])
                         /\ Owned(io'[c], pending[c].op, copy[c].state, shutdown'.phase, c \in shutdown'.left)
  <2>1. CASE noVeto(shutdown.list)
    <3>1. /\ ShutdownOK' /\ io' \in [Copy -> Seq(Task)]
          /\ \/ shutdown'.phase = "discard" /\ suspended' = suspended
             \/ shutdown'.phase = "decided" /\ suspended' = FALSE
          /\ \A c \in Copy : /\ Line(io'[c], cache[c])
                             /\ Owned(io'[c], pending[c].op, copy[c].state, shutdown'.phase, c \in shutdown'.left)
      <4> DEFINE list == shutdown.list
      <4>1. list \in SUBSET Copy /\ noVeto(list)
        BY <1>2, <2>1
      <4> HIDE DEF list
      <4> QED BY <1>1, <4>1, NoVetoEffect
    <3> QED BY <1>2, <3>1 DEF Base, Typed, FlagsOK
  <2>2. CASE Decide(TRUE) /\ io' = io
    <3>1. ShutdownOK' /\ suspended' = FALSE /\ shutdown'.phase = "running"
      BY <2>2, DecideEffect
    <3>2. \A c \in Copy : \A i \in 1..Len(io[c]) : io[c][i].by # "shutdown"
      BY <1>1, NoShutdownTask
    <3>3. \A c \in Copy : /\ Line(io[c], cache[c])
                          /\ Owned(io[c], pending[c].op, copy[c].state, shutdown.phase, c \in shutdown.left)
      BY BaseOf
    <3>4. \A c \in Copy : Owned(io[c], pending[c].op, copy[c].state, shutdown'.phase, c \in shutdown'.left)
      BY <3>2, <3>3 DEF Owned
    <3> QED BY <2>2, <3>1, <3>3, <3>4 DEF Base, Queues
  <2> QED BY <1>1, <2>1, <2>2
<1>6. Typed'
  BY <1>1, <1>3, <1>4, <1>5, TypesKept DEF Base, Typed, FlagsOK
<1>7. \A c \in Copy : pending'[c].op = "none" /\ pending'[c] = pending[c]
  BY <1>1, <1>2, BaseOf
<1> QED BY <1>1, <1>3, <1>5, <1>6, <1>7, WindowBase

LEMMA AutoSavedKeepsBase ==
  ASSUME Base, autoSaved
  PROVE  Base'
<1> DEFINE m == modifiedWorkingCopies(copy)
<1>1. /\ UNCHANGED <<copy, disk, pending, unrestored, isReady, cache, backupFile, ghosts>>
      /\ shutdown.phase = "autosave"
      /\ \/ handleModifiedBeforeShutdown(shutdown, m, io) /\ UNCHANGED suspended
         \/ noVeto(shutdown.list)
  BY DEF autoSaved
<1>2. /\ shutdown \in Shutdown /\ suspended /\ shutdown.list \in SUBSET Copy /\ io \in [Copy -> Seq(Task)]
      /\ suspended \in BOOLEAN
  BY <1>1 DEF Base, Typed, ShutdownOK, Suspension, Alive, Shutdown, Queues, FlagsOK
<1>3. \A c \in Copy : \A i \in 1..Len(io[c]) : io[c][i].by # "shutdown"
  BY <1>1, NoShutdownTask
<1>4. \A c \in Copy : /\ Line(io[c], cache[c])
                      /\ Owned(io[c], pending[c].op, copy[c].state, shutdown.phase, c \in shutdown.left)
  BY BaseOf
<1>5. /\ ShutdownOK' /\ io' \in [Copy -> Seq(Task)]
      /\ suspended' \in BOOLEAN /\ (suspended' <=> shutdown'.phase \notin {"running", "decided"})
      /\ \A c \in Copy : /\ Line(io'[c], cache[c])
                         /\ Owned(io'[c], pending[c].op, copy[c].state, shutdown'.phase, c \in shutdown'.left)
  <2>1. CASE noVeto(shutdown.list)
    <3>1. /\ ShutdownOK' /\ io' \in [Copy -> Seq(Task)]
          /\ \/ shutdown'.phase = "discard" /\ suspended' = suspended
             \/ shutdown'.phase = "decided" /\ suspended' = FALSE
          /\ \A c \in Copy : /\ Line(io'[c], cache[c])
                             /\ Owned(io'[c], pending[c].op, copy[c].state, shutdown'.phase, c \in shutdown'.left)
      <4> DEFINE list == shutdown.list
      <4>1. list \in SUBSET Copy /\ noVeto(list)
        BY <1>2, <2>1
      <4> HIDE DEF list
      <4> QED BY <1>1, <4>1, NoVetoEffect
    <3> QED BY <1>2, <3>1
  <2>2. CASE handleModifiedBeforeShutdown(shutdown, m, io) /\ UNCHANGED suspended
    <3>1. \A c \in Copy : copy[c].state = "open" => \A i \in 1..Len(io[c]) : io[c][i].by # "open"
      BY <1>4 DEF Owned
    <3>2. \A c \in Copy : Owned(io[c], pending[c].op, copy[c].state, "confirm", FALSE)
      BY <1>3, <1>4 DEF Owned
    <3>3. /\ ShutdownOK' /\ io' \in [Copy -> Seq(Task)]
          /\ shutdown'.phase \in {"confirm", "backup"}
          /\ \A c \in Copy : Line(io'[c], cache[c])
      BY <1>2, <1>3, <1>4, <2>2, <3>1, HandleEffect
    <3>4. \A c \in Copy : Owned(io'[c], pending[c].op, copy[c].state, shutdown'.phase, c \in shutdown'.left)
      BY <1>2, <1>3, <1>4, <2>2, <3>1, <3>2, HandleOwners
    <3> QED BY <1>2, <2>2, <3>3, <3>4
  <2> QED BY <1>1, <2>1, <2>2
<1>6. Typed'
  BY <1>1, <1>5, TypesKept DEF Base, Typed, FlagsOK, ghosts
<1>7. \A c \in Copy : pending'[c].op = "none" /\ pending'[c] = pending[c]
  BY <1>1, <1>2, BaseOf
<1>8. /\ \A c \in Copy : Line(io'[c], cache'[c])
      /\ \A c \in Copy : Owned(io'[c], pending'[c].op, copy'[c].state, shutdown'.phase, c \in shutdown'.left)
  BY <1>1, <1>5
<1> QED BY <1>1, <1>5, <1>6, <1>7, <1>8, WindowBase

\* The operations of the tracker are cancelled.
LEMMA TrackerCancelled ==
  ASSUME Base, NEW c \in Copy, NEW phase, phase = shutdown.phase
  PROVE  /\ Line(Cancelled(io[c], "tracker"), cache[c]) /\ Cancelled(io[c], "tracker") \in Seq(Task)
         /\ Cut(Cancelled(io[c], "tracker"), io[c], "tracker")
         /\ \A i \in 1..Len(Cancelled(io[c], "tracker")) : Cancelled(io[c], "tracker")[i].by # "tracker"
         /\ Owned(Cancelled(io[c], "tracker"), "none", copy[c].state, phase, c \in shutdown.left)
         /\ phase = "running" => \A i \in 1..Len(Cancelled(io[c], "tracker")) : Cancelled(io[c], "tracker")[i].by # "shutdown"
<1> DEFINE r == Cancelled(io[c], "tracker")
           awaited == c \in shutdown.left
           old == pending[c].op
           state == copy[c].state
           q == io[c]
<1>1. Line(q, cache[c]) /\ q \in Seq(Task) /\ Owned(q, old, state, phase, awaited)
  BY BaseOf
<1>2. \A i \in 1..Len(q) : phase = "running" => q[i].by # "shutdown"
  BY NoShutdownTask
<1>3. Line(r, cache[c]) /\ Cut(r, q, "tracker") /\ \A i \in 1..Len(r) : r[i].by # "tracker"
  BY <1>1, CancelledEffect
<1> HIDE DEF r, awaited, old, state, q
<1>4. r \in Seq(Task) /\ Fewer(r, q) /\ \A i \in 2..Len(r) : r[i].by # "nobody"
  BY <1>1, <1>3, CutFewer DEF Line
<1>5. Owned(r, "none", state, phase, awaited)
  BY <1>1, <1>3, <1>4, OwnedFewer
<1>6. phase = "running" => \A i \in 1..Len(r) : r[i].by # "shutdown"
  BY <1>2, <1>4 DEF Fewer
<1> QED BY <1>3, <1>4, <1>5, <1>6 DEF r, awaited, state, q

LEMMA IdleTracker ==
  ASSUME Base, pending' = [c \in Copy |-> Idle]
  PROVE  PendingOK' /\ \A c \in Copy : pending'[c].op = "none" /\ pending'[c] = Idle
<1>1. Idle.op = "none"
  BY DEF Idle
<1> QED BY <1>1, Constants DEF PendingOK

LEMMA BeforeShutdownKeepsBase ==
  ASSUME Base, NEW reason \in Reason, onFinalBeforeShutdown(reason)
  PROVE  Base'
<1> DEFINE m == modifiedWorkingCopies(copy)
           q == [c \in Copy |-> Cancelled(io[c], "tracker")]
           except == IF emptyWindow THEN {} ELSE unrestored
           discards == {c \in Copy \ except : cache[c].known}
           sh == [NoShutdown EXCEPT !.reason = reason, !.list = m]
           lost == {c \in Copy : pending[c].op \in {"timer", "snapshot"} \/ Len(q[c]) < Len(io[c])}
<1>1. /\ shutdown.phase = "running"
      /\ spent' \in [Kind -> Nat]
      /\ pending' = [c \in Copy |-> Idle]
      /\ interrupted' = interrupted \cup lost
      /\ excused' = {}
      /\ UNCHANGED <<copy, disk, cache, backupFile, unrestored, isReady, owed, reused>>
  BY Numbers, SpendEffect DEF onFinalBeforeShutdown, Kind
<1>2. \/ shutdown' = [sh EXCEPT !.phase = "autosave", !.left = m \cap AutoSave] /\ io' = q /\ suspended' = TRUE
      \/ handleModifiedBeforeShutdown(sh, m, q) /\ suspended' = TRUE
      \/ Decide(FALSE) /\ io' = q
      \/ shutdown' = [sh EXCEPT !.phase = "wipe"] /\ io' = q /\ suspended' = TRUE
      \/ /\ shutdown' = [sh EXCEPT !.phase = "discard", !.left = discards] /\ suspended' = TRUE
         /\ io' = [c \in Copy |-> IF c \in discards THEN Queued(q[c], cache[c], discardTask("shutdown")) ELSE q[c]]
  BY DEF onFinalBeforeShutdown
<1>3. m \subseteq Copy /\ lost \subseteq Copy /\ discards \subseteq Copy
  BY DEF modifiedWorkingCopies
<1>4. sh \in Shutdown
  <2>1. reason \in {"CLOSE", "QUIT", "RELOAD", "LOAD"}
    BY ConfigurationAssumption
  <2> QED BY <1>3, <2>1, Constants DEF Shutdown
<1>5. \A c \in Copy : /\ q[c] = Cancelled(io[c], "tracker")
                      /\ Line(q[c], cache[c]) /\ q[c] \in Seq(Task)
                      /\ \A i \in 1..Len(q[c]) : q[c][i].by # "shutdown"
                      /\ Owned(q[c], "none", copy[c].state, "running", c \in shutdown.left)
  BY <1>1, TrackerCancelled
<1>6. q \in [Copy -> Seq(Task)]
  BY <1>5
<1> HIDE DEF q, m, sh, discards, lost
<1>7. \A c \in Copy : Owned(q[c], "none", copy[c].state, "confirm", FALSE)
  BY <1>5 DEF Owned
<1>8. \A c \in Copy : copy[c].state = "open" => \A i \in 1..Len(q[c]) : q[c][i].by # "open"
  BY <1>7 DEF Owned
<1>9. /\ ShutdownOK' /\ io' \in [Copy -> Seq(Task)]
      /\ suspended' \in BOOLEAN /\ (suspended' <=> shutdown'.phase \notin {"running", "decided"})
      /\ \A c \in Copy : /\ Line(io'[c], cache[c])
                         /\ Owned(io'[c], "none", copy[c].state, shutdown'.phase, c \in shutdown'.left)
  <2>1. CASE io' = q /\ shutdown' \in {[sh EXCEPT !.phase = "autosave", !.left = m \cap AutoSave], [sh EXCEPT !.phase = "wipe"]}
             /\ suspended' = TRUE
    <3>1. ShutdownOK' /\ shutdown'.phase \in {"autosave", "wipe"}
      BY <1>3, <1>4, <2>1 DEF ShutdownOK, Shutdown, Phase
    <3>2. \A c \in Copy : Owned(q[c], "none", copy[c].state, shutdown'.phase, c \in shutdown'.left)
      BY <1>5, <1>7 DEF Owned
    <3> QED BY <1>5, <1>6, <2>1, <3>1, <3>2
  <2>2. CASE handleModifiedBeforeShutdown(sh, m, q) /\ suspended' = TRUE
    <3>1. /\ ShutdownOK' /\ io' \in [Copy -> Seq(Task)]
          /\ shutdown'.phase \in {"confirm", "backup"}
          /\ \A c \in Copy : Line(io'[c], cache[c])
      BY <1>4, <1>5, <1>6, <1>8, <2>2, HandleEffect DEF m
    <3>2. \A c \in Copy : Owned(io'[c], "none", copy[c].state, shutdown'.phase, c \in shutdown'.left)
      BY <1>4, <1>5, <1>6, <1>7, <1>8, <2>2, HandleOwners DEF m
    <3> QED BY <2>2, <3>1, <3>2
  <2>3. CASE Decide(FALSE) /\ io' = q
    <3>1. ShutdownOK' /\ suspended' = FALSE /\ shutdown'.phase = "decided"
      BY <2>3, DecideEffect
    <3>2. \A c \in Copy : Owned(q[c], "none", copy[c].state, shutdown'.phase, c \in shutdown'.left)
      BY <1>5, <1>7 DEF Owned
    <3> QED BY <1>5, <1>6, <2>3, <3>1, <3>2
  <2>4. CASE /\ shutdown' = [sh EXCEPT !.phase = "discard", !.left = discards] /\ suspended' = TRUE
             /\ io' = [c \in Copy |-> IF c \in discards THEN Queued(q[c], cache[c], discardTask("shutdown")) ELSE q[c]]
    <3>1. ShutdownOK' /\ shutdown'.phase = "discard"
      BY <1>3, <1>4, <2>4 DEF ShutdownOK, Shutdown, Phase
    <3>2. ASSUME NEW c \in Copy
          PROVE  /\ Line(io'[c], cache[c])
                 /\ Owned(io'[c], "none", copy[c].state, "discard", c \in shutdown'.left)
      <4> DEFINE r == Queued(q[c], cache[c], discardTask("shutdown"))
                 awaited == c \in shutdown'.left
      <4>1. Line(r, cache[c]) /\ Added(r, q[c], discardTask("shutdown"))
        BY <1>5, QueuedDiscard
      <4>2. Owned(q[c], "none", copy[c].state, "discard", awaited)
        BY <1>5, <1>7 DEF Owned
      <4>3. Len(q[c]) \in Nat
        BY <1>5, QueueElements
      <4>4. discardTask("shutdown").by = "shutdown" /\ discardTask("shutdown").kind = "discard"
        BY DEF discardTask
      <4> HIDE DEF discardTask, r, awaited
      <4>5. Owned(r, "none", copy[c].state, "discard", awaited)
        BY <4>1, <4>2, <4>3, <4>4, OwnedAdded
      <4>6. io'[c] = IF c \in discards THEN r ELSE q[c]
        BY <2>4 DEF r
      <4> QED BY <1>5, <4>1, <4>2, <4>5, <4>6 DEF awaited
    <3>3. io' \in [Copy -> Seq(Task)]
      <4>1. \A c \in Copy : io'[c] \in Seq(Task)
        BY <3>2 DEF Line
      <4> QED BY <2>4, <4>1
    <3> QED BY <2>4, <3>1, <3>2, <3>3
  <2> QED BY <1>2, <2>1, <2>2, <2>3, <2>4
<1>10. PendingOK' /\ \A c \in Copy : pending'[c].op = "none"
  BY <1>1, IdleTracker
<1>11. GhostsOK'
  BY <1>1, <1>3 DEF GhostsOK, Base, Typed
<1>12. FlagsOK'
  BY <1>1, <1>9 DEF FlagsOK, Base, Typed
<1>13. Typed'
  BY <1>1, <1>9, <1>10, <1>11, <1>12, TypesKept DEF Base, Typed
<1>14. /\ \A c \in Copy : Line(io'[c], cache'[c])
       /\ \A c \in Copy : Owned(io'[c], pending'[c].op, copy'[c].state, shutdown'.phase, c \in shutdown'.left)
  BY <1>1, <1>9, <1>10
<1> QED BY <1>1, <1>9, <1>10, <1>13, <1>14, WindowBase

LEMMA WillShutdownKeepsBase ==
  ASSUME Base, onWillShutdown
  PROVE  Base'
<1>1. /\ shutdown.phase = "decided" /\ shutdown' = [shutdown EXCEPT !.phase = "joining"] /\ suspended' = TRUE
      /\ pending' = [c \in Copy |-> Idle]
      /\ io' = [c \in Copy |-> Cancelled(io[c], "tracker")]
      /\ UNCHANGED <<copy, disk, unrestored, isReady, cache, backupFile, excused, owed, spent, reused>>
      /\ interrupted' \subseteq Copy
  BY DEF onWillShutdown, Base, Typed, GhostsOK
<1>2. shutdown \in Shutdown
  BY DEF Base, Typed, ShutdownOK
<1>3. ShutdownOK' /\ shutdown'.phase = "joining" /\ shutdown'.left = shutdown.left
  BY <1>1, <1>2 DEF ShutdownOK, Shutdown, Phase
<1>4. PendingOK' /\ \A c \in Copy : pending'[c].op = "none"
  BY <1>1, IdleTracker
<1>5. GhostsOK' /\ FlagsOK'
  BY <1>1 DEF GhostsOK, FlagsOK, Base, Typed
<1>6. Typed'
  BY <1>1, <1>3, <1>4, <1>5, TypesKept DEF Base, Typed
<1>7. \A c \in Copy : /\ Line(io'[c], cache[c]) /\ io'[c] \in Seq(Task)
                      /\ Owned(io'[c], "none", copy[c].state, "decided", c \in shutdown.left)
  BY <1>1, TrackerCancelled
<1>8. \A c \in Copy : Owned(io'[c], "none", copy[c].state, "joining", c \in shutdown.left)
  BY <1>7 DEF Owned
<1>9. io' \in [Copy -> Seq(Task)] /\ \A c \in Copy : Line(io'[c], cache'[c])
  BY <1>1, <1>7
<1>10. \A c \in Copy : Owned(io'[c], pending'[c].op, copy'[c].state, shutdown'.phase, c \in shutdown'.left)
  BY <1>1, <1>3, <1>4, <1>8
<1> QED BY <1>1, <1>3, <1>4, <1>6, <1>9, <1>10, WindowBase

LEMMA RestartKeepsBase ==
  ASSUME Base, restart
  PROVE  Base'
<1>1. CopyOK' /\ DiskOK' /\ FileOK' /\ PendingOK'
  BY TypesKept, IdleTracker, Constants DEF restart, CopyOK, Base, Typed
<1>2. CacheOK'
  BY ListedType DEF restart, CacheOK, Base, Typed, FileOK
<1>3. FlagsOK' /\ ShutdownOK' /\ GhostsOK'
  BY Constants DEF restart, FlagsOK, ShutdownOK, GhostsOK, Base, Typed
<1>4. /\ <<>> \in Seq(Task) /\ Len(<<>>) = 0 /\ 1..0 = {} /\ 2..0 = {}
      /\ io' = [c \in Copy |-> <<>>] /\ \A c \in Copy : io'[c] = <<>>
  BY EmptySeq DEF restart
<1>5. Queues'
  BY <1>4 DEF Queues, Line
<1>6. Owners' /\ Dormant' /\ Suspension'
  BY <1>4 DEF restart, Owners, Owned, Dormant, Suspension, Closed, Idle, NoShutdown, Alive
<1> QED BY <1>1, <1>2, <1>3, <1>5, <1>6 DEF Base, Typed

LEMMA StutterKeepsBase ==
  ASSUME Base, UNCHANGED vars
  PROVE  Base'
BY DEF vars, tracker, service, ghosts, Base, Typed, CopyOK, DiskOK, FileOK, PendingOK, CacheOK, FlagsOK, ShutdownOK,
       GhostsOK, Queues, Owners, Dormant, Suspension, Alive

\* The steps of the window.
Windowed ==
  \/ Restoring \/ (\E reason \in Reason : onFinalBeforeShutdown(reason))
  \/ autoSaved \/ backedUp \/ confirmedSaves \/ discardBackups \/ discardedBackups \/ discarded
  \/ onWillShutdown \/ joinBackups \/ Dialog \/ cancelProgress \/ notDiscardedBackups \/ crash \/ restart

\* Every step is one of a copy or one of the window.
LEMMA NextSplits ==
  ASSUME [Next]_vars
  PROVE  (\E c \in Copy : Single(c)) \/ Windowed \/ UNCHANGED vars
<1>1. CASE \E c \in Copy : InputOutput(c) \/ User(c) \/ reverted(c) \/ Failure(c)
  BY <1>1 DEF Single
<1>2. CASE ShuttingDown
  BY <1>2 DEF ShuttingDown, Single, Windowed
<1>3. CASE Next /\ ~ShuttingDown /\ ~\E c \in Copy : InputOutput(c) \/ User(c) \/ reverted(c) \/ Failure(c)
  BY <1>3 DEF Next, Windowed
<1> QED BY <1>1, <1>2, <1>3

LEMMA BaseStep ==
  ASSUME Base, [Next]_vars
  PROVE  Base'
<1>1. CASE Windowed
  BY <1>1, RestoringKeepsBase, BeforeShutdownKeepsBase, AutoSavedKeepsBase, BackedUpKeepsBase, NoVetoKeepsBase,
     DiscardingKeepsBase, DiscardedKeepsBase, DecidingKeepsBase, WillShutdownKeepsBase, GoneKeepsBase,
     ConfirmSaveKeepsBase, CancelProgressKeepsBase, RestartKeepsBase
     DEF Windowed, Restoring, Dialog
<1> QED BY <1>1, NextSplits, SingleKeepsBase, StutterKeepsBase

LEMMA BaseHolds == Spec => []Base
BY BaseInit, BaseStep, PTL DEF Spec

\* Every value has its type, and no queue of a backup file ever holds more
\* than the operation that runs and one of the tracker, the shutdown and an
\* opening editor each.
THEOREM TypeCorrect == Spec => []TypeOK
BY BaseHolds, BaseTypes, PTL

-----------------------------------------------------------------------------
(* What a shutdown trusts *)

\* Backups are ordered by the version of the copy and then by the mtime that
\* it knew.
NoLater(v, m, w, n) == v < w \/ (v = w /\ m <= n)

\* The metas of a queue are mtimes that the file had.
InBounds(q, mtime) == \A i \in 1..Len(q) : q[i].meta \in 0..mtime

\* The entry e, the backups of queue q in their order and copy k are in the order
\* of their versions.  Of the version that the copy has there is one content, and
\* where its backups differ in their mtime it has been stored since.
Ordered(q, e, k, stored) ==
  /\ e.known => /\ NoLater(e.version, e.meta, k.version, k.stat)
                /\ e.version = k.version /\ e.meta # k.stat => stored
  /\ \A i \in 1..Len(q) : q[i].kind = "backup" =>
       /\ NoLater(q[i].version, q[i].meta, k.version, k.stat)
       /\ e.known => NoLater(e.version, e.meta, q[i].version, q[i].meta)
       /\ q[i].version = k.version => q[i].content = k.content /\ (q[i].meta # k.stat => stored)
  /\ \A i, j \in 1..Len(q) : i < j /\ q[i].kind = "backup" /\ q[j].kind = "backup" =>
       NoLater(q[i].version, q[i].meta, q[j].version, q[j].meta)

\* The entry is one of the version that the copy has.
Current(e, k) == e.known /\ e.version = k.version

\* What discards delete is stored, or is no backup of the version that the copy has.
Spares(q, e, k, stored) ==
  \A j \in 1..Len(q) : q[j].kind = "discard" =>
    \/ stored
    \/ /\ ~Current(e, k)
       /\ \A i \in 1..Len(q) : i < j /\ q[i].kind = "backup" => q[i].version < k.version

LEMMA FewerKeepsOrder ==
  ASSUME NEW q, NEW r, Fewer(r, q), NEW e, NEW k, NEW stored
  PROVE  /\ Ordered(q, e, k, stored) => Ordered(r, e, k, stored)
         /\ Spares(q, e, k, stored) => Spares(r, e, k, stored)
         /\ \A mtime : InBounds(q, mtime) => InBounds(r, mtime)
<1>1. PICK h \in [1..Len(r) -> 1..Len(q)] :
        /\ \A i, j \in 1..Len(r) : i < j => h[i] < h[j]
        /\ \A i \in 1..Len(r) : Kin(r[i], q[h[i]])
  BY DEF Fewer
<1>2. \A i \in 1..Len(r) : /\ h[i] \in 1..Len(q) /\ r[i].kind = q[h[i]].kind /\ r[i].content = q[h[i]].content
                           /\ r[i].version = q[h[i]].version /\ r[i].meta = q[h[i]].meta
  BY <1>1 DEF Kin
<1>3. ASSUME Ordered(q, e, k, stored)
      PROVE  Ordered(r, e, k, stored)
  <2>1. e.known => /\ NoLater(e.version, e.meta, k.version, k.stat)
                   /\ e.version = k.version /\ e.meta # k.stat => stored
    BY <1>3 DEF Ordered
  <2>2. ASSUME NEW i \in 1..Len(r), r[i].kind = "backup"
        PROVE  /\ NoLater(r[i].version, r[i].meta, k.version, k.stat)
               /\ e.known => NoLater(e.version, e.meta, r[i].version, r[i].meta)
               /\ r[i].version = k.version => r[i].content = k.content /\ (r[i].meta # k.stat => stored)
    BY <1>2, <1>3, <2>2 DEF Ordered
  <2>3. ASSUME NEW i \in 1..Len(r), NEW j \in 1..Len(r), i < j, r[i].kind = "backup", r[j].kind = "backup"
        PROVE  NoLater(r[i].version, r[i].meta, r[j].version, r[j].meta)
    <3>1. h[i] < h[j]
      BY <1>1, <2>3
    <3> QED BY <1>2, <1>3, <2>3, <3>1, ZenonT(40) DEF Ordered
  <2> QED BY <2>1, <2>2, <2>3 DEF Ordered
<1>4. ASSUME Spares(q, e, k, stored)
      PROVE  Spares(r, e, k, stored)
  <2> SUFFICES ASSUME NEW j \in 1..Len(r), r[j].kind = "discard", ~stored
               PROVE  /\ ~Current(e, k)
                      /\ \A i \in 1..Len(r) : i < j /\ r[i].kind = "backup" => r[i].version < k.version
    BY DEF Spares
  <2>1. /\ ~Current(e, k)
        /\ \A i \in 1..Len(q) : i < h[j] /\ q[i].kind = "backup" => q[i].version < k.version
    BY <1>2, <1>4 DEF Spares
  <2>2. ASSUME NEW i \in 1..Len(r), i < j, r[i].kind = "backup"
        PROVE  r[i].version < k.version
    <3>1. h[i] < h[j]
      BY <1>1, <2>2
    <3> QED BY <1>2, <2>1, <2>2, <3>1
  <2> QED BY <2>1, <2>2
<1>5. \A mtime : InBounds(q, mtime) => InBounds(r, mtime)
  BY <1>2 DEF InBounds
<1> QED BY <1>3, <1>4, <1>5

\* A backup of what the copy shows, with the mtime that it knows, keeps the order.
LEMMA BackupKeepsOrder ==
  ASSUME NEW q, NEW r, NEW t, Added(r, q, t), Len(q) \in Nat, NEW e, NEW k, NEW stored,
         t.kind = "backup", t.version = k.version, t.meta = k.stat, t.content = k.content, k.stat \in Int
  PROVE  /\ Ordered(q, e, k, stored) => Ordered(r, e, k, stored)
         /\ Spares(q, e, k, stored) => Spares(r, e, k, stored)
         /\ \A mtime : InBounds(q, mtime) /\ t.meta \in 0..mtime => InBounds(r, mtime)
<1> DEFINE n == Len(q) + 1
<1>1. /\ \A i \in 1..Len(r) : i \in 1..Len(q) \/ i = n
      /\ \A i \in 1..Len(q) : r[i] = q[i] /\ i < n /\ i # n
      /\ r[n].kind = t.kind /\ r[n].version = t.version /\ r[n].meta = t.meta /\ r[n].content = t.content
      /\ ~(n < n) /\ \A i \in 1..Len(q) : ~(n < i)
  BY DEF Added, Alike
<1> HIDE DEF n
<1>2. ASSUME Ordered(q, e, k, stored)
      PROVE  Ordered(r, e, k, stored)
  <2>1. e.known => /\ NoLater(e.version, e.meta, k.version, k.stat)
                   /\ e.version = k.version /\ e.meta # k.stat => stored
    BY <1>2 DEF Ordered
  <2>2. ASSUME NEW i \in 1..Len(r), r[i].kind = "backup"
        PROVE  /\ NoLater(r[i].version, r[i].meta, k.version, k.stat)
               /\ e.known => NoLater(e.version, e.meta, r[i].version, r[i].meta)
               /\ r[i].version = k.version => r[i].content = k.content /\ (r[i].meta # k.stat => stored)
    <3>1. CASE i \in 1..Len(q)
      BY <1>1, <1>2, <2>2, <3>1 DEF Ordered
    <3>2. CASE i = n
      BY <1>1, <2>1, <3>2 DEF NoLater
    <3> QED BY <1>1, <3>1, <3>2
  <2>3. ASSUME NEW i \in 1..Len(r), NEW j \in 1..Len(r), i < j, r[i].kind = "backup", r[j].kind = "backup"
        PROVE  NoLater(r[i].version, r[i].meta, r[j].version, r[j].meta)
    <3>1. CASE j \in 1..Len(q)
      BY <1>1, <1>2, <2>3, <3>1 DEF Ordered
    <3>2. CASE j = n
      <4>1. i \in 1..Len(q)
        BY <1>1, <2>3, <3>2
      <4> QED BY <1>1, <1>2, <2>3, <3>2, <4>1 DEF Ordered
    <3> QED BY <1>1, <3>1, <3>2
  <2> QED BY <2>1, <2>2, <2>3 DEF Ordered
<1>3. ASSUME Spares(q, e, k, stored)
      PROVE  Spares(r, e, k, stored)
  <2> SUFFICES ASSUME NEW j \in 1..Len(r), r[j].kind = "discard", ~stored
               PROVE  /\ ~Current(e, k)
                      /\ \A i \in 1..Len(r) : i < j /\ r[i].kind = "backup" => r[i].version < k.version
    BY DEF Spares
  <2>1. j \in 1..Len(q)
    BY <1>1
  <2> QED BY <1>1, <1>3, <2>1 DEF Spares
<1>4. \A mtime : InBounds(q, mtime) /\ t.meta \in 0..mtime => InBounds(r, mtime)
  BY <1>1 DEF InBounds
<1> QED BY <1>2, <1>3, <1>4

\* A discard keeps the order of backups, and deletes nothing of a copy that is stored.
LEMMA DiscardKeepsOrder ==
  ASSUME NEW q, NEW r, NEW by, Added(r, q, discardTask(by)), Len(q) \in Nat, NEW e, NEW k, NEW stored
  PROVE  /\ Ordered(q, e, k, stored) => Ordered(r, e, k, stored)
         /\ stored => Spares(r, e, k, stored)
         /\ \A mtime \in Nat : InBounds(q, mtime) => InBounds(r, mtime)
<1> DEFINE n == Len(q) + 1
<1>1. /\ \A i \in 1..Len(r) : i \in 1..Len(q) \/ i = n
      /\ \A i \in 1..Len(q) : r[i] = q[i]
      /\ r[n].kind = "discard" /\ r[n].meta = 0
  BY DEF Added, Alike, discardTask
<1> HIDE DEF n
<1>2. \A i \in 1..Len(r) : r[i].kind = "backup" => i \in 1..Len(q) /\ r[i] = q[i]
  BY <1>1
<1>3. Ordered(q, e, k, stored) => Ordered(r, e, k, stored)
  BY <1>2 DEF Ordered
<1>4. stored => Spares(r, e, k, stored)
  BY DEF Spares
<1>5. \A mtime \in Nat : InBounds(q, mtime) => InBounds(r, mtime)
  BY <1>1 DEF InBounds
<1> QED BY <1>3, <1>4, <1>5

\* A backup that was made becomes the entry, and a discard leaves none.
LEMMA NotedKeepsOrder ==
  ASSUME NEW q, NEW r, NEW n \in 1..Len(q), Len(q) \in Nat, Advanced(r, q, n), NEW e, NEW f, NEW k, NEW stored,
         \/ ~f.known
         \/ q[1].kind = "backup" /\ f.version = q[1].version /\ f.meta = q[1].meta
  PROVE  /\ Ordered(q, e, k, stored) => Ordered(r, f, k, stored)
         /\ Spares(q, e, k, stored) => Spares(r, f, k, stored) \/ ~(k.version \in Nat)
<1>1. \A i \in 1..Len(r) : /\ n + i \in 1..Len(q) /\ 1 < n + i
                           /\ r[i].kind = q[n + i].kind /\ r[i].content = q[n + i].content
                           /\ r[i].version = q[n + i].version /\ r[i].meta = q[n + i].meta
  <2>1. Len(r) = Len(q) - n
    BY DEF Advanced
  <2>2. \A i \in 1..Len(r) : n + i \in 1..Len(q) /\ 1 < n + i
    BY <2>1
  <2> QED BY <2>2 DEF Advanced, Alike
<1>2. 1 \in 1..Len(q)
  OBVIOUS
<1>3. ASSUME Ordered(q, e, k, stored)
      PROVE  Ordered(r, f, k, stored)
  <2>1. f.known => /\ NoLater(f.version, f.meta, k.version, k.stat)
                   /\ f.version = k.version /\ f.meta # k.stat => stored
    BY <1>2, <1>3 DEF Ordered
  <2>2. ASSUME NEW i \in 1..Len(r), r[i].kind = "backup"
        PROVE  /\ NoLater(r[i].version, r[i].meta, k.version, k.stat)
               /\ f.known => NoLater(f.version, f.meta, r[i].version, r[i].meta)
               /\ r[i].version = k.version => r[i].content = k.content /\ (r[i].meta # k.stat => stored)
    BY <1>1, <1>2, <1>3, <2>2 DEF Ordered
  <2>3. ASSUME NEW i \in 1..Len(r), NEW j \in 1..Len(r), i < j, r[i].kind = "backup", r[j].kind = "backup"
        PROVE  NoLater(r[i].version, r[i].meta, r[j].version, r[j].meta)
    <3>1. n + i < n + j
      BY <2>3
    <3> QED BY <1>1, <1>3, <2>3, <3>1 DEF Ordered
  <2> QED BY <2>1, <2>2, <2>3 DEF Ordered
<1>4. ASSUME Spares(q, e, k, stored), k.version \in Nat
      PROVE  Spares(r, f, k, stored)
  <2> SUFFICES ASSUME NEW j \in 1..Len(r), r[j].kind = "discard", ~stored
               PROVE  /\ ~Current(f, k)
                      /\ \A i \in 1..Len(r) : i < j /\ r[i].kind = "backup" => r[i].version < k.version
    BY DEF Spares
  <2>1. \A i \in 1..Len(q) : i < n + j /\ q[i].kind = "backup" => q[i].version < k.version
    BY <1>1, <1>4 DEF Spares
  <2>2. ~Current(f, k)
    <3>1. f.known => q[1].version < k.version
      BY <1>1, <1>2, <2>1
    <3>2. ~(k.version < k.version)
      BY <1>4
    <3> QED BY <3>1, <3>2 DEF Current
  <2>3. ASSUME NEW i \in 1..Len(r), i < j, r[i].kind = "backup"
        PROVE  r[i].version < k.version
    <3>1. n + i < n + j
      BY <2>3
    <3> QED BY <1>1, <2>1, <2>3, <3>1
  <2> QED BY <2>2, <2>3
<1> QED BY <1>3, <1>4

\* The first tasks of r and q are in the same phase; an empty queue has begun one at most.
SameHead(r, q) ==
  \/ r # <<>> /\ q # <<>> /\ Kin(r[1], q[1]) /\ r[1].phase = q[1].phase
  \/ q = <<>> /\ (r = <<>> \/ r[1].phase = "begun")

LEMMA HeadsKept ==
  ASSUME NEW q \in Seq(Task), NEW r \in Seq(Task)
  PROVE  /\ \A who : Cut(r, q, who) => SameHead(r, q)
         /\ \A t : Added(r, q, t) => SameHead(r, q)
<1>1. /\ Len(q) \in Nat /\ \A i \in 1..Len(q) : q[i] \in Task
      /\ q # <<>> <=> Len(q) >= 1
      /\ Len(r) \in Nat /\ r # <<>> <=> Len(r) >= 1
  BY QueueElements
<1>2. ASSUME NEW who, Cut(r, q, who)
      PROVE  SameHead(r, q)
  <2>1. CASE r = q
    BY <2>1 DEF SameHead, Kin
  <2>2. ASSUME NEW n \in 2..Len(q), Len(r) = Len(q) - 1,
               \A i \in 1..Len(r) : r[i] = IF i < n THEN q[i] ELSE q[i + 1]
        PROVE  SameHead(r, q)
    <3>1. 1 \in 1..Len(r) /\ Len(q) >= 1
      BY <1>1, <2>2
    <3>2. r[1] = q[1] /\ r # <<>> /\ q # <<>>
      BY <1>1, <2>2, <3>1
    <3> QED BY <3>2 DEF SameHead, Kin
  <2>3. CASE q # <<>> /\ Len(r) = Len(q) /\ r[1] = [q[1] EXCEPT !.by = "nobody"]
    <3>1. q[1] \in Task /\ r # <<>>
      BY <1>1, <2>3
    <3> QED BY <2>3, <3>1 DEF SameHead, Kin, Task
  <2> QED BY <1>2, <2>1, <2>2, <2>3 DEF Cut
<1>3. ASSUME NEW t, Added(r, q, t)
      PROVE  SameHead(r, q)
  <2>1. CASE q = <<>>
    BY <1>3, <2>1 DEF Added, SameHead
  <2>2. CASE q # <<>>
    <3>1. 1 \in 1..Len(q) /\ r # <<>>
      BY <1>1, <1>3, <2>2 DEF Added
    <3>2. r[1] = q[1]
      BY <1>3, <3>1 DEF Added
    <3> QED BY <2>2, <3>1, <3>2 DEF SameHead, Kin
  <2> QED BY <2>1, <2>2
<1> QED BY <1>2, <1>3

LEMMA SameHeadTransitive ==
  ASSUME NEW q, NEW p, NEW r, SameHead(p, q), SameHead(r, p)
  PROVE  SameHead(r, q)
BY DEF SameHead, Kin

Whole(c) == backupFile[c].state = "whole"
Stored(c) == copy[c].content = disk[c].content

\* The shutdown has not deleted anything yet.
Deciding == shutdown.phase \in {"running", "autosave", "backup", "confirm", "saving", "error"}

\* A backup is made.
HeadDone(q) == q # <<>> /\ q[1].kind = "backup" /\ q[1].phase = "done"

\* What is known of a file that is being written or deleted; until a shutdown
\* deletes backups, nobody else does.
Written(q, b, deciding) == q # <<>> =>
  /\ q[1].kind = "backup" /\ q[1].phase = "truncated" => b.state # "whole" /\ (deciding => b.state = "torn")
  /\ q[1].kind = "backup" /\ q[1].phase = "done" =>
       /\ b.state = "whole" => b.content = q[1].content /\ b.meta = q[1].meta
       /\ deciding => b.state = "whole"
  /\ q[1].kind = "discard" /\ q[1].phase = "done" => b.state = "none"

\* Every mtime that is remembered is one that the file had.
Bounded(c) ==
  /\ copy[c].stat \in 0..disk[c].mtime /\ pending[c].meta \in 0..disk[c].mtime
  /\ cache[c].meta <= disk[c].mtime
  /\ Whole(c) => backupFile[c].meta \in 0..disk[c].mtime
  /\ InBounds(io[c], disk[c].mtime)
  /\ pending[c].op = "snapshot" => pending[c].content = copy[c].content /\ pending[c].meta = copy[c].stat
Filed(c) == Written(io[c], backupFile[c], Deciding)

\* The model has the mtime of the backup, if it has read it, as it has for an open copy.
Mirrored(c) ==
  Alive /\ Whole(c) /\ cache[c].known /\ ~HeadDone(io[c]) =>
    /\ cache[c].meta \in {Unknown, backupFile[c].meta}
    /\ copy[c].state = "open" => cache[c].meta = backupFile[c].meta
InOrder(c) ==
  copy[c].state = "open" /\ c \notin reused => Ordered(io[c], cache[c], copy[c], Stored(c))

\* A backup of the version that the copy has holds what the copy shows; there is
\* no such backup only if that is stored.
Shown(c) == IF Whole(c) THEN backupFile[c].content = copy[c].content ELSE Stored(c)
Trusted(c) ==
  copy[c].state = "open" /\ c \notin reused /\ Deciding =>
    /\ Current(cache[c], copy[c]) => Shown(c)
    /\ Spares(io[c], cache[c], copy[c], Stored(c))
Trust(c) == Bounded(c) /\ Filed(c) /\ Mirrored(c) /\ InOrder(c) /\ Trusted(c)

\* What the steps do to a copy of which they change no content, nor open or close it.
Swept(c) ==
  /\ Alive' => Alive
  /\ Deciding' => Deciding
  /\ disk'[c] = disk[c] /\ (c \in reused' <=> c \in reused)
  /\ copy'[c].state = copy[c].state /\ copy'[c].content = copy[c].content
  /\ copy'[c].version = copy[c].version /\ copy'[c].stat = copy[c].stat
  /\ pending'[c].meta \in 0..disk[c].mtime
  /\ pending'[c].op = "snapshot" => pending'[c].content = copy[c].content /\ pending'[c].meta = copy[c].stat
  /\ backupFile'[c] \in {backupFile[c], NoBackup} /\ (Deciding' => backupFile'[c] = backupFile[c])
  /\ \/ cache'[c] = cache[c]
     \/ cache'[c] = NoEntry /\ ~Deciding'
     \/ resolve(c) /\ io[c] = <<>> /\ Alive /\ cache'[c] = [cache[c] EXCEPT !.meta = backupFile[c].meta]
  /\ \E p \in Seq(Task) :
       /\ \E who : Cut(p, io[c], who)
       /\ \/ io'[c] = p
          \/ \E by : Added(io'[c], p, backupTask(copy[c].content, copy[c].version, copy[c].stat, by))
          \/ Added(io'[c], p, discardTask("shutdown")) /\ ~Deciding'

LEMMA UntouchedKeepsTrust ==
  ASSUME NEW c \in Copy, Trust(c), Untouched(c), SameWindow
  PROVE  Trust(c)'
<1>1. (Alive' <=> Alive) /\ (Deciding' <=> Deciding) /\ (Whole(c)' <=> Whole(c)) /\ (Stored(c)' <=> Stored(c))
  BY DEF Untouched, SameWindow, Alive, Deciding, Whole, Stored
<1>2. Bounded(c)'
  BY <1>1 DEF Trust, Bounded, Untouched
<1>3. Filed(c)'
  BY <1>1 DEF Trust, Filed, Untouched, Written
<1>4. Mirrored(c)'
  BY <1>1 DEF Trust, Mirrored, Untouched
<1>5. InOrder(c)'
  BY <1>1 DEF Trust, InOrder, Untouched, Ordered
<1>6. Trusted(c)'
  BY <1>1 DEF Trust, Trusted, Untouched, Spares, Shown
<1> QED BY <1>2, <1>3, <1>4, <1>5, <1>6 DEF Trust

LEMMA SweptKeepsTrust ==
  ASSUME Base, Base', NEW c \in Copy, Trust(c), Swept(c)
  PROVE  Trust(c)'
<1> DEFINE q == io[c]
           r == io'[c]
           k == copy[c]
           task(by) == backupTask(copy[c].content, copy[c].version, copy[c].stat, by)
           mtime == disk[c].mtime
<1>0. PICK p \in Seq(Task) :
       /\ \E who : Cut(p, q, who)
       /\ r = p \/ (\E by : Added(r, p, task(by))) \/ (Added(r, p, discardTask("shutdown")) /\ ~Deciding')
  BY DEF Swept
<1> DEFINE author == CHOOSE by : Added(r, p, task(by))
           t == task(author)
<1>1. /\ \E who : Cut(p, q, who)
      /\ r = p \/ Added(r, p, t) \/ (Added(r, p, discardTask("shutdown")) /\ ~Deciding')
  <2> HIDE DEF task
  <2> QED BY <1>0
<1>2. /\ q \in Seq(Task) /\ r \in Seq(Task) /\ Len(p) \in Nat
      /\ k \in WorkingCopy /\ cache[c] \in Entry /\ disk[c] \in [content : Content, mtime : Nat]
      /\ backupFile[c] \in BackupFile
  <2>1. r \in Seq(Task)
    BY DEF Base, Queues
  <2> QED BY <2>1, BaseOf, QueueElements
<1>3. /\ t.kind = "backup" /\ t.version = k.version /\ t.meta = k.stat /\ t.content = k.content
      /\ k.stat \in Int /\ mtime \in Nat /\ k.version \in Nat
  BY <1>2, Numbers DEF backupTask, WorkingCopy
<1>4. /\ Alive' => Alive
      /\ Deciding' => Deciding
      /\ disk'[c] = disk[c] /\ (c \in reused' <=> c \in reused)
      /\ copy'[c].state = k.state /\ copy'[c].content = k.content
      /\ copy'[c].version = k.version /\ copy'[c].stat = k.stat
      /\ pending'[c].meta \in 0..mtime
      /\ pending'[c].op = "snapshot" => pending'[c].content = k.content /\ pending'[c].meta = k.stat
      /\ backupFile'[c] \in {backupFile[c], NoBackup} /\ (Deciding' => backupFile'[c] = backupFile[c])
      /\ \/ cache'[c] = cache[c]
         \/ cache'[c] = NoEntry /\ ~Deciding'
         \/ resolve(c) /\ q = <<>> /\ Alive /\ cache'[c] = [cache[c] EXCEPT !.meta = backupFile[c].meta]
  BY DEF Swept
<1>5. Stored(c)' <=> Stored(c)
  BY <1>4 DEF Stored
<1> HIDE DEF q, r, t
<1>6. Fewer(p, q) /\ SameHead(p, q) /\ SameHead(r, q)
  <2>1. Fewer(p, q)
    BY <1>1, <1>2, CutFewer
  <2>2. SameHead(p, q)
    BY <1>1, <1>2, HeadsKept
  <2>3. SameHead(r, p) \/ r = p
    BY <1>1, <1>2, HeadsKept
  <2> QED BY <2>1, <2>2, <2>3, SameHeadTransitive
<1>7. Bounded(c)'
  <2>1. InBounds(r, mtime)
    <3>1. InBounds(q, mtime) /\ k.stat \in 0..mtime
      BY DEF Trust, Bounded, q
    <3>2. InBounds(p, mtime)
      BY <1>6, <3>1, FewerKeepsOrder
    <3>3. CASE Added(r, p, t)
      BY <1>2, <1>3, <3>1, <3>2, <3>3, BackupKeepsOrder, ZenonT(40)
    <3>4. CASE Added(r, p, discardTask("shutdown"))
      BY <1>2, <1>3, <3>2, <3>4, DiscardKeepsOrder
    <3> QED BY <1>1, <3>2, <3>3, <3>4
  <2>2. cache'[c].meta <= mtime
    <3>1. NoEntry.meta = 0 /\ cache[c].meta <= mtime
      BY DEF NoEntry, Trust, Bounded
    <3>2. resolve(c) => backupFile[c].meta \in 0..mtime /\ [cache[c] EXCEPT !.meta = backupFile[c].meta].meta = backupFile[c].meta
      BY <1>2 DEF resolve, Trust, Bounded, Whole, Entry
    <3> HIDE DEF mtime
    <3>3. CASE cache'[c] = cache[c]
      BY <3>1, <3>3
    <3>4. CASE cache'[c] = NoEntry
      BY <1>3, <3>1, <3>4
    <3>5. CASE resolve(c) /\ cache'[c] = [cache[c] EXCEPT !.meta = backupFile[c].meta]
      <4>1. cache'[c].meta = backupFile[c].meta /\ backupFile[c].meta \in 0..mtime
        BY <3>2, <3>5
      <4> QED BY <1>3, <4>1
    <3> QED BY <1>4, <3>3, <3>4, <3>5
  <2>3. /\ pending'[c].meta \in 0..mtime
        /\ pending'[c].op = "snapshot" => pending'[c].content = k.content /\ pending'[c].meta = k.stat
    BY <1>4
  <2>4. Whole(c)' => backupFile'[c].meta \in 0..mtime
    BY <1>4 DEF Whole, Trust, Bounded, NoBackup
  <2>5. k.stat \in 0..mtime
    BY DEF Trust, Bounded
  <2> QED BY <1>4, <2>1, <2>2, <2>3, <2>4, <2>5 DEF Bounded, r
<1>8. Filed(c)'
  <2>1. Written(q, backupFile[c], Deciding)
    BY DEF Trust, Filed, q
  <2>2. Written(r, backupFile[c], Deciding)
    BY <1>6, <2>1 DEF Written, SameHead, Kin
  <2>3. Written(r, backupFile'[c], Deciding')
    BY <1>4, <2>2 DEF Written, NoBackup
  <2> QED BY <2>3 DEF Filed, r
<1>9. Mirrored(c)'
  <2> SUFFICES ASSUME Alive', Whole(c)', cache'[c].known, ~HeadDone(r)
               PROVE  /\ cache'[c].meta \in {Unknown, backupFile'[c].meta}
                      /\ copy'[c].state = "open" => cache'[c].meta = backupFile'[c].meta
    BY DEF Mirrored, r
  <2>1. backupFile'[c] = backupFile[c] /\ Whole(c) /\ Alive
    BY <1>4 DEF Whole, NoBackup
  <2>2. CASE cache'[c] = cache[c]
    <3>1. ~HeadDone(q)
      BY <1>6 DEF SameHead, HeadDone, Kin
    <3> QED BY <1>4, <2>1, <2>2, <3>1 DEF Trust, Mirrored, q
  <2>3. CASE cache'[c] = NoEntry
    BY <2>3 DEF NoEntry
  <2>4. CASE cache'[c] = [cache[c] EXCEPT !.meta = backupFile[c].meta]
    BY <1>2, <2>1, <2>4 DEF Entry
  <2> QED BY <1>4, <2>2, <2>3, <2>4
<1>10. copy[c].state = "open" => \/ cache'[c] = cache[c]
                                 \/ cache'[c] = NoEntry /\ ~Deciding'
  <2> SUFFICES ASSUME copy[c].state = "open", resolve(c), q = <<>>, Alive,
                      cache'[c] = [cache[c] EXCEPT !.meta = backupFile[c].meta]
               PROVE  cache'[c] = cache[c]
    BY <1>4
  <2>1. cache[c].meta = backupFile[c].meta
    BY DEF Trust, Mirrored, Whole, resolve, HeadDone, q
  <2> QED BY <1>2, <2>1 DEF Entry
<1>11. InOrder(c)'
  <2> SUFFICES ASSUME copy[c].state = "open", c \notin reused
               PROVE  Ordered(r, cache'[c], copy'[c], Stored(c)')
    BY <1>4 DEF InOrder, r
  <2> DEFINE stored == Stored(c)
             e == cache[c]
  <2>1. Ordered(q, e, k, stored)
    BY DEF Trust, InOrder, q
  <2> HIDE DEF k, stored, e
  <2>2. Ordered(p, e, k, stored)
    BY <1>6, <2>1, FewerKeepsOrder
  <2>3. Ordered(r, e, k, stored)
    <3>1. CASE Added(r, p, t)
      BY <1>2, <1>3, <2>2, <3>1, BackupKeepsOrder
    <3>2. CASE Added(r, p, discardTask("shutdown"))
      BY <1>2, <2>2, <3>2, DiscardKeepsOrder
    <3> QED BY <1>1, <2>2, <3>1, <3>2
  <2>4. Ordered(r, cache'[c], k, stored)
    BY <1>10, <2>3 DEF Ordered, NoEntry, e
  <2> QED BY <1>4, <1>5, <2>4 DEF Ordered, k, stored
<1>12. Trusted(c)'
  <2> SUFFICES ASSUME copy[c].state = "open", c \notin reused, Deciding'
               PROVE  /\ Current(cache'[c], copy'[c]) => Shown(c)'
                      /\ Spares(r, cache'[c], copy'[c], Stored(c)')
    BY <1>4 DEF Trusted, r
  <2> DEFINE stored == Stored(c)
             e == cache[c]
  <2>1. cache'[c] = e /\ backupFile'[c] = backupFile[c] /\ Deciding
    BY <1>4, <1>10
  <2>2. (Current(e, k) => Shown(c)) /\ Spares(q, e, k, stored)
    BY <2>1 DEF Trust, Trusted, q
  <2>3. Current(cache'[c], copy'[c]) => Shown(c)'
    BY <1>4, <1>5, <2>1, <2>2 DEF Current, Shown, Whole
  <2> HIDE DEF k, stored, e
  <2>4. Spares(p, e, k, stored)
    BY <1>6, <2>2, FewerKeepsOrder
  <2>5. Spares(r, e, k, stored)
    <3>1. CASE Added(r, p, t)
      BY <1>2, <1>3, <2>4, <3>1, BackupKeepsOrder
    <3> QED BY <1>1, <2>4, <3>1
  <2>6. Spares(r, cache'[c], copy'[c], Stored(c)')
    BY <1>4, <1>5, <2>1, <2>5 DEF Spares, Current, k, stored
  <2> QED BY <2>3, <2>6
<1> QED BY <1>7, <1>8, <1>9, <1>11, <1>12 DEF Trust


\* A step of the window that leaves the queues, the entries and the files alone.
LEMMA PhaseSwept ==
  ASSUME Base, NEW c \in Copy, Trust(c), UNCHANGED <<disk, io, cache, reused>>, Alive' => Alive, Deciding' => Deciding,
         copy'[c].state = copy[c].state, copy'[c].content = copy[c].content,
         copy'[c].version = copy[c].version, copy'[c].stat = copy[c].stat,
         pending'[c].meta \in 0..disk[c].mtime,
         pending'[c].op = "snapshot" => pending'[c].content = copy[c].content /\ pending'[c].meta = copy[c].stat,
         backupFile'[c] \in {backupFile[c], NoBackup}, Deciding' => backupFile'[c] = backupFile[c]
  PROVE  Swept(c)
<1>1. io[c] \in Seq(Task) /\ Cut(io[c], io[c], "nobody") /\ io'[c] = io[c]
  BY BaseOf DEF Cut
<1> QED BY <1>1 DEF Swept

\* The same where the queue of c changes.
LEMMA QueueSwept ==
  ASSUME Base, NEW c \in Copy, Trust(c), UNCHANGED <<disk, cache, backupFile, reused>>, Alive' => Alive, Deciding' => Deciding,
         copy'[c].state = copy[c].state, copy'[c].content = copy[c].content,
         copy'[c].version = copy[c].version, copy'[c].stat = copy[c].stat,
         pending'[c].meta \in 0..disk[c].mtime,
         pending'[c].op = "snapshot" => pending'[c].content = copy[c].content /\ pending'[c].meta = copy[c].stat,
         NEW p \in Seq(Task), NEW who, p = io[c] \/ Cut(p, io[c], who),
         \/ io'[c] = p
         \/ \E by : Added(io'[c], p, backupTask(copy[c].content, copy[c].version, copy[c].stat, by))
         \/ Added(io'[c], p, discardTask("shutdown")) /\ ~Deciding'
  PROVE  Swept(c)
<1>1. Cut(p, io[c], who)
  BY DEF Cut
<1> QED BY <1>1 DEF Swept

\* A step that leaves a pending operation alone, or ends it.
LEMMA PendingSwept ==
  ASSUME Base, NEW c \in Copy, Trust(c), pending'[c] \in {pending[c], Idle}
  PROVE  /\ pending'[c].meta \in 0..disk[c].mtime
         /\ pending'[c].op = "snapshot" => pending'[c].content = copy[c].content /\ pending'[c].meta = copy[c].stat
<1>1. disk[c].mtime \in Nat
  BY BaseOf
<1> QED BY <1>1 DEF Trust, Bounded, Idle

LEMMA DecideSwept ==
  ASSUME Base, NEW c \in Copy, Trust(c),
         \/ restoreBackups \/ backedUp \/ confirmSave \/ confirmCancel \/ showErrorDialog \/ notDiscardedBackups
         \/ discarded \/ joinBackups \/ crash \/ discardBackups
  PROVE  Swept(c)
<1>1. shutdown \in Shutdown
  BY BaseOf
<1>2. CASE restoreBackups
  BY <1>2, PendingSwept, PhaseSwept DEF restoreBackups, service, ghosts, Alive, Deciding
<1>3. CASE backedUp
  <2>1. shutdown'.phase \in {"decided", "error", "confirm"} /\ shutdown.phase = "backup"
    BY <1>1, <1>3 DEF backedUp, Decide, NoShutdown, Shutdown
  <2> QED BY <1>3, <2>1, PendingSwept, PhaseSwept DEF backedUp, service, ghosts, Alive, Deciding
<1>4. CASE confirmSave
  <2>1. shutdown'.phase = "saving" /\ shutdown.phase = "confirm"
    BY <1>1, <1>4 DEF confirmSave, Shutdown
  <2> QED BY <1>4, <2>1, PendingSwept, PhaseSwept DEF confirmSave, service, tracker, ghosts, Alive, Deciding
<1>5. CASE confirmCancel
  BY <1>5, DecideEffect, PendingSwept, PhaseSwept DEF confirmCancel, service, ghosts, Alive, Deciding
<1>6. CASE showErrorDialog
  <2>1. PICK veto \in BOOLEAN : Decide(veto)
    BY <1>6 DEF showErrorDialog
  <2>2. shutdown'.phase \in {"running", "decided"} /\ shutdown.phase = "error"
    BY <1>6, <2>1, DecideEffect DEF showErrorDialog
  <2> QED BY <1>6, <2>2, PendingSwept, PhaseSwept DEF showErrorDialog, service, Alive, Deciding
<1>7. CASE notDiscardedBackups
  BY <1>7, DecideEffect, PendingSwept, PhaseSwept DEF notDiscardedBackups, service, Alive, Deciding
<1>8. CASE discarded
  BY <1>8, DecideEffect, PendingSwept, PhaseSwept DEF discarded, service, ghosts, Alive, Deciding
<1>9. CASE joinBackups \/ crash
  <2>1. shutdown'.phase = "gone"
    BY <1>9 DEF joinBackups, crash, Gone, NoShutdown
  <2> QED BY <1>9, <2>1, PendingSwept, PhaseSwept DEF joinBackups, crash, Gone, service, tracker, Alive, Deciding
<1>10. CASE discardBackups
  <2>1. shutdown'.phase = "clear" /\ shutdown.phase = "wipe"
    BY <1>1, <1>10 DEF discardBackups, Shutdown
  <2> QED BY <1>10, <2>1, PendingSwept, PhaseSwept DEF discardBackups, tracker, Alive, Deciding
<1> QED BY <1>2, <1>3, <1>4, <1>5, <1>6, <1>7, <1>8, <1>9, <1>10

LEMMA EntriesSwept ==
  ASSUME Base, NEW c \in Copy, Trust(c), resolveBackupsToRestore \/ discardedBackups
  PROVE  Swept(c)
<1>1. io[c] \in Seq(Task) /\ Cut(io[c], io[c], "nobody")
  BY BaseOf DEF Cut
<1>2. CASE resolveBackupsToRestore
  <2>1. \/ cache'[c] = cache[c]
        \/ resolve(c) /\ io[c] = <<>> /\ Alive /\ cache'[c] = [cache[c] EXCEPT !.meta = backupFile[c].meta]
    BY <1>2 DEF resolveBackupsToRestore
  <2>2. UNCHANGED <<copy, disk, pending, io, backupFile, shutdown, reused>>
    BY <1>2 DEF resolveBackupsToRestore, ghosts
  <2> QED BY <1>1, <2>1, <2>2, PendingSwept DEF Swept, Alive, Deciding
<1>3. CASE discardedBackups
  <2>1. shutdown'.phase = "decided" /\ shutdown.phase = "clear" /\ cache'[c] = NoEntry
    BY <1>3, DecideEffect DEF discardedBackups
  <2>2. UNCHANGED <<copy, disk, pending, io, backupFile, reused>>
    BY <1>3 DEF discardedBackups, ghosts
  <2> QED BY <1>1, <2>1, <2>2, PendingSwept DEF Swept, Alive, Deciding
<1> QED BY <1>2, <1>3

LEMMA NoVetoSwept ==
  ASSUME Base, NEW c \in Copy, Trust(c), shutdown.phase \in {"autosave", "confirm", "saving"},
         NEW discards \in SUBSET Copy, noVeto(discards), UNCHANGED <<disk, pending, cache, backupFile, reused>>,
         copy'[c].state = copy[c].state, copy'[c].content = copy[c].content,
         copy'[c].version = copy[c].version, copy'[c].stat = copy[c].stat
  PROVE  Swept(c)
<1>1. /\ shutdown'.phase \in {"discard", "decided"}
      /\ io'[c] = io[c] \/ Added(io'[c], io[c], discardTask("shutdown"))
  BY NoVetoEffect
<1>2. io[c] \in Seq(Task) /\ ~Deciding' /\ Alive /\ Deciding
  BY <1>1, BaseOf DEF Deciding, Alive
<1> QED BY <1>1, <1>2, PendingSwept, QueueSwept

LEMMA ModifiedSwept ==
  ASSUME Base, NEW c \in Copy, Trust(c), confirmDontSave \/ confirmedSaves \/ autoSaved
  PROVE  Swept(c)
<1>1. copy[c] \in WorkingCopy /\ shutdown \in Shutdown
  BY BaseOf
<1>2. shutdown.list \in SUBSET Copy
  BY <1>1 DEF Shutdown
<1>3. CASE confirmDontSave
  <2>1. /\ copy'[c].state = copy[c].state /\ copy'[c].content = copy[c].content
        /\ copy'[c].version = copy[c].version /\ copy'[c].stat = copy[c].stat
    BY <1>1, <1>3 DEF confirmDontSave, WorkingCopy
  <2> QED BY <1>2, <1>3, <2>1, NoVetoSwept DEF confirmDontSave
<1>4. CASE confirmedSaves
  <2>1. CASE noVeto(shutdown.list)
    BY <1>2, <1>4, <2>1, NoVetoSwept DEF confirmedSaves
  <2>2. CASE Decide(TRUE) /\ UNCHANGED io
    BY <1>4, <2>2, DecideEffect, PendingSwept, PhaseSwept DEF confirmedSaves, Alive, Deciding
  <2> QED BY <1>4, <2>1, <2>2 DEF confirmedSaves
<1>5. CASE autoSaved
  <2>1. CASE noVeto(shutdown.list)
    BY <1>2, <1>5, <2>1, NoVetoSwept DEF autoSaved, ghosts
  <2>2. CASE handleModifiedBeforeShutdown(shutdown, modifiedWorkingCopies(copy), io)
    <3>1. /\ shutdown'.phase \in {"confirm", "backup"}
          /\ \/ io'[c] = io[c]
             \/ Added(io'[c], io[c], backupTask(copy[c].content, copy[c].version, copy[c].stat, "shutdown"))
      <4>1. \A d \in Copy : Line(io[d], cache[d]) /\ \A i \in 1..Len(io[d]) : io[d][i].by # "shutdown"
        BY <1>5, BaseOf, NoShutdownTask DEF autoSaved
      <4>2. \A d \in Copy : copy[d].state = "open" => \A i \in 1..Len(io[d]) : io[d][i].by # "open"
        BY DEF Base, Owners, Owned
      <4>3. io \in [Copy -> Seq(Task)]
        BY DEF Base, Queues
      <4> QED BY <1>1, <2>2, <4>1, <4>2, <4>3, HandleEffect
    <3>2. io[c] \in Seq(Task)
      BY BaseOf
    <3> QED BY <1>5, <3>1, <3>2, PendingSwept, QueueSwept DEF autoSaved, ghosts, Alive, Deciding
  <2> QED BY <1>5, <2>1, <2>2 DEF autoSaved
<1> QED BY <1>3, <1>4, <1>5

LEMMA CancelSwept ==
  ASSUME Base, NEW c \in Copy, Trust(c), cancelProgress \/ onWillShutdown
  PROVE  Swept(c)
<1>1. shutdown \in Shutdown /\ io[c] \in Seq(Task) /\ Line(io[c], cache[c])
  BY BaseOf
<1>2. CASE cancelProgress
  <2>1. shutdown'.phase \in {"confirm", shutdown.phase} /\ shutdown.phase \in {"autosave", "saving", "backup", "discard"}
    BY <1>1, <1>2 DEF cancelProgress, Shutdown
  <2>2. shutdown'.phase = "confirm" => shutdown.phase = "backup"
    BY <1>1, <1>2, <2>1 DEF cancelProgress, Shutdown
  <2>3. io'[c] \in Seq(Task) /\ (io'[c] = io[c] \/ Cut(io'[c], io[c], "shutdown"))
    <3>1. CASE io'[c] = Cancelled(io[c], "shutdown")
      <4>1. Line(io'[c], cache[c]) /\ Cut(io'[c], io[c], "shutdown")
        BY <1>1, <3>1, CancelledEffect
      <4> QED BY <4>1 DEF Line
    <3>2. CASE io' = io
      BY <1>1, <3>2
    <3> QED BY <1>2, <3>1, <3>2 DEF cancelProgress
  <2> QED BY <1>2, <2>1, <2>2, <2>3, PendingSwept, QueueSwept DEF cancelProgress, tracker, Alive, Deciding
<1>3. CASE onWillShutdown
  <2>1. shutdown'.phase = "joining" /\ shutdown.phase = "decided"
    BY <1>1, <1>3 DEF onWillShutdown, Shutdown
  <2>2. io'[c] \in Seq(Task) /\ Cut(io'[c], io[c], "tracker") /\ pending'[c] = Idle
    BY <1>1, <1>3, CancelledEffect DEF onWillShutdown, Line
  <2> QED BY <1>3, <2>1, <2>2, PendingSwept, QueueSwept DEF onWillShutdown, Alive, Deciding
<1> QED BY <1>2, <1>3

LEMMA BeforeShutdownSwept ==
  ASSUME Base, NEW c \in Copy, Trust(c), NEW reason \in Reason, onFinalBeforeShutdown(reason)
  PROVE  Swept(c)
<1> DEFINE m == modifiedWorkingCopies(copy)
           q == [d \in Copy |-> Cancelled(io[d], "tracker")]
           except == IF emptyWindow THEN {} ELSE unrestored
           discards == {d \in Copy \ except : cache[d].known}
           sh == [NoShutdown EXCEPT !.reason = reason, !.list = m]
<1>1. /\ shutdown.phase = "running" /\ Alive /\ Deciding
      /\ pending'[c] = Idle
      /\ UNCHANGED <<copy, disk, cache, backupFile, reused>>
  BY DEF onFinalBeforeShutdown, Alive, Deciding
<1>2. \/ shutdown' = [sh EXCEPT !.phase = "autosave", !.left = m \cap AutoSave] /\ io' = q
      \/ handleModifiedBeforeShutdown(sh, m, q)
      \/ Decide(FALSE) /\ io' = q
      \/ shutdown' = [sh EXCEPT !.phase = "wipe"] /\ io' = q
      \/ /\ shutdown' = [sh EXCEPT !.phase = "discard", !.left = discards]
         /\ io' = [d \in Copy |-> IF d \in discards THEN Queued(q[d], cache[d], discardTask("shutdown")) ELSE q[d]]
  BY DEF onFinalBeforeShutdown
<1>3. m \subseteq Copy
  BY DEF modifiedWorkingCopies
<1>4. sh \in Shutdown
  <2>1. reason \in {"CLOSE", "QUIT", "RELOAD", "LOAD"}
    BY ConfigurationAssumption
  <2> QED BY <1>3, <2>1, Constants DEF Shutdown
<1>5. \A d \in Copy : /\ Line(q[d], cache[d]) /\ q[d] \in Seq(Task) /\ Cut(q[d], io[d], "tracker")
                      /\ \A i \in 1..Len(q[d]) : q[d][i].by # "shutdown"
                      /\ Owned(q[d], "none", copy[d].state, "running", d \in shutdown.left)
  BY <1>1, TrackerCancelled
<1>6. q \in [Copy -> Seq(Task)]
  BY <1>5
<1> HIDE DEF q, m, sh, discards
<1>7. \A d \in Copy : copy[d].state = "open" => \A i \in 1..Len(q[d]) : q[d][i].by # "open"
  BY <1>5 DEF Owned
<1>8. /\ \/ io'[c] = q[c]
         \/ Added(io'[c], q[c], backupTask(copy[c].content, copy[c].version, copy[c].stat, "shutdown"))
         \/ Added(io'[c], q[c], discardTask("shutdown")) /\ shutdown'.phase = "discard"
  <2>1. CASE handleModifiedBeforeShutdown(sh, m, q)
    BY <1>4, <1>5, <1>6, <1>7, <2>1, HandleEffect DEF m
  <2>2. CASE /\ shutdown' = [sh EXCEPT !.phase = "discard", !.left = discards]
             /\ io' = [d \in Copy |-> IF d \in discards THEN Queued(q[d], cache[d], discardTask("shutdown")) ELSE q[d]]
    <3>1. shutdown'.phase = "discard"
      BY <1>4, <2>2 DEF Shutdown
    <3>2. Added(Queued(q[c], cache[c], discardTask("shutdown")), q[c], discardTask("shutdown"))
      BY <1>5, QueuedDiscard
    <3> QED BY <2>2, <3>1, <3>2
  <2> QED BY <1>2, <2>1, <2>2
<1>9. q[c] \in Seq(Task) /\ Cut(q[c], io[c], "tracker") /\ (shutdown'.phase = "discard" => ~Deciding')
  BY <1>5 DEF Deciding
<1> DEFINE p == q[c]
<1> HIDE DEF p
<1>10. /\ p \in Seq(Task) /\ Cut(p, io[c], "tracker")
       /\ \/ io'[c] = p
          \/ Added(io'[c], p, backupTask(copy[c].content, copy[c].version, copy[c].stat, "shutdown"))
          \/ Added(io'[c], p, discardTask("shutdown")) /\ ~Deciding'
  BY <1>8, <1>9 DEF p
<1> QED BY <1>1, <1>10, PendingSwept, QueueSwept

\* The steps of the window but for the restart.
LEMMA WindowSwept ==
  ASSUME Base, NEW c \in Copy, Trust(c), Windowed, ~restart
  PROVE  Swept(c)
BY DecideSwept, EntriesSwept, ModifiedSwept, CancelSwept, BeforeShutdownSwept DEF Windowed, Restoring, Dialog

\* A window that begins knows of its backups that there are some.
LEMMA ListedTrust ==
  ASSUME NEW c \in Copy, copy[c] = Closed, disk[c].mtime \in Nat, pending[c] = Idle, io[c] = <<>>,
         cache[c] \in {NoEntry, [known |-> TRUE, version |-> 0, meta |-> Unknown]},
         Whole(c) => backupFile[c].meta \in 0..disk[c].mtime
  PROVE  Trust(c)
<1>1. Len(io[c]) = 0 /\ 1..Len(io[c]) = {}
  BY EmptySeq
<1>2. Bounded(c)
  BY <1>1 DEF Bounded, InBounds, Closed, Idle, NoEntry, Unknown
<1>3. Filed(c) /\ InOrder(c) /\ Trusted(c)
  BY DEF Filed, Written, InOrder, Trusted, Closed
<1>4. Mirrored(c)
  BY DEF Mirrored, Closed, NoEntry
<1> QED BY <1>2, <1>3, <1>4 DEF Trust

LEMMA RestartTrust ==
  ASSUME Base, NEW c \in Copy, Trust(c), restart
  PROVE  Trust(c)'
<1>1. backupFile \in [Copy -> BackupFile] /\ disk[c].mtime \in Nat
  BY BaseOf
<1>2. cache'[c] \in {NoEntry, [known |-> TRUE, version |-> 0, meta |-> Unknown]}
  BY <1>1, ListedType DEF restart
<1>3. copy'[c] = Closed /\ pending'[c] = Idle /\ io'[c] = <<>> /\ disk' = disk /\ backupFile' = backupFile
  BY DEF restart
<1>4. Len(io'[c]) = 0 /\ 1..Len(io'[c]) = {}
  BY <1>3, EmptySeq
<1>5. Bounded(c)'
  BY <1>1, <1>2, <1>3, <1>4 DEF Bounded, InBounds, Closed, Idle, NoEntry, Unknown, Trust, Whole
<1>6. Filed(c)' /\ InOrder(c)' /\ Trusted(c)'
  BY <1>3 DEF Filed, Written, InOrder, Trusted, Closed
<1>7. Mirrored(c)'
  BY <1>2, <1>3 DEF Mirrored, Closed, NoEntry
<1> QED BY <1>5, <1>6, <1>7 DEF Trust

LEMMA TrustInit ==
  ASSUME Init, NEW c \in Copy
  PROVE  Trust(c)
<1>1. backupFile \in [Copy -> BackupFile] /\ Base
  BY BaseInit, BaseOf
<1>2. cache[c] \in {NoEntry, [known |-> TRUE, version |-> 0, meta |-> Unknown]}
  BY <1>1, ListedType DEF Init
<1>3. Whole(c) => backupFile[c].meta \in 0..disk[c].mtime
  BY DEF Init, Whole, NoBackup
<1>4. copy[c] = Closed /\ disk[c].mtime \in Nat /\ pending[c] = Idle /\ io[c] = <<>>
  BY DEF Init
<1> QED BY <1>2, <1>3, <1>4, ListedTrust

-----------------------------------------------------------------------------
(* What a shutdown trusts: steps of one copy *)

\* How the queue of a copy that changed follows from the one it had.
LEMMA ChangedQueue ==
  ASSUME Base, NEW c \in Copy, NEW k, NEW dirty \in BOOLEAN, NEW content \in BOOLEAN, Changed(c, k, dirty, content)
  PROVE  \E p \in Seq(Task) :
           /\ Cut(p, io[c], "tracker")
           /\ \/ io'[c] = p /\ (~suspended /\ ~k.modified => ~dirty)
              \/ Added(io'[c], p, discardTask("tracker")) /\ ~k.modified /\ ~suspended
           /\ \/ pending'[c].op \in {"timer", "discard"} /\ pending'[c].meta = 0
              \/ pending'[c] = pending[c] /\ (suspended \/ ~(dirty \/ (k.modified /\ content)))
<1>1. io[c] \in Seq(Task)
  BY BaseOf
<1>2. CASE ~suspended /\ k.modified /\ scheduleBackup(c)
  <2>1. Line(io'[c], cache[c]) /\ Cut(io'[c], io[c], "tracker") /\ pending'[c] = [Idle EXCEPT !.op = "timer"]
    BY <1>2, ScheduleEffect
  <2>2. io'[c] \in Seq(Task) /\ pending'[c].op = "timer" /\ pending'[c].meta = 0
    BY <2>1 DEF Line, Idle
  <2> QED BY <1>2, <2>1, <2>2
<1>3. CASE ~suspended /\ ~k.modified /\ discardBackup(c)
  <2> DEFINE p == Cancelled(io[c], "tracker")
  <2>1. /\ pending'[c] = [Idle EXCEPT !.op = "discard"]
        /\ Added(io'[c], p, discardTask("tracker")) /\ Line(p, cache[c]) /\ Cut(p, io[c], "tracker")
    BY <1>3, DiscardEffect
  <2> HIDE DEF p
  <2>2. p \in Seq(Task) /\ pending'[c].op = "discard" /\ pending'[c].meta = 0
    BY <2>1 DEF Line, Idle
  <2> QED BY <1>3, <2>1, <2>2
<1>4. CASE (suspended \/ ~(dirty \/ (k.modified /\ content))) /\ UNCHANGED <<pending, io>>
  <2>1. Cut(io[c], io[c], "tracker") /\ io'[c] = io[c] /\ pending'[c] = pending[c]
    BY <1>4 DEF Cut
  <2>2. ~suspended /\ ~k.modified => ~dirty
    BY <1>4
  <2> QED BY <1>1, <1>4, <2>1, <2>2
<1> QED BY <1>2, <1>3, <1>4 DEF Changed

\* A queue that is cut short and may have got a discard, or the task of an editor.
Reacted(c) == \E p \in Seq(Task) :
  /\ \E who : Cut(p, io[c], who)
  /\ \/ io'[c] = p
     \/ \E by : Added(io'[c], p, discardTask(by))
     \/ Added(io'[c], p, resolveTask)

\* It keeps what is true of the file and of the order of the backups.
LEMMA ReactedOrder ==
  ASSUME Base, NEW c \in Copy, Reacted(c), NEW e, NEW k, NEW stored, Ordered(io[c], e, k, stored)
  PROVE  Ordered(io'[c], e, k, stored)
<1> DEFINE q == io[c]
           r == io'[c]
<1>1. PICK p \in Seq(Task) :
        /\ \E who : Cut(p, q, who)
        /\ r = p \/ (\E by : Added(r, p, discardTask(by))) \/ Added(r, p, resolveTask)
  BY DEF Reacted
<1>2. Ordered(q, e, k, stored) /\ q \in Seq(Task)
  BY BaseOf
<1> HIDE DEF q, r
<1>3. Len(p) \in Nat /\ Fewer(p, q)
  BY <1>1, <1>2, CutFewer, QueueElements
<1>4. Ordered(p, e, k, stored)
  BY <1>2, <1>3, FewerKeepsOrder
<1>5. CASE \E by : Added(r, p, discardTask(by))
  BY <1>3, <1>4, <1>5, DiscardKeepsOrder DEF r
<1>6. CASE Added(r, p, resolveTask)
  <2> DEFINE n == Len(p) + 1
  <2>1. /\ \A i \in 1..Len(r) : i \in 1..Len(p) \/ i = n
        /\ \A i \in 1..Len(p) : r[i] = p[i]
        /\ r[n].kind = "resolve"
    BY <1>3, <1>6 DEF Added, Alike, resolveTask
  <2> HIDE DEF n
  <2>2. \A i \in 1..Len(r) : r[i].kind = "backup" => i \in 1..Len(p) /\ r[i] = p[i]
    BY <2>1
  <2>3. Ordered(r, e, k, stored)
    BY <1>4, <2>2 DEF Ordered
  <2> QED BY <2>3 DEF r
<1> QED BY <1>1, <1>4, <1>5, <1>6 DEF r

LEMMA ReactedFile ==
  ASSUME Base, Base', NEW c \in Copy, Reacted(c), Trust(c), backupFile'[c] = backupFile[c],
         shutdown'.phase = shutdown.phase, cache'[c] = cache[c], disk[c].mtime <= disk'[c].mtime,
         copy'[c].state = "open" => copy[c].state = "open"
  PROVE  Filed(c)' /\ Mirrored(c)' /\ InBounds(io'[c], disk'[c].mtime)
<1> DEFINE q == io[c]
           r == io'[c]
<1>1. PICK p \in Seq(Task) :
        /\ \E who : Cut(p, q, who)
        /\ r = p \/ (\E by : Added(r, p, discardTask(by))) \/ Added(r, p, resolveTask)
  BY DEF Reacted
<1>2. q \in Seq(Task) /\ r \in Seq(Task) /\ disk[c].mtime \in Nat /\ disk'[c].mtime \in Nat
  <2>1. r \in Seq(Task)
    BY DEF Base, Queues
  <2>2. disk'[c] \in [content : Content, mtime : Nat]
    BY DEF Base, Typed, DiskOK
  <2> QED BY <2>1, <2>2, BaseOf
<1>3. InBounds(q, disk[c].mtime) /\ Written(q, backupFile[c], Deciding) /\ (Deciding' <=> Deciding) /\ (Alive' <=> Alive)
  BY DEF Trust, Bounded, Filed, Deciding, Alive
<1> HIDE DEF q, r
<1>4. Len(p) \in Nat /\ Fewer(p, q) /\ SameHead(p, q)
  BY <1>1, <1>2, CutFewer, QueueElements, HeadsKept
<1>5. SameHead(r, q)
  <2>1. SameHead(r, p) \/ r = p
    BY <1>1, <1>2, HeadsKept
  <2> QED BY <1>4, <2>1, SameHeadTransitive
<1>6. InBounds(p, disk[c].mtime)
  BY <1>3, <1>4, FewerKeepsOrder
<1>7. \A i \in 1..Len(r) : r[i].meta \in 0..disk[c].mtime
  <2>1. CASE r = p
    BY <1>6, <2>1 DEF InBounds
  <2>2. CASE (\E by : Added(r, p, discardTask(by))) \/ Added(r, p, resolveTask)
    <3>1. /\ \A i \in 1..Len(r) : i \in 1..Len(p) \/ i = Len(p) + 1
          /\ \A i \in 1..Len(p) : r[i] = p[i]
          /\ r[Len(p) + 1].meta = 0
      BY <1>4, <2>2 DEF Added, Alike, discardTask, resolveTask
    <3> QED BY <1>2, <1>6, <3>1 DEF InBounds
  <2> QED BY <1>1, <2>1, <2>2
<1>8. InBounds(io'[c], disk'[c].mtime)
  BY <1>2, <1>7, SMTT(20) DEF InBounds, r
<1>9. Filed(c)'
  <2>1. Written(r, backupFile[c], Deciding)
    BY <1>3, <1>5 DEF Written, SameHead, Kin
  <2>2. Written(r, backupFile'[c], Deciding')
    BY <1>3, <2>1 DEF Written
  <2> QED BY <2>2 DEF Filed, r
<1>10. Mirrored(c)'
  <2> SUFFICES ASSUME Alive', Whole(c)', cache'[c].known, ~HeadDone(r)
               PROVE  /\ cache'[c].meta \in {Unknown, backupFile'[c].meta}
                      /\ copy'[c].state = "open" => cache'[c].meta = backupFile'[c].meta
    BY DEF Mirrored, r
  <2>1. ~HeadDone(q)
    BY <1>5 DEF SameHead, HeadDone, Kin
  <2> QED BY <1>3, <2>1 DEF Trust, Mirrored, q, Whole
<1> QED BY <1>8, <1>9, <1>10

\* A copy of a new version has no backup of it.
LEMMA NewVersion ==
  ASSUME NEW q, NEW e, NEW k, NEW stored, NEW l, NEW now, Ordered(q, e, k, stored), k.version \in Nat,
         l.version = k.version + 1, e.version \in Nat, \A i \in 1..Len(q) : q[i].version \in Nat
  PROVE  Ordered(q, e, l, now) /\ Spares(q, e, l, now) /\ ~Current(e, l)
<1>1. e.known => e.version <= k.version
  BY DEF Ordered, NoLater
<1>2. \A i \in 1..Len(q) : q[i].kind = "backup" => q[i].version <= k.version
  BY DEF Ordered, NoLater
<1>3. ~Current(e, l)
  BY <1>1 DEF Current
<1>4. e.known => /\ NoLater(e.version, e.meta, l.version, l.stat)
                 /\ e.version = l.version /\ e.meta # l.stat => now
  BY <1>1 DEF NoLater
<1>5. ASSUME NEW i \in 1..Len(q), q[i].kind = "backup"
      PROVE  /\ NoLater(q[i].version, q[i].meta, l.version, l.stat)
             /\ q[i].version < l.version
             /\ q[i].version = l.version => q[i].content = l.content /\ (q[i].meta # l.stat => now)
  BY <1>2, <1>5 DEF NoLater
<1>6. Ordered(q, e, l, now)
  BY <1>4, <1>5 DEF Ordered
<1>7. Spares(q, e, l, now)
  BY <1>3, <1>5 DEF Spares
<1> QED BY <1>3, <1>6, <1>7

\* A copy that is stored as it is keeps its backups in order.
LEMMA StoredOrder ==
  ASSUME NEW q, NEW e, NEW k, NEW stored, NEW l, Ordered(q, e, k, stored), l.version = k.version, l.content = k.content,
         k.stat \in Int, l.stat \in Int, k.stat <= l.stat, e.meta \in Int, \A i \in 1..Len(q) : q[i].meta \in Int
  PROVE  Ordered(q, e, l, TRUE)
<1>1. e.known => NoLater(e.version, e.meta, l.version, l.stat)
  BY DEF Ordered, NoLater
<1>2. ASSUME NEW i \in 1..Len(q), q[i].kind = "backup"
      PROVE  /\ NoLater(q[i].version, q[i].meta, l.version, l.stat)
             /\ q[i].version = l.version => q[i].content = l.content
  BY <1>2 DEF Ordered, NoLater
<1> QED BY <1>1, <1>2 DEF Ordered

LEMMA TimerSwept ==
  ASSUME Base, NEW c \in Copy, Trust(c), timer(c) \/ revert(c) \/ revertFails(c) \/ notSavedBeforeShutdown(c)
  PROVE  Swept(c)
<1>1. /\ copy \in [Copy -> WorkingCopy] /\ copy[c] \in WorkingCopy /\ shutdown \in Shutdown
      /\ pending \in [Copy -> Operation]
  BY BaseOf
<1>2. CASE timer(c)
  <2>1. /\ pending'[c].meta \in 0..disk[c].mtime
        /\ pending'[c].op = "snapshot" => pending'[c].content = copy[c].content /\ pending'[c].meta = copy[c].stat
    <3>1. CASE copy[c].modified
      <4>1. pending'[c] = [op |-> "snapshot", content |-> copy[c].content, meta |-> copy[c].stat]
        BY <1>1, <1>2, <3>1 DEF timer
      <4> QED BY <4>1 DEF Trust, Bounded
    <3>2. CASE ~copy[c].modified
      <4>1. pending'[c] = Idle
        BY <1>1, <1>2, <3>2 DEF timer
      <4> QED BY <4>1, PendingSwept
    <3> QED BY <3>1, <3>2
  <2>2. UNCHANGED <<copy, disk, io, cache, backupFile, reused, shutdown>>
    BY <1>2 DEF timer, service, ghosts
  <2> QED BY <2>1, <2>2, PhaseSwept DEF Alive, Deciding
<1>3. CASE revert(c) \/ revertFails(c)
  <2>1. /\ copy'[c].state = copy[c].state /\ copy'[c].content = copy[c].content
        /\ copy'[c].version = copy[c].version /\ copy'[c].stat = copy[c].stat
    BY <1>1, <1>3 DEF revert, revertFails, WorkingCopy
  <2>2. UNCHANGED <<disk, pending, io, cache, backupFile, reused, shutdown>>
    BY <1>3 DEF revert, revertFails, service, tracker
  <2> QED BY <2>1, <2>2, PendingSwept, PhaseSwept DEF Alive, Deciding
<1>4. CASE notSavedBeforeShutdown(c)
  <2>1. UNCHANGED <<copy, disk, pending, io, cache, backupFile, reused>> /\ shutdown'.phase = shutdown.phase
    BY <1>1, <1>4 DEF notSavedBeforeShutdown, service, tracker, Shutdown
  <2> QED BY <2>1, PendingSwept, PhaseSwept DEF Alive, Deciding
<1> QED BY <1>2, <1>3, <1>4

LEMMA SnapshotSwept ==
  ASSUME Base, NEW c \in Copy, Trust(c), snapshotTaken(c)
  PROVE  Swept(c)
<1> DEFINE t == backupTask(pending[c].content, copy[c].version, pending[c].meta, "tracker")
<1>1. /\ copy[c] \in WorkingCopy /\ pending \in [Copy -> Operation] /\ pending[c] \in Operation
      /\ io \in [Copy -> Seq(Task)] /\ io[c] \in Seq(Task) /\ Line(io[c], cache[c])
      /\ Owned(io[c], pending[c].op, copy[c].state, shutdown.phase, c \in shutdown.left)
  BY BaseOf
<1>2. /\ Alive /\ pending[c].op = "snapshot"
      /\ pending[c].content = copy[c].content /\ pending[c].meta = copy[c].stat
      /\ UNCHANGED <<copy, disk, cache, backupFile, reused, shutdown>>
  BY DEF snapshotTaken, Trust, Bounded, ghosts
<1>3. CASE copy[c].modified /\ Needed(t, cache[c])
  <2>1. pending'[c] = [pending[c] EXCEPT !.op = "backup"] /\ io'[c] = Queued(io[c], cache[c], t)
    BY <1>1, <1>3 DEF snapshotTaken
  <2>2. Added(io'[c], io[c], t)
    <3>1. \A i \in 1..Len(io[c]) : io[c][i].by # "tracker"
      <4>1. \A i \in 1..Len(io[c]) : io[c][i] \in Task
        BY <1>1, QueueElements
      <4>2. \A i \in 1..Len(io[c]) : io[c][i].kind # "snapshot"
        BY <4>1 DEF Task
      <4> QED BY <1>1, <1>2, <4>2 DEF Owned
    <3>2. ~has(cache[c], copy[c].version, copy[c].stat)
      BY <1>2, <1>3 DEF Needed, backupTask
    <3>3. copy[c].content \in Content /\ copy[c].version \in Nat /\ copy[c].stat \in Meta
      BY <1>1 DEF WorkingCopy
    <3> QED BY <1>1, <1>2, <2>1, <3>1, <3>2, <3>3, QueuedBackup
  <2>3. t = backupTask(copy[c].content, copy[c].version, copy[c].stat, "tracker")
    BY <1>2
  <2>4. pending'[c].meta \in 0..disk[c].mtime /\ pending'[c].op = "backup"
    BY <1>1, <2>1 DEF Operation, Trust, Bounded
  <2> HIDE DEF t
  <2>5. \E by : Added(io'[c], io[c], backupTask(copy[c].content, copy[c].version, copy[c].stat, by))
    BY <2>2, <2>3
  <2> QED BY <1>1, <1>2, <2>4, <2>5, QueueSwept DEF Alive, Deciding
<1>4. CASE ~(copy[c].modified /\ Needed(t, cache[c]))
  <2>1. pending'[c] = Idle /\ io' = io
    BY <1>1, <1>4 DEF snapshotTaken
  <2> QED BY <1>2, <2>1, PendingSwept, PhaseSwept DEF Alive, Deciding
<1> QED BY <1>3, <1>4

\* Changes that keep the content and leave the copy modified.
LEMMA StillModifiedSwept ==
  ASSUME Base, NEW c \in Copy, Trust(c), IsOpen(c), NEW k \in WorkingCopy, Changed(c, k, TRUE, FALSE), k.modified,
         k.state = "open", k.content = copy[c].content, k.version = copy[c].version, k.stat = copy[c].stat,
         UNCHANGED <<disk, cache, backupFile, shutdown, reused>>
  PROVE  Swept(c)
<1>1. copy'[c] = [k EXCEPT !.version = @]
  BY ChangedEffect
<1>2. /\ copy'[c].state = copy[c].state /\ copy'[c].content = copy[c].content
      /\ copy'[c].version = copy[c].version /\ copy'[c].stat = copy[c].stat
  BY <1>1 DEF WorkingCopy, IsOpen
<1>3. PICK p \in Seq(Task) :
        /\ Cut(p, io[c], "tracker") /\ io'[c] = p
        /\ \/ pending'[c].op \in {"timer", "discard"} /\ pending'[c].meta = 0
           \/ pending'[c] = pending[c]
  BY ChangedQueue
<1>4. /\ pending'[c].meta \in 0..disk[c].mtime
      /\ pending'[c].op = "snapshot" => pending'[c].content = copy[c].content /\ pending'[c].meta = copy[c].stat
  <2>1. disk[c].mtime \in Nat
    BY BaseOf
  <2> QED BY <1>3, <2>1, PendingSwept
<1> QED BY <1>2, <1>3, <1>4, QueueSwept DEF Alive, Deciding

LEMMA ModifiedAgainSwept ==
  ASSUME Base, NEW c \in Copy, Trust(c), saveFails(c) \/ (reverted(c) /\ copy[c].modified)
  PROVE  Swept(c)
<1>1. copy[c] \in WorkingCopy
  BY BaseOf
<1>2. CASE saveFails(c)
  <2> DEFINE k == [copy[c] EXCEPT !.modified = TRUE]
  <2>1. /\ k \in WorkingCopy /\ k.modified /\ k.content = copy[c].content /\ k.version = copy[c].version
        /\ k.stat = copy[c].stat /\ k.state = copy[c].state
    BY <1>1 DEF WorkingCopy
  <2>2. /\ Changed(c, k, TRUE, FALSE) /\ IsOpen(c) /\ copy[c].state = "open"
        /\ UNCHANGED <<disk, cache, backupFile, shutdown, reused>>
    BY <1>2 DEF saveFails, IsOpen
  <2> HIDE DEF k
  <2> QED BY <2>1, <2>2, StillModifiedSwept
<1>3. CASE reverted(c) /\ copy[c].modified
  <2> DEFINE k == [copy[c] EXCEPT !.reverting = FALSE]
  <2>1. /\ k \in WorkingCopy /\ k.modified /\ k.content = copy[c].content /\ k.version = copy[c].version
        /\ k.stat = copy[c].stat /\ k.state = copy[c].state
    BY <1>1, <1>3 DEF WorkingCopy
  <2>2. /\ Changed(c, k, TRUE, FALSE) /\ IsOpen(c) /\ copy[c].state = "open"
        /\ UNCHANGED <<disk, cache, backupFile, shutdown, reused>>
    BY <1>3 DEF reverted, IsOpen
  <2> HIDE DEF k
  <2> QED BY <2>1, <2>2, StillModifiedSwept
<1> QED BY <1>2, <1>3

\* What is pending for a copy after a change that the tracker reacts to.
LEMMA ReactedPending ==
  ASSUME Base, NEW c \in Copy, Trust(c), NEW now \in Nat, disk[c].mtime <= now,
         \/ pending'[c].op \in {"timer", "discard"} /\ pending'[c].meta = 0
         \/ pending'[c] = pending[c] /\ suspended
  PROVE  pending'[c].meta \in 0..now /\ pending'[c].op # "snapshot"
<1>1. disk[c].mtime \in Nat /\ (suspended => pending[c].op = "none")
  BY BaseOf
<1>2. pending[c].meta \in 0..disk[c].mtime
  BY DEF Trust, Bounded
<1> QED BY <1>1, <1>2

\* A change of the content, to that of the file unless the copy is modified.
LEMMA VersionTrust ==
  ASSUME Base, Base', NEW c \in Copy, Trust(c), IsOpen(c), NEW k \in WorkingCopy, k.state = "open",
         NEW dirty \in BOOLEAN, Changed(c, k, dirty, TRUE), k.modified \/ dirty, k.version = copy[c].version,
         k.stat \in 0..disk[c].mtime, k.modified \/ k.content = disk[c].content,
         UNCHANGED <<disk, cache, backupFile, shutdown, reused>>
  PROVE  Trust(c)'
<1> DEFINE q == io[c]
           r == io'[c]
           e == cache[c]
           l == copy'[c]
           old == copy[c]
           stored == Stored(c)
           now == Stored(c)'
<1>1. l = [k EXCEPT !.version = @ + 1]
  <2> DEFINE content == TRUE
  <2>1. Changed(c, k, dirty, content) /\ content \in BOOLEAN
    OBVIOUS
  <2> HIDE DEF content
  <2>2. copy'[c] = [k EXCEPT !.version = IF content THEN @ + 1 ELSE @]
    BY <2>1, ChangedEffect
  <2> QED BY <2>2 DEF content
<1>2. /\ l.state = "open" /\ l.content = k.content /\ l.version = old.version + 1 /\ l.stat = k.stat
      /\ old.version \in Nat /\ old.state = "open"
  BY <1>1, BaseOf DEF WorkingCopy, IsOpen
<1>3. PICK p \in Seq(Task) :
        /\ Cut(p, q, "tracker")
        /\ \/ r = p
           \/ Added(r, p, discardTask("tracker")) /\ ~k.modified
        /\ \/ pending'[c].op \in {"timer", "discard"} /\ pending'[c].meta = 0
           \/ pending'[c] = pending[c] /\ suspended
  <2>1. PICK p \in Seq(Task) :
          /\ Cut(p, q, "tracker")
          /\ \/ r = p /\ (~suspended /\ ~k.modified => ~dirty)
             \/ Added(r, p, discardTask("tracker")) /\ ~k.modified /\ ~suspended
          /\ \/ pending'[c].op \in {"timer", "discard"} /\ pending'[c].meta = 0
             \/ pending'[c] = pending[c] /\ (suspended \/ ~(dirty \/ (k.modified /\ TRUE)))
    <3> HIDE DEF q, r
    <3> QED BY ChangedQueue DEF q, r
  <2> QED BY <2>1
<1>4. /\ q \in Seq(Task) /\ e \in Entry /\ \A i \in 1..Len(q) : q[i] \in Task
      /\ disk[c].mtime \in Nat
  BY BaseOf, QueueElements
<1>5. Reacted(c)
  BY <1>3 DEF Reacted
<1>6. (Deciding' <=> Deciding) /\ (Whole(c)' <=> Whole(c))
  BY DEF Deciding, Whole
<1>7. Filed(c)' /\ Mirrored(c)' /\ InBounds(r, disk'[c].mtime)
  BY <1>2, <1>4, <1>5, ReactedFile
<1>8. Bounded(c)'
  <2>1. pending'[c].meta \in 0..disk[c].mtime /\ pending'[c].op # "snapshot"
    BY <1>3, <1>4, ReactedPending
  <2> QED BY <1>2, <1>6, <1>7, <2>1 DEF Trust, Bounded
<1>9. ASSUME c \notin reused
      PROVE  Ordered(r, e, l, now) /\ Spares(r, e, l, now) /\ ~Current(e, l)
  <2>1. Ordered(q, e, old, stored)
    BY <1>2, <1>9 DEF Trust, InOrder
  <2>2. e.version \in Nat /\ \A i \in 1..Len(q) : q[i].version \in Nat
    BY <1>4 DEF Entry, Task
  <2>3. ~k.modified => now
    BY <1>2 DEF Stored
  <2> HIDE DEF q, r, e, l, old, stored, now
  <2>4. Ordered(q, e, l, now) /\ Spares(q, e, l, now) /\ ~Current(e, l)
    BY <1>2, <2>1, <2>2, NewVersion
  <2>5. Ordered(r, e, l, now)
    BY <1>5, <2>4, ReactedOrder DEF q, r
  <2>6. Spares(r, e, l, now)
    <3>1. CASE r = p
      <4>1. Fewer(p, q)
        BY <1>3, <1>4, CutFewer
      <4> QED BY <2>4, <3>1, <4>1, FewerKeepsOrder
    <3>2. CASE ~k.modified
      BY <2>3, <3>2 DEF Spares
    <3> QED BY <1>3, <3>1, <3>2
  <2> QED BY <2>4, <2>5, <2>6
<1>10. InOrder(c)'
  BY <1>9 DEF InOrder
<1>11. Trusted(c)'
  BY <1>9 DEF Trusted
<1> QED BY <1>7, <1>8, <1>10, <1>11 DEF Trust

LEMMA EditingTrust ==
  ASSUME Base, Base', NEW c \in Copy, Trust(c), edit(c) \/ undo(c) \/ (reverted(c) /\ ~copy[c].modified)
  PROVE  Trust(c)'
<1>1. /\ copy[c] \in WorkingCopy /\ copy[c].modified \in BOOLEAN /\ disk[c] \in [content : Content, mtime : Nat]
      /\ disk[c].mtime \in Nat /\ disk[c].mtime \in Meta
  BY BaseOf, Numbers DEF WorkingCopy
<1>2. copy[c].stat \in 0..disk[c].mtime
  BY DEF Trust, Bounded
<1>3. CASE edit(c)
  <2> DEFINE k == [copy[c] EXCEPT !.content = spent["changes"] + 2, !.modified = TRUE]
             dirty == ~copy[c].modified
  <2>0. spent["changes"] + 2 \in Content
    <3>1. spent \in [Kind -> Nat] /\ spent["changes"] < MaxChanges
      BY <1>3 DEF edit, Spend, Base, Typed, GhostsOK
    <3>2. spent["changes"] \in Nat
      BY <3>1 DEF Kind
    <3> QED BY <3>1, <3>2, Numbers
  <2>1. /\ k \in WorkingCopy /\ k.modified /\ k.version = copy[c].version
        /\ k.stat = copy[c].stat /\ k.state = copy[c].state
    BY <1>1, <2>0 DEF WorkingCopy
  <2>2. /\ Changed(c, k, dirty, TRUE) /\ IsOpen(c) /\ copy[c].state = "open" /\ dirty \in BOOLEAN
        /\ UNCHANGED <<disk, cache, backupFile, shutdown, reused>>
    BY <1>3 DEF edit, IsOpen
  <2> HIDE DEF k, dirty
  <2> QED BY <1>2, <2>1, <2>2, VersionTrust
<1>4. CASE undo(c)
  <2> DEFINE k == [copy[c] EXCEPT !.content = disk[c].content, !.modified = FALSE]
  <2>1. /\ k \in WorkingCopy /\ k.version = copy[c].version /\ k.content = disk[c].content
        /\ k.stat = copy[c].stat /\ k.state = copy[c].state
    BY <1>1 DEF WorkingCopy
  <2>2. /\ Changed(c, k, TRUE, TRUE) /\ IsOpen(c) /\ copy[c].state = "open"
        /\ UNCHANGED <<disk, cache, backupFile, shutdown, reused>>
    BY <1>4 DEF undo, IsOpen
  <2> HIDE DEF k
  <2> QED BY <1>2, <2>1, <2>2, VersionTrust
<1>5. CASE reverted(c) /\ ~copy[c].modified
  <2> DEFINE k == [copy[c] EXCEPT !.reverting = FALSE, !.content = disk[c].content,
                                  !.stat = disk[c].mtime, !.undoable = TRUE]
  <2>1. /\ k \in WorkingCopy /\ k.version = copy[c].version /\ k.content = disk[c].content
        /\ k.stat = disk[c].mtime /\ k.state = copy[c].state
    BY <1>1 DEF WorkingCopy
  <2>2. /\ Changed(c, k, TRUE, TRUE) /\ IsOpen(c) /\ copy[c].state = "open"
        /\ UNCHANGED <<disk, cache, backupFile, shutdown, reused>>
    BY <1>5 DEF reverted, IsOpen
  <2>3. k.stat \in 0..disk[c].mtime
    BY <1>1, <2>1
  <2> HIDE DEF k
  <2> QED BY <2>1, <2>2, <2>3, VersionTrust
<1> QED BY <1>3, <1>4, <1>5

LEMMA SavingTrust ==
  ASSUME Base, Base', NEW c \in Copy, Trust(c), save(c) \/ savedBeforeShutdown(c)
  PROVE  Trust(c)'
<1> DEFINE q == io[c]
           r == io'[c]
           e == cache[c]
           l == copy'[c]
           old == copy[c]
           k == [copy[c] EXCEPT !.modified = FALSE, !.stat = disk[c].mtime + 1, !.undoable = TRUE]
<1>1. /\ old \in WorkingCopy /\ shutdown \in Shutdown /\ q \in Seq(Task) /\ e \in Entry
      /\ disk \in [Copy -> [content : Content, mtime : Nat]] /\ disk[c].mtime \in Nat
      /\ old.state # "open" => ~old.modified
      /\ \A i \in 1..Len(q) : q[i] \in Task
  BY BaseOf, QueueElements
<1>2. /\ Saved(c) /\ old.modified /\ shutdown'.phase = shutdown.phase /\ Alive
      /\ UNCHANGED <<cache, backupFile, suspended, reused>>
  BY <1>1 DEF save, savedBeforeShutdown, IsOpen, Shutdown, Saving, Alive
<1>3. old.state = "open" /\ IsOpen(c) /\ Changed(c, k, TRUE, FALSE)
  BY <1>1, <1>2 DEF IsOpen, Saved
<1>4. disk'[c].content = old.content /\ disk'[c].mtime = disk[c].mtime + 1
  BY <1>1, <1>2 DEF Saved
<1>5. /\ k \in WorkingCopy /\ k.state = "open" /\ k.content = old.content /\ k.version = old.version
      /\ k.stat = disk[c].mtime + 1 /\ ~k.modified
  <2>1. disk[c].mtime + 1 \in Meta
    BY <1>1, Numbers
  <2> QED BY <1>1, <1>3, <2>1 DEF WorkingCopy
<1> HIDE DEF k
<1>6. l = [k EXCEPT !.version = @]
  BY <1>3, <1>5, ChangedEffect
<1>7. /\ l.state = "open" /\ l.content = old.content /\ l.version = old.version
      /\ l.stat = disk[c].mtime + 1 /\ Stored(c)'
  BY <1>4, <1>5, <1>6 DEF WorkingCopy, Stored
<1>8. PICK p \in Seq(Task) :
        /\ Cut(p, q, "tracker")
        /\ r = p \/ Added(r, p, discardTask("tracker"))
        /\ \/ pending'[c].op \in {"timer", "discard"} /\ pending'[c].meta = 0
           \/ pending'[c] = pending[c] /\ suspended
  BY <1>3, ChangedQueue
<1>9. Reacted(c)
  BY <1>8 DEF Reacted
<1>10. (Deciding' <=> Deciding) /\ (Whole(c)' <=> Whole(c))
  BY <1>2 DEF Deciding, Whole
<1>11. disk[c].mtime <= disk'[c].mtime /\ disk'[c].mtime \in Nat /\ old.stat \in 0..disk[c].mtime
  BY <1>1, <1>4 DEF Trust, Bounded
<1>12. Filed(c)' /\ Mirrored(c)' /\ InBounds(r, disk'[c].mtime)
  BY <1>2, <1>3, <1>9, <1>11, ReactedFile
<1>13. Bounded(c)'
  <2>1. pending'[c].meta \in 0..disk'[c].mtime /\ pending'[c].op # "snapshot"
    <3> DEFINE n == disk'[c].mtime
    <3>1. n \in Nat /\ disk[c].mtime <= n
      BY <1>11
    <3> HIDE DEF n
    <3>2. pending'[c].meta \in 0..n /\ pending'[c].op # "snapshot"
      BY <1>8, <3>1, ReactedPending
    <3> QED BY <3>2 DEF n
  <2>2. l.stat \in 0..disk'[c].mtime
    BY <1>1, <1>4, <1>7
  <2>3. cache'[c].meta <= disk'[c].mtime
    <3>1. e.meta \in Int /\ e.meta <= disk[c].mtime
      BY <1>1, Numbers DEF Trust, Bounded, Entry
    <3> QED BY <1>1, <1>2, <1>4, <3>1
  <2>4. Whole(c)' => backupFile'[c].meta \in 0..disk'[c].mtime
    <3>1. Whole(c) => backupFile[c].meta \in 0..disk[c].mtime
      BY DEF Trust, Bounded
    <3> QED BY <1>1, <1>2, <1>4, <1>10, <3>1
  <2> QED BY <1>12, <2>1, <2>2, <2>3, <2>4 DEF Bounded
<1>14. ASSUME c \notin reused
       PROVE  Ordered(r, e, l, TRUE)
  <2> DEFINE stored == Stored(c)
  <2>1. Ordered(q, e, old, stored)
    BY <1>3, <1>14 DEF Trust, InOrder
  <2>2. /\ e.meta \in Int /\ \A i \in 1..Len(q) : q[i].meta \in Int
        /\ old.stat \in Int /\ l.stat \in Int /\ old.stat <= l.stat
    <3>1. e.meta \in Int /\ \A i \in 1..Len(q) : q[i].meta \in Int
      BY <1>1, Numbers DEF Entry, Task
    <3>2. old.stat \in Int /\ l.stat \in Int /\ old.stat <= l.stat
      BY <1>1, <1>7, <1>11
    <3> QED BY <3>1, <3>2
  <2> HIDE DEF q, r, e, l, old, stored
  <2>3. Ordered(q, e, l, TRUE)
    BY <1>7, <2>1, <2>2, StoredOrder
  <2> QED BY <1>9, <2>3, ReactedOrder DEF q, r
<1>15. InOrder(c)'
  BY <1>2, <1>7, <1>14 DEF InOrder, Ordered
<1>16. Trusted(c)'
  <2> SUFFICES ASSUME c \notin reused, Deciding
               PROVE  /\ Current(cache'[c], l) => Shown(c)'
                      /\ Spares(r, cache'[c], l, Stored(c)')
    BY <1>2, <1>10 DEF Trusted
  <2>1. Current(e, old) => Shown(c)
    BY <1>3 DEF Trust, Trusted
  <2>2. Current(cache'[c], l) => Shown(c)'
    BY <1>2, <1>7, <1>10, <2>1 DEF Current, Shown
  <2>3. Spares(r, cache'[c], l, Stored(c)')
    BY <1>7 DEF Spares
  <2> QED BY <2>2, <2>3
<1> QED BY <1>12, <1>13, <1>15, <1>16 DEF Trust

LEMMA ClosingTrust ==
  ASSUME Base, Base', NEW c \in Copy, Trust(c), close(c) \/ open(c)
  PROVE  Trust(c)'
<1>1. /\ copy \in [Copy -> WorkingCopy] /\ copy[c] \in WorkingCopy /\ io[c] \in Seq(Task) /\ Line(io[c], cache[c])
      /\ Owned(io[c], pending[c].op, copy[c].state, shutdown.phase, c \in shutdown.left)
      /\ io \in [Copy -> Seq(Task)] /\ disk[c].mtime \in Nat
      /\ copy[c].state # "open" => pending[c].op \in {"none", "discard"}
      /\ suspended => pending[c].op = "none"
  BY BaseOf
<1>2. UNCHANGED <<disk, cache, backupFile, shutdown, reused>>
  BY DEF close, open, ghosts
<1>3. copy'[c].state # "open" /\ copy'[c].stat \in 0..disk[c].mtime
  <2>1. CASE close(c)
    BY <1>1, <2>1 DEF close, Closed
  <2>2. CASE open(c)
    <3>1. copy'[c] = [copy[c] EXCEPT !.state = "opening"]
      BY <1>1, <2>2 DEF open
    <3>2. copy'[c].state = "opening" /\ copy'[c].stat = copy[c].stat
      BY <1>1, <3>1 DEF WorkingCopy
    <3> QED BY <3>2 DEF Trust, Bounded
  <2> QED BY <2>1, <2>2
<1>4. /\ Reacted(c)
      /\ \/ pending'[c].op \in {"timer", "discard"} /\ pending'[c].meta = 0
         \/ pending'[c] = pending[c] /\ pending[c].op # "snapshot"
  <2>1. Cut(io[c], io[c], "tracker")
    BY DEF Cut
  <2>2. CASE open(c)
    <3>1. io'[c] = Queued(io[c], cache[c], resolveTask) /\ pending' = pending
      BY <1>1, <2>2 DEF open, tracker
    <3>2. Added(io'[c], io[c], resolveTask)
      <4>1. \A i \in 1..Len(io[c]) : io[c][i].by # "open"
        BY <1>1, <2>2 DEF Owned, open
      <4> QED BY <1>1, <3>1, <4>1, QueuedResolve
    <3> QED BY <1>1, <2>1, <2>2, <3>1, <3>2 DEF Reacted, open
  <2>3. CASE close(c) /\ suspended
    <3>1. io' = io /\ pending' = pending
      BY <2>3 DEF close
    <3> QED BY <1>1, <2>1, <2>3, <3>1 DEF Reacted
  <2>4. CASE close(c) /\ ~suspended
    <3> DEFINE p == Cancelled(io[c], "tracker")
    <3>1. discardBackup(c)
      BY <2>4 DEF close
    <3>2. /\ pending'[c] = [Idle EXCEPT !.op = "discard"]
          /\ Added(io'[c], p, discardTask("tracker")) /\ Line(p, cache[c]) /\ Cut(p, io[c], "tracker")
      BY <3>1, DiscardEffect
    <3> HIDE DEF p
    <3>3. p \in Seq(Task) /\ pending'[c].op = "discard" /\ pending'[c].meta = 0
      BY <3>2 DEF Line, Idle
    <3> QED BY <3>2, <3>3 DEF Reacted
  <2> QED BY <2>2, <2>3, <2>4
<1>5. Filed(c)' /\ Mirrored(c)' /\ InBounds(io'[c], disk'[c].mtime)
  BY <1>1, <1>2, <1>3, <1>4, ReactedFile
<1>6. Bounded(c)'
  <2>1. pending'[c].meta \in 0..disk[c].mtime /\ pending'[c].op # "snapshot"
    BY <1>1, <1>4 DEF Trust, Bounded
  <2> QED BY <1>2, <1>3, <1>5, <2>1 DEF Trust, Bounded, Whole
<1>7. InOrder(c)' /\ Trusted(c)'
  BY <1>3 DEF InOrder, Trusted
<1> QED BY <1>5, <1>6, <1>7 DEF Trust

\* An editor that opens shows the backup, or the file if there is none that is whole.
LEMMA OpenedTrust ==
  ASSUME Base, Base', NEW c \in Copy, Trust(c), opened(c)
  PROVE  Trust(c)'
<1> DEFINE b == backupFile[c]
           e == cache'[c]
           k == copy'[c]
           r == io'[c]
<1>1. /\ copy \in [Copy -> WorkingCopy] /\ copy[c] \in WorkingCopy /\ io[c] \in Seq(Task) /\ cache[c] \in Entry
      /\ cache \in [Copy -> Entry] /\ b \in BackupFile
      /\ disk[c].mtime \in Nat /\ (copy[c].state # "open" => pending[c].op \in {"none", "discard"})
      /\ pending \in [Copy -> Operation]
  BY BaseOf
<1>2. /\ e = IF resolve(c) THEN [cache[c] EXCEPT !.meta = b.meta] ELSE cache[c]
      /\ k = [copy[c] EXCEPT !.state = "open", !.modified = resolve(c), !.undoable = ~resolve(c),
                     !.content = IF resolve(c) THEN b.content ELSE disk[c].content,
                     !.stat = IF resolve(c) THEN b.meta ELSE disk[c].mtime]
      /\ Fewer(r, io[c]) /\ copy[c].state = "opening" /\ copy[c].version = 0
      /\ \A i \in 1..Len(r) : r[i].by = "shutdown" /\ r[i].kind = "discard"
      /\ r = <<>> \/ r[1].phase = "begun"
  <2> DEFINE f == IF resolve(c) THEN [cache[c] EXCEPT !.meta = backupFile[c].meta] ELSE cache[c]
             l == [copy[c] EXCEPT !.state = "open", !.modified = resolve(c), !.undoable = ~resolve(c),
                     !.content = IF resolve(c) THEN backupFile[c].content ELSE disk[c].content,
                     !.stat = IF resolve(c) THEN backupFile[c].meta ELSE disk[c].mtime]
  <2>1. /\ copy' = [copy EXCEPT ![c] = l] /\ cache' = [cache EXCEPT ![c] = f]
        /\ Fewer(io'[c], io[c]) /\ copy[c].state = "opening" /\ copy[c].version = 0
        /\ \A i \in 1..Len(io'[c]) : io'[c][i].by = "shutdown" /\ io'[c][i].kind = "discard"
        /\ io'[c] = <<>> \/ io'[c][1].phase = "begun"
    BY OpenedEffect
  <2>2. cache'[c] = f /\ copy'[c] = l
    <3> HIDE DEF f, l
    <3> QED BY <1>1, <2>1
  <2> QED BY <2>1, <2>2
<1>3. /\ UNCHANGED <<disk, backupFile, shutdown>> /\ Alive
      /\ pending'[c] = IF resolve(c) /\ ~suspended THEN [Idle EXCEPT !.op = "timer"] ELSE pending[c]
      /\ c \in reused' <=> c \in reused \/ (e.known /\ e.version # 0)
  <2>1. cache' = [cache EXCEPT ![c] = IF resolve(c) THEN [cache[c] EXCEPT !.meta = b.meta] ELSE cache[c]]
    BY DEF opened
  <2>2. reused' = IF e.known /\ e.version # 0 THEN reused \cup {c} ELSE reused
    BY <1>1, <2>1 DEF opened
  <2>3. UNCHANGED <<disk, backupFile, shutdown>> /\ Alive
    BY DEF opened, Running
  <2>4. pending'[c] = IF resolve(c) /\ ~suspended THEN [Idle EXCEPT !.op = "timer"] ELSE pending[c]
    BY <1>1 DEF opened
  <2> QED BY <2>2, <2>3, <2>4
<1>4. /\ e.known = cache[c].known /\ e.version = cache[c].version /\ e.version \in Nat
      /\ resolve(c) => e.meta = b.meta
      /\ ~resolve(c) => e.meta = cache[c].meta
  BY <1>1, <1>2 DEF Entry
<1>5. /\ k.state = "open" /\ k.version = 0
      /\ resolve(c) => k.content = b.content /\ k.stat = b.meta
      /\ ~resolve(c) => k.content = disk[c].content /\ k.stat = disk[c].mtime
  BY <1>1, <1>2 DEF WorkingCopy
<1>6. /\ Whole(c) => b.meta \in 0..disk[c].mtime
      /\ cache[c].meta <= disk[c].mtime /\ pending[c].meta \in 0..disk[c].mtime /\ InBounds(io[c], disk[c].mtime)
      /\ resolve(c) => Whole(c) /\ cache[c].known
      /\ Whole(c) /\ cache[c].known => resolve(c)
      /\ (Whole(c)' <=> Whole(c)) /\ (Deciding' <=> Deciding)
  BY <1>3 DEF Trust, Bounded, Whole, resolve, Deciding
<1>7. Stored(c)' <=> k.content = disk[c].content
  BY <1>3 DEF Stored
<1> DEFINE mtime == disk[c].mtime
<1>8. Bounded(c)'
  <2>1. InBounds(r, mtime)
    <3> HIDE DEF r, mtime
    <3>1. Fewer(r, io[c]) /\ InBounds(io[c], mtime)
      BY <1>2, <1>6 DEF r, mtime
    <3> QED BY <3>1, FewerKeepsOrder
  <2>2. k.stat \in 0..mtime /\ e.meta <= mtime
    <3>1. CASE resolve(c)
      <4>1. k.stat = b.meta /\ e.meta = b.meta /\ b.meta \in 0..mtime
        BY <1>4, <1>5, <1>6, <3>1
      <4> QED BY <1>1, <4>1
    <3>2. CASE ~resolve(c)
      <4>1. k.stat = mtime /\ e.meta = cache[c].meta /\ mtime \in Nat /\ cache[c].meta <= mtime
        BY <1>1, <1>4, <1>5, <1>6, <3>2
      <4> HIDE DEF mtime
      <4> QED BY <4>1
    <3> QED BY <3>1, <3>2
  <2>3. pending'[c].meta \in 0..mtime /\ pending'[c].op # "snapshot"
    <3>1. [Idle EXCEPT !.op = "timer"].op = "timer" /\ [Idle EXCEPT !.op = "timer"].meta = 0
      BY DEF Idle
    <3>2. pending'[c] \in {[Idle EXCEPT !.op = "timer"], pending[c]}
      BY <1>3
    <3>3. pending[c].op # "snapshot"
      BY <1>1, <1>2
    <3>4. CASE pending'[c] = [Idle EXCEPT !.op = "timer"]
      <4>1. pending'[c].op = "timer" /\ pending'[c].meta = 0
        BY <3>1, <3>4
      <4> QED BY <1>1, <4>1
    <3>5. CASE pending'[c] = pending[c]
      BY <1>6, <3>3, <3>5
    <3> QED BY <3>2, <3>4, <3>5
  <2> QED BY <1>3, <1>6, <2>1, <2>2, <2>3 DEF Bounded
<1>9. Filed(c)'
  BY <1>2 DEF Filed, Written
<1>10. Mirrored(c)'
  BY <1>3, <1>4, <1>6 DEF Mirrored
<1>11. c \notin reused' => (e.known => e.version = k.version) /\ c \notin reused
  BY <1>3, <1>5
<1>12. InOrder(c)'
  <2> SUFFICES ASSUME c \notin reused'
               PROVE  Ordered(r, e, k, Stored(c)')
    BY DEF InOrder
  <2>1. e.known => /\ NoLater(e.version, e.meta, k.version, k.stat)
                   /\ e.version = k.version /\ e.meta # k.stat => Stored(c)'
    <3>1. CASE resolve(c)
      <4>1. k.stat = b.meta /\ e.meta = b.meta /\ b.meta \in 0..disk[c].mtime
        BY <1>4, <1>5, <1>6, <3>1
      <4> QED BY <1>1, <1>11, <4>1 DEF NoLater
    <3>2. CASE ~resolve(c)
      <4>1. k.stat = disk[c].mtime /\ e.meta = cache[c].meta /\ Stored(c)'
        BY <1>4, <1>5, <1>7, <3>2
      <4> QED BY <1>1, <1>6, <1>11, <4>1 DEF NoLater
    <3> QED BY <3>1, <3>2
  <2>2. \A i \in 1..Len(r) : r[i].kind # "backup"
    BY <1>2
  <2> QED BY <2>1, <2>2 DEF Ordered
<1>13. Trusted(c)'
  <2> SUFFICES ASSUME Deciding'
               PROVE  (Current(e, k) => Shown(c)') /\ Spares(r, e, k, Stored(c)')
    BY DEF Trusted
  <2>1. Current(e, k) => Shown(c)'
    <3>1. CASE resolve(c)
      BY <1>3, <1>5, <1>6, <3>1 DEF Shown
    <3>2. CASE ~resolve(c)
      BY <1>4, <1>5, <1>6, <1>7, <3>2 DEF Shown, Current
    <3> QED BY <3>1, <3>2
  <2>2. \A i \in 1..Len(r) : FALSE
    <3>1. Owned(r, pending'[c].op, k.state, shutdown'.phase, c \in shutdown'.left)
      BY DEF Base, Owners
    <3> QED BY <1>2, <3>1 DEF Owned, Deciding
  <2>3. Spares(r, e, k, Stored(c)')
    BY <2>2 DEF Spares
  <2> QED BY <2>1, <2>3
<1> QED BY <1>8, <1>9, <1>10, <1>12, <1>13 DEF Trust

\* A backup that cannot be read leaves a closed copy, and the file for now.
LEMMA FailedReadTrust ==
  ASSUME Base, NEW c \in Copy, Trust(c), resolveFails(c)
  PROVE  Trust(c)'
<1> DEFINE e == cache[c]
           q == Begun(Tail(io[c]), e)
           r == io'[c]
           mtime == disk[c].mtime
<1>1. /\ copy'[c] = Closed /\ UNCHANGED <<disk, cache, backupFile, shutdown>>
      /\ Running(c, "resolve", "begun") /\ Line(q, cache[c])
      /\ \/ r = q /\ pending' = pending
         \/ /\ pending' = [pending EXCEPT ![c] = [Idle EXCEPT !.op = "discard"]]
            /\ Added(r, q, discardTask("tracker"))
  BY FailedEffect
<1>2. /\ pending \in [Copy -> Operation] /\ mtime \in Nat
      /\ copy[c].state # "open" => pending[c].op # "snapshot"
  BY BaseOf
<1> HIDE DEF e
<1>3. Running(c, "resolve", "begun")
  BY <1>1
<1>4. /\ Fewer(q, io[c]) /\ (q = <<>> \/ q[1].phase = "begun")
      /\ io[c] # <<>> /\ io[c][1].kind = "resolve" /\ copy[c].state = "opening"
  BY <1>3, ResolvedEffect
<1>5. q \in Seq(Task)
  BY <1>1 DEF Line
<1> HIDE DEF q, r, mtime
<1>6. Len(q) \in Nat /\ (q # <<>> => 1 \in 1..Len(q))
  BY <1>5, QueueElements
<1>7. InBounds(r, mtime)
  <2>1. InBounds(io[c], mtime)
    BY DEF Trust, Bounded, mtime
  <2>2. InBounds(q, mtime)
    BY <1>4, <2>1, FewerKeepsOrder
  <2>3. CASE Added(r, q, discardTask("tracker"))
    <3>1. /\ \A i \in 1..Len(r) : i \in 1..Len(q) \/ i = Len(q) + 1
          /\ \A i \in 1..Len(q) : r[i] = q[i]
          /\ r[Len(q) + 1].meta = 0
      BY <1>6, <2>3 DEF Added, Alike, discardTask
    <3> QED BY <1>2, <2>2, <3>1 DEF InBounds
  <2> QED BY <1>1, <2>2, <2>3
<1>8. r = <<>> \/ r[1].phase = "begun"
  <2>1. CASE Added(r, q, discardTask("tracker"))
    BY <1>4, <1>6, <2>1 DEF Added
  <2> QED BY <1>1, <1>4, <2>1
<1>9. pending'[c].meta \in 0..mtime /\ pending'[c].op # "snapshot"
  <2>1. CASE pending' = pending
    BY <1>2, <1>4, <2>1 DEF Trust, Bounded, mtime
  <2>2. CASE pending' = [pending EXCEPT ![c] = [Idle EXCEPT !.op = "discard"]]
    <3>1. pending'[c].op = "discard" /\ pending'[c].meta = 0
      BY <1>2, <2>2 DEF Idle
    <3> QED BY <1>2, <3>1
  <2> QED BY <1>1, <2>1, <2>2
<1>10. Bounded(c)'
  <2>1. copy'[c].stat \in 0..mtime
    BY <1>1, <1>2 DEF Closed
  <2> QED BY <1>1, <1>7, <1>9, <2>1 DEF Trust, Bounded, Whole, mtime, r
<1>11. Filed(c)'
  BY <1>8 DEF Filed, Written, r
<1>12. Mirrored(c)'
  <2>1. ~HeadDone(io[c]) /\ copy'[c].state # "open"
    BY <1>1, <1>4 DEF HeadDone, Closed
  <2> QED BY <1>1, <2>1 DEF Trust, Mirrored, Alive, Whole
<1>13. InOrder(c)' /\ Trusted(c)'
  BY <1>1 DEF InOrder, Trusted, Closed
<1> QED BY <1>10, <1>11, <1>12, <1>13 DEF Trust

\* A file operation goes on: its queue differs in the phase of its first task.
LEMMA WritingQueue ==
  ASSUME Base, NEW c \in Copy, truncate(c) \/ written(c) \/ deleted(c)
  PROVE  /\ io[c] # <<>> /\ 1 \in 1..Len(io[c]) /\ io[c] \in Seq(Task) /\ \A i \in 1..Len(io[c]) : io[c][i] \in Task
         /\ io'[c] # <<>> /\ Alike(io'[c][1], io[c][1]) /\ Fewer(io'[c], io[c])
         /\ UNCHANGED <<copy, disk, pending, cache, shutdown, reused>>
         /\ truncate(c) => io[c][1].kind = "backup" /\ io[c][1].phase = "begun" /\ io'[c][1].phase = "truncated"
         /\ written(c) => io[c][1].kind = "backup" /\ io[c][1].phase = "truncated" /\ io'[c][1].phase = "done"
         /\ deleted(c) => io[c][1].kind = "discard" /\ io'[c][1].phase = "done"
<1>1. io[c] # <<>> /\ UNCHANGED <<copy, disk, pending, cache, shutdown, reused>>
  BY DEF truncate, written, deleted, Running, tracker, ghosts
<1>2. io \in [Copy -> Seq(Task)] /\ io[c] \in Seq(Task) /\ Line(io[c], cache[c])
  BY BaseOf
<1>3. 1 \in 1..Len(io[c]) /\ Len(io[c]) \in Nat /\ \A i \in 1..Len(io[c]) : io[c][i] \in Task
  <2>1. Len(io[c]) \in Nat /\ Len(io[c]) >= 1 /\ \A i \in 1..Len(io[c]) : io[c][i] \in Task
    BY <1>1, <1>2, QueueElements
  <2> QED BY <2>1
<1>4. ASSUME NEW p \in {"truncated", "done"}, io'[c] = [io[c] EXCEPT ![1].phase = p],
             io[c][1].kind = "backup" \/ (io[c][1].kind = "discard" /\ p = "done")
      PROVE  io'[c] # <<>> /\ Alike(io'[c][1], io[c][1]) /\ Fewer(io'[c], io[c]) /\ io'[c][1].phase = p
  <2> DEFINE x == [io[c] EXCEPT ![1].phase = p]
  <2>1. Advanced(x, io[c], 0) /\ x[1].phase = p /\ x # <<>>
    BY <1>1, <1>2, <1>4, PhaseEffect
  <2>0. io'[c] = x
    BY <1>4
  <2> HIDE DEF x
  <2>2. Fewer(x, io[c])
    BY <1>3, <2>1, AdvancedFewer
  <2>3. Alike(x[1], io[c][1])
    <3>1. Len(x) = Len(io[c]) /\ \A i \in 1..Len(x) : Alike(x[i], io[c][0 + i])
      BY <1>3, <2>1 DEF Advanced
    <3>2. Alike(x[1], io[c][0 + 1])
      BY <1>3, <3>1
    <3> QED BY <3>2
  <2> QED BY <2>0, <2>1, <2>2, <2>3
<1>5. CASE truncate(c)
  <2>1. io'[c] = [io[c] EXCEPT ![1].phase = "truncated"] /\ io[c][1].kind = "backup" /\ io[c][1].phase = "begun"
    BY <1>2, <1>5 DEF truncate, Running
  <2>2. ~written(c) /\ ~deleted(c)
    BY <2>1 DEF written, deleted, Running
  <2> QED BY <1>1, <1>2, <1>3, <1>4, <2>1, <2>2
<1>6. CASE written(c)
  <2>1. io'[c] = [io[c] EXCEPT ![1].phase = "done"] /\ io[c][1].kind = "backup" /\ io[c][1].phase = "truncated"
    BY <1>2, <1>6 DEF written, Running
  <2>2. ~truncate(c) /\ ~deleted(c)
    BY <2>1 DEF truncate, deleted, Running
  <2> QED BY <1>1, <1>2, <1>3, <1>4, <2>1, <2>2
<1>7. CASE deleted(c)
  <2>1. io'[c] = [io[c] EXCEPT ![1].phase = "done"] /\ io[c][1].kind = "discard"
    BY <1>2, <1>7 DEF deleted, Running
  <2>2. ~truncate(c) /\ ~written(c)
    BY <2>1 DEF truncate, written, Running
  <2> QED BY <1>1, <1>2, <1>3, <1>4, <2>1, <2>2
<1> QED BY <1>5, <1>6, <1>7

\* Where the entry is one of the version that the copy has, so is the backup that runs.
LEMMA RunsTheVersion ==
  ASSUME NEW q, NEW e \in Entry, NEW k \in WorkingCopy, NEW stored, Ordered(q, e, k, stored), Current(e, k),
         1 \in 1..Len(q), q[1] \in Task, q[1].kind = "backup"
  PROVE  q[1].version = k.version /\ q[1].content = k.content /\ (Needed(q[1], e) => stored)
<1>1. e.version \in Nat /\ e.meta \in Int /\ k.version \in Nat /\ k.stat \in Int /\ q[1].version \in Nat /\ q[1].meta \in Int
  BY Numbers DEF Entry, WorkingCopy, Task
<1>2. /\ NoLater(q[1].version, q[1].meta, k.version, k.stat)
      /\ NoLater(e.version, e.meta, q[1].version, q[1].meta)
      /\ q[1].version = k.version => q[1].content = k.content
      /\ e.version = k.version /\ e.meta # k.stat => stored
      /\ e.known /\ e.version = k.version
  BY DEF Ordered, Current
<1>3. q[1].version = k.version /\ e.meta <= q[1].meta /\ q[1].meta <= k.stat
  BY <1>1, <1>2 DEF NoLater
<1>4. Needed(q[1], e) => e.meta # q[1].meta
  BY <1>2, <1>3 DEF Needed, has
<1> QED BY <1>1, <1>2, <1>3, <1>4

\* The file is truncated, written or deleted.
LEMMA WritingTrust ==
  ASSUME Base, Base', NEW c \in Copy, Trust(c), truncate(c) \/ written(c) \/ deleted(c)
  PROVE  Trust(c)'
<1> DEFINE q == io[c]
           r == io'[c]
           e == cache[c]
           k == copy[c]
           b == backupFile[c]
           stored == Stored(c)
<1>1. /\ q # <<>> /\ 1 \in 1..Len(q) /\ q \in Seq(Task) /\ \A i \in 1..Len(q) : q[i] \in Task
      /\ r # <<>> /\ Alike(r[1], q[1]) /\ Fewer(r, q)
      /\ UNCHANGED <<copy, disk, pending, cache, shutdown, reused>>
      /\ truncate(c) => q[1].kind = "backup" /\ q[1].phase = "begun" /\ r[1].phase = "truncated"
      /\ written(c) => q[1].kind = "backup" /\ q[1].phase = "truncated" /\ r[1].phase = "done"
      /\ deleted(c) => q[1].kind = "discard" /\ r[1].phase = "done"
  BY WritingQueue
<1>2. /\ k \in WorkingCopy /\ e \in Entry /\ b \in BackupFile /\ backupFile \in [Copy -> BackupFile]
      /\ Line(q, e)
  BY BaseOf
<1>3. (Stored(c)' <=> Stored(c)) /\ (Deciding' <=> Deciding) /\ (Alive' <=> Alive)
  BY <1>1 DEF Stored, Deciding, Alive
<1>4. /\ r[1].kind = q[1].kind /\ r[1].content = q[1].content /\ r[1].version = q[1].version
      /\ r[1].meta = q[1].meta /\ q[1] \in Task
  BY <1>1 DEF Alike
<1>5. /\ truncate(c) => backupFile'[c].state = "torn"
      /\ written(c) => backupFile'[c] = IF b.state = "torn"
                         THEN [state |-> "whole", content |-> q[1].content, meta |-> q[1].meta] ELSE b
      /\ deleted(c) => backupFile'[c].state = "none"
  <2>1. CASE truncate(c)
    BY <1>1, <1>2, <2>1 DEF truncate, NoBackup
  <2>2. CASE written(c)
    BY <1>1, <1>2, <2>2 DEF written
  <2>3. CASE deleted(c)
    BY <1>1, <1>2, <2>3 DEF deleted, NoBackup
  <2> QED BY <1>1, <2>1, <2>2, <2>3
<1>6. written(c) => /\ backupFile'[c].state = "whole" => backupFile'[c].content = q[1].content /\ backupFile'[c].meta = q[1].meta
                    /\ Deciding => backupFile'[c].state = "whole"
  <2>1. written(c) => b.state # "whole" /\ (Deciding => b.state = "torn")
    BY <1>1 DEF Trust, Filed, Written
  <2> QED BY <1>5, <2>1
<1>7. Bounded(c)'
  <2>1. InBounds(q, disk[c].mtime) /\ q[1].meta \in 0..disk[c].mtime
    BY <1>1 DEF Trust, Bounded, InBounds
  <2>2. InBounds(r, disk[c].mtime)
    <3> DEFINE mtime == disk[c].mtime
    <3> HIDE DEF mtime, q, r
    <3>1. Fewer(r, q) /\ InBounds(q, mtime)
      BY <1>1, <2>1 DEF mtime
    <3>2. InBounds(r, mtime)
      BY <3>1, FewerKeepsOrder
    <3> QED BY <3>2 DEF mtime
  <2>3. Whole(c)' => backupFile'[c].meta \in 0..disk[c].mtime
    BY <1>5, <1>6, <2>1 DEF Whole
  <2> QED BY <1>1, <2>2, <2>3 DEF Trust, Bounded
<1>8. Filed(c)'
  <2> SUFFICES Written(r, backupFile'[c], Deciding')
    BY DEF Filed
  <2>1. CASE truncate(c)
    BY <1>1, <1>4, <1>5, <2>1 DEF Written
  <2>2. CASE written(c)
    BY <1>1, <1>3, <1>4, <1>6, <2>2 DEF Written
  <2>3. CASE deleted(c)
    BY <1>1, <1>4, <1>5, <2>3 DEF Written
  <2> QED BY <2>1, <2>2, <2>3
<1>9. Mirrored(c)'
  BY <1>1, <1>4, <1>5 DEF Mirrored, HeadDone, Whole
<1>10. InOrder(c)'
  <2> SUFFICES ASSUME k.state = "open", c \notin reused
               PROVE  Ordered(r, e, k, stored)
    BY <1>1, <1>3 DEF InOrder, Ordered
  <2>1. Ordered(q, e, k, stored)
    BY DEF Trust, InOrder
  <2> HIDE DEF q, r, e, k, stored
  <2> QED BY <1>1, <2>1, FewerKeepsOrder
<1>11. Trusted(c)'
  <2> SUFFICES ASSUME k.state = "open", c \notin reused, Deciding
               PROVE  (Current(e, k) => Shown(c)') /\ Spares(r, e, k, stored)
    BY <1>1, <1>3 DEF Trusted, Spares, Current
  <2>1. Ordered(q, e, k, stored) /\ Spares(q, e, k, stored)
    BY DEF Trust, InOrder, Trusted
  <2>2. Spares(r, e, k, stored)
    <3> HIDE DEF q, r, e, k, stored
    <3> QED BY <1>1, <2>1, FewerKeepsOrder
  <2>3. ASSUME Current(e, k)
        PROVE  Shown(c)'
    <3>1. q[1].kind = "backup" => /\ q[1].version = k.version /\ q[1].content = k.content
                                  /\ (Needed(q[1], e) => stored)
      <4> HIDE DEF q, e, k, stored
      <4> QED BY <1>1, <1>2, <1>4, <2>1, <2>3, RunsTheVersion
    <3>2. Needed(q[1], e)
      BY <1>1, <1>2 DEF Line
    <3>3. CASE truncate(c)
      BY <1>1, <1>3, <1>5, <3>1, <3>2, <3>3 DEF Shown, Whole
    <3>4. CASE written(c)
      BY <1>1, <1>3, <1>6, <3>1, <3>4 DEF Shown, Whole
    <3>5. CASE deleted(c)
      <4>1. stored
        BY <1>1, <2>1, <2>3, <3>5 DEF Spares
      <4> QED BY <1>3, <1>5, <3>5, <4>1 DEF Shown, Whole
    <3> QED BY <3>3, <3>4, <3>5
  <2> QED BY <2>2, <2>3
<1> QED BY <1>7, <1>8, <1>9, <1>10, <1>11 DEF Trust

\* What is pending after a task has ended.
LEMMA SettledBounds ==
  ASSUME Base, NEW c \in Copy, Trust(c), pending'[c] \in {Idle, pending[c]}, Fewer(io'[c], io[c]),
         UNCHANGED <<copy, disk, backupFile>>, cache'[c].meta <= disk[c].mtime
  PROVE  Bounded(c)'
<1>1. /\ pending'[c].meta \in 0..disk[c].mtime
      /\ pending'[c].op = "snapshot" => pending'[c].content = copy[c].content /\ pending'[c].meta = copy[c].stat
  BY PendingSwept
<1>2. InBounds(io'[c], disk[c].mtime)
  <2> DEFINE q == io[c]
             r == io'[c]
             mtime == disk[c].mtime
  <2>1. Fewer(r, q) /\ InBounds(q, mtime)
    BY DEF Trust, Bounded
  <2> HIDE DEF q, r, mtime
  <2>2. InBounds(r, mtime)
    BY <2>1, FewerKeepsOrder
  <2> QED BY <2>2 DEF r, mtime
<1> QED BY <1>1, <1>2 DEF Trust, Bounded, Whole

LEMMA FailingTrust ==
  ASSUME Base, Base', NEW c \in Copy, Trust(c), ioFails(c)
  PROVE  Trust(c)'
<1> DEFINE q == io[c]
           r == io'[c]
           e == cache[c]
           k == copy[c]
           stored == Stored(c)
<1>1. /\ UNCHANGED <<copy, disk, backupFile, reused>> /\ q # <<>> /\ q[1].phase # "done"
      /\ Settle(c, Tail(io[c]), cache[c], io[c][1].by, TRUE) /\ e \in Entry
  BY BaseOf DEF ioFails, Running
<1>2. /\ cache'[c] = e /\ shutdown'.phase = shutdown.phase /\ Fewer(r, q)
      /\ r = <<>> \/ r[1].phase = "begun"
      /\ pending'[c] \in {Idle, pending[c]}
  BY <1>1, SettleEffect
<1>3. /\ (Stored(c)' <=> Stored(c)) /\ (Deciding' <=> Deciding) /\ (Alive' <=> Alive) /\ (Whole(c)' <=> Whole(c))
      /\ copy'[c] = k /\ backupFile'[c] = backupFile[c]
  BY <1>1, <1>2 DEF Stored, Deciding, Alive, Whole
<1>4. Bounded(c)'
  BY <1>1, <1>2, SettledBounds DEF Trust, Bounded
<1>5. Filed(c)'
  BY <1>2 DEF Filed, Written
<1>6. Mirrored(c)'
  <2>1. ~HeadDone(q)
    BY <1>1 DEF HeadDone
  <2> QED BY <1>2, <1>3, <2>1 DEF Trust, Mirrored
<1>7. InOrder(c)'
  <2> SUFFICES ASSUME k.state = "open", c \notin reused
               PROVE  Ordered(r, e, k, stored)
    BY <1>1, <1>2, <1>3 DEF InOrder, Ordered
  <2>1. Ordered(q, e, k, stored)
    BY DEF Trust, InOrder
  <2> HIDE DEF q, r, e, k, stored
  <2> QED BY <1>2, <2>1, FewerKeepsOrder
<1>8. Trusted(c)'
  <2> SUFFICES ASSUME k.state = "open", c \notin reused, Deciding
               PROVE  (Current(e, k) => Shown(c)') /\ Spares(r, e, k, stored)
    BY <1>1, <1>2, <1>3 DEF Trusted, Spares, Current
  <2>1. Spares(q, e, k, stored) /\ (Current(e, k) => Shown(c))
    BY DEF Trust, Trusted
  <2>2. Shown(c)' <=> Shown(c)
    BY <1>3 DEF Shown
  <2>3. Spares(r, e, k, stored)
    <3> HIDE DEF q, r, e, k, stored
    <3> QED BY <1>2, <2>1, FewerKeepsOrder
  <2> QED BY <2>1, <2>2, <2>3
<1> QED BY <1>4, <1>5, <1>6, <1>7, <1>8 DEF Trust

\* The entry follows the file.
LEMMA NotedTrust ==
  ASSUME Base, Base', NEW c \in Copy, Trust(c), noted(c)
  PROVE  Trust(c)'
<1> DEFINE q == io[c]
           r == io'[c]
           e == cache[c]
           k == copy[c]
           f == IF q[1].kind = "backup" THEN [known |-> TRUE, version |-> q[1].version, meta |-> q[1].meta] ELSE NoEntry
           stored == Stored(c)
<1>1. /\ UNCHANGED <<copy, disk, backupFile, reused>> /\ q # <<>> /\ q[1].phase = "done"
      /\ q[1].kind \in {"backup", "discard"}
      /\ Settle(c, Tail(io[c]), f, io[c][1].by, FALSE)
  BY DEF noted, Running
<1>2. q \in Seq(Task) /\ k \in WorkingCopy /\ disk[c].mtime \in Nat
  BY BaseOf
<1>3. 1 \in 1..Len(q) /\ Len(q) \in Nat /\ q[1] \in Task
  <2>1. Len(q) \in Nat /\ Len(q) >= 1 /\ \A i \in 1..Len(q) : q[i] \in Task
    BY <1>1, <1>2, QueueElements
  <2>2. 1 \in 1..Len(q)
    BY <2>1
  <2> QED BY <2>1, <2>2
<1>4. /\ f \in Entry /\ (f.known <=> q[1].kind = "backup")
      /\ f.known => f.version = q[1].version /\ f.meta = q[1].meta
      /\ ~f.known => f.meta = 0
  <2>1. CASE q[1].kind = "backup"
    BY <1>3, <2>1 DEF Task, Entry
  <2>2. CASE q[1].kind # "backup"
    BY <2>2, Constants DEF NoEntry
  <2> QED BY <2>1, <2>2
<1> HIDE DEF f
<1>5. /\ cache'[c] = f /\ shutdown'.phase = shutdown.phase /\ Fewer(r, q)
      /\ r = <<>> \/ r[1].phase = "begun"
      /\ pending'[c] \in {Idle, pending[c]}
      /\ \E n \in 1..Len(q) : Advanced(r, q, n)
  BY <1>1, <1>4, SettleEffect
<1>6. /\ (Stored(c)' <=> Stored(c)) /\ (Deciding' <=> Deciding) /\ (Alive' <=> Alive) /\ (Whole(c)' <=> Whole(c))
      /\ copy'[c] = k /\ backupFile'[c] = backupFile[c]
  BY <1>1, <1>5 DEF Stored, Deciding, Alive, Whole
<1>7. f.known => /\ Whole(c) => backupFile[c].content = q[1].content /\ backupFile[c].meta = q[1].meta
                 /\ Deciding => Whole(c)
  BY <1>1, <1>4 DEF Trust, Filed, Written, Whole
<1>8. Bounded(c)'
  <2>1. f.meta <= disk[c].mtime
    <3>1. q[1].meta \in 0..disk[c].mtime
      BY <1>3 DEF Trust, Bounded, InBounds
    <3>2. CASE f.known
      <4>1. f.meta = q[1].meta
        BY <1>4, <3>2
      <4> QED BY <1>2, <3>1, <4>1
    <3>3. CASE ~f.known
      <4>1. f.meta = 0
        BY <1>4, <3>3
      <4> QED BY <1>2, <4>1
    <3> QED BY <3>2, <3>3
  <2> QED BY <1>1, <1>5, <2>1, SettledBounds
<1>9. Filed(c)'
  BY <1>5 DEF Filed, Written
<1>10. Mirrored(c)'
  BY <1>4, <1>5, <1>6, <1>7 DEF Mirrored
<1>11. ASSUME k.state = "open", c \notin reused
       PROVE  /\ Ordered(r, f, k, stored)
              /\ Spares(q, e, k, stored) => Spares(r, f, k, stored)
              /\ q[1].kind = "backup" /\ q[1].version = k.version => q[1].content = k.content
  <2>1. Ordered(q, e, k, stored)
    BY <1>11 DEF Trust, InOrder
  <2>2. PICK n \in 1..Len(q) : Advanced(r, q, n)
    BY <1>5
  <2>3. k.version \in Nat
    BY <1>2 DEF WorkingCopy
  <2> HIDE DEF q, r, e, k, stored
  <2>4. /\ Ordered(r, f, k, stored)
        /\ Spares(q, e, k, stored) => Spares(r, f, k, stored) \/ ~(k.version \in Nat)
    BY <1>3, <1>4, <2>1, <2>2, NotedKeepsOrder
  <2>5. q[1].kind = "backup" /\ q[1].version = k.version => q[1].content = k.content
    BY <1>3, <2>1 DEF Ordered
  <2> QED BY <2>3, <2>4, <2>5
<1>12. InOrder(c)'
  <2> SUFFICES ASSUME k.state = "open", c \notin reused
               PROVE  Ordered(r, f, k, stored)
    BY <1>1, <1>5, <1>6 DEF InOrder, Ordered
  <2> QED BY <1>11
<1>13. Trusted(c)'
  <2> SUFFICES ASSUME k.state = "open", c \notin reused, Deciding
               PROVE  (Current(f, k) => Shown(c)') /\ Spares(r, f, k, stored)
    BY <1>1, <1>5, <1>6 DEF Trusted, Spares, Current
  <2>1. Spares(r, f, k, stored)
    <3>1. Spares(q, e, k, stored)
      BY DEF Trust, Trusted
    <3> QED BY <1>11, <3>1
  <2>2. Current(f, k) => Shown(c)'
    BY <1>4, <1>6, <1>7, <1>11 DEF Current, Shown
  <2> QED BY <2>1, <2>2
<1> QED BY <1>8, <1>9, <1>10, <1>12, <1>13 DEF Trust

LEMMA SingleTrust ==
  ASSUME Base, Base', NEW c \in Copy, Trust(c), Single(c)
  PROVE  Trust(c)'
BY TimerSwept, SnapshotSwept, ModifiedAgainSwept, SweptKeepsTrust, EditingTrust, SavingTrust, ClosingTrust, OpenedTrust,
   FailedReadTrust, WritingTrust, FailingTrust, NotedTrust DEF Single, InputOutput, User, Failure

LEMMA TrustStep ==
  ASSUME Base, \A c \in Copy : Trust(c), [Next]_vars
  PROVE  \A c \in Copy : Trust(c)'
<1>1. Base'
  BY BaseStep
<1>2. ASSUME NEW c \in Copy, Single(c)
      PROVE  \A d \in Copy : Trust(d)'
  <2>1. SameWindow /\ \A d \in Copy : d # c => Untouched(d)
    BY <1>2, LocalStep DEF Base
  <2>2. Trust(c)'
    BY <1>1, <1>2, SingleTrust
  <2>3. ASSUME NEW d \in Copy, d # c
        PROVE  Trust(d)'
    BY <2>1, <2>3, UntouchedKeepsTrust
  <2> QED BY <2>2, <2>3
<1>3. CASE Windowed
  BY <1>1, <1>3, WindowSwept, SweptKeepsTrust, RestartTrust
<1>4. CASE UNCHANGED vars
  <2>1. SameWindow /\ \A d \in Copy : Untouched(d)
    BY <1>4 DEF vars, tracker, service, ghosts, SameWindow, Untouched
  <2> QED BY <2>1, UntouchedKeepsTrust
<1> QED BY <1>2, <1>3, <1>4, NextSplits

\* A shutdown that trusts a backup which the service knows at the version of the copy
\* (hasBackupSync) may: the backup is whole and holds what the copy shows, unless
\* that is saved.
THEOREM BackupsAreTrustworthy == Spec => []TrustedBackup
<1> DEFINE Inv == Base /\ \A c \in Copy : Trust(c)
<1>1. Init => Inv
  BY BaseInit, TrustInit
<1>2. Inv /\ [Next]_vars => Inv'
  BY BaseStep, TrustStep
<1>3. Inv => TrustedBackup
  <2> SUFFICES ASSUME Inv, shutdown.phase \in {"running", "autosave"}, NEW c \in Copy \ reused,
                      IsOpen(c), hasBackupSync(c)
               PROVE  \/ backupFile[c].state = "whole" /\ backupFile[c].content = copy[c].content
                      \/ copy[c].content = disk[c].content
    BY DEF TrustedBackup
  <2> QED BY DEF Trust, Trusted, Deciding, IsOpen, hasBackupSync, Current, Shown, Whole, Stored
<1> QED BY <1>1, <1>2, <1>3, PTL DEF Spec

-----------------------------------------------------------------------------
(* The backup of a copy that the tracker follows *)

\* The entry or backup x is the newest that there can be of copy k.
Newest(x, k) == x.version = k.version /\ x.meta = k.stat
Held(e, k) == e.known /\ Newest(e, k)
Latest(t, k) == t.kind = "backup" /\ Newest(t, k)
NoLatest(q, k) == \A i \in 1..Len(q) : ~Latest(q[i], k)

\* No discard deletes the newest backup.
Harmless(q, e, k) == \A j \in 1..Len(q) : q[j].kind = "discard" =>
  ~Held(e, k) /\ \A i \in 1..Len(q) : i < j => ~Latest(q[i], k)

\* The newest backup is one of what the copy shows, and no discard deletes it.  A
\* copy that is not modified has none.
Sound(q, e, k, b, clear) ==
  /\ ~clear /\ Held(e, k) => k.modified /\ b.state = "whole" /\ b.content = k.content
  /\ Harmless(q, e, k)
  /\ ~k.modified => NoLatest(q, k)
  /\ q # <<>> /\ Latest(q[1], k) => /\ q[1].phase = "truncated" => b.state = "torn"
                                    /\ q[1].phase = "done" => b.state = "whole"

\* What is done last, or was done, brings the backup of the copy up to date.
UpToDate(q, e, k, b, op, deciding) ==
  IF k.modified
  THEN \/ op \in {"timer", "snapshot"}
       \/ q = <<>> /\ b.state = "whole" /\ b.content = k.content /\ (deciding => Current(e, k))
       \/ q # <<>> /\ Latest(q[Len(q)], k)
  ELSE \/ q = <<>> /\ b.state # "whole"
       \/ q # <<>> /\ q[Len(q)].kind = "discard"

\* A shutdown that backs up a copy behind another operation repeats it: without its
\* backup the copy is still up to date.
Repeated(q, k) == \A i \in 2..Len(q) : q[i].by = "shutdown" /\ q[i].kind = "backup" => Latest(q[i - 1], k)

Clear == shutdown.phase = "clear"
Followed(c) == Alive /\ copy[c].state = "open" /\ c \notin interrupted /\ c \notin reused

\* A copy that is being reverted and was not edited since gets a new version.
Superseded(c) == copy[c].reverting /\ ~copy[c].modified
Followable(c) ==
  /\ ~Superseded(c) => Sound(io[c], cache[c], copy[c], backupFile[c], Clear)
  /\ ~copy[c].reverting => /\ UpToDate(io[c], cache[c], copy[c], backupFile[c], pending[c].op, Deciding)
                           /\ Repeated(io[c], copy[c])

\* A copy that is not open, unless the tracker no longer waits for it: what is
\* written is deleted again.  A backup that the service knows will be restored
\* unless it is torn, and nobody deletes it before.
Unopened(c) == Alive /\ copy[c].state # "open" /\ c \notin interrupted
Deleted(q) == \A i \in 1..Len(q) : q[i].kind = "backup" =>
  \E j \in 1..Len(q) : i < j /\ q[j].kind = "discard" /\ q[j].by = "tracker"
Undecided == {"autosave", "backup", "confirm", "saving", "error"}
Restorable(c) ==
  /\ Whole(c) => /\ cache[c].known /\ ~Clear
                 /\ isReady => c \in unrestored
                 /\ \A i \in 1..Len(io[c]) : io[c][i].by # "shutdown"
                 /\ shutdown.phase \in Undecided => c \notin shutdown.list
  /\ ~Whole(c) /\ ~Clear /\ cache[c].known => cache[c].meta = Unknown
Openable(c) ==
  /\ Deleted(io[c])
  /\ io[c] = <<>> \/ io[c][1].kind = "resolve" => Restorable(c)

Follow(c) == (Followed(c) => Followable(c)) /\ (Unopened(c) => Openable(c))

LEMMA FewerSound ==
  ASSUME NEW q \in Seq(Task), NEW r \in Seq(Task), Fewer(r, q), SameHead(r, q) \/ r = <<>> \/ r[1].phase = "begun",
         NEW e, NEW k, NEW b, NEW clear, Sound(q, e, k, b, clear)
  PROVE  Sound(r, e, k, b, clear)
<1>1. PICK h \in [1..Len(r) -> 1..Len(q)] :
        /\ \A i, j \in 1..Len(r) : i < j => h[i] < h[j]
        /\ \A i \in 1..Len(r) : Kin(r[i], q[h[i]])
  BY DEF Fewer
<1>2. \A i \in 1..Len(r) : /\ h[i] \in 1..Len(q) /\ (Latest(r[i], k) <=> Latest(q[h[i]], k))
                           /\ r[i].kind = q[h[i]].kind
  BY <1>1 DEF Kin, Latest, Newest
<1>3. Harmless(r, e, k)
  <2> SUFFICES ASSUME NEW j \in 1..Len(r), r[j].kind = "discard"
               PROVE  ~Held(e, k) /\ \A i \in 1..Len(r) : i < j => ~Latest(r[i], k)
    BY DEF Harmless
  <2>1. h[j] \in 1..Len(q) /\ q[h[j]].kind = "discard"
    BY <1>2
  <2>2. ~Held(e, k) /\ \A i \in 1..Len(q) : i < h[j] => ~Latest(q[i], k)
    BY <2>1 DEF Sound, Harmless
  <2> QED BY <1>1, <1>2, <2>2
<1>4. ~k.modified => NoLatest(r, k)
  BY <1>2 DEF Sound, NoLatest
<1>5. r # <<>> /\ Latest(r[1], k) => /\ r[1].phase = "truncated" => b.state = "torn"
                                     /\ r[1].phase = "done" => b.state = "whole"
  <2>1. CASE r[1].phase = "begun" \/ r = <<>>
    BY <2>1
  <2>2. CASE r # <<>> /\ q = <<>>
    <3>1. 1 \in 1..Len(r) /\ Len(q) = 0
      BY <2>2, QueueElements
    <3>2. 1..Len(q) = {}
      BY <3>1
    <3> QED BY <1>1, <3>1, <3>2
  <2>3. CASE SameHead(r, q) /\ q # <<>>
    <3>1. r # <<>> /\ Kin(r[1], q[1]) /\ r[1].phase = q[1].phase
      BY <2>3 DEF SameHead
    <3>2. Latest(r[1], k) <=> Latest(q[1], k)
      BY <3>1 DEF Kin, Latest, Newest
    <3> QED BY <2>3, <3>1, <3>2 DEF Sound
  <2> QED BY <2>1, <2>2, <2>3
<1> QED BY <1>3, <1>4, <1>5 DEF Sound

LEMMA SupersededSound ==
  ASSUME NEW q \in Seq(Task), NEW e, NEW k, NEW b, NEW clear, ~Held(e, k), NoLatest(q, k)
  PROVE  Sound(q, e, k, b, clear)
<1>1. q # <<>> => 1 \in 1..Len(q)
  BY QueueElements
<1> QED BY <1>1 DEF Sound, NoLatest, Harmless

LEMMA AddedSound ==
  ASSUME NEW q \in Seq(Task), NEW r \in Seq(Task), NEW t, Added(r, q, t), NEW e, NEW k, NEW b, NEW clear,
         Sound(q, e, k, b, clear), Latest(t, k), k.modified
  PROVE  Sound(r, e, k, b, clear)
<1>1. /\ Len(q) \in Nat /\ Len(r) = Len(q) + 1 /\ \A i \in 1..Len(q) : r[i] = q[i]
      /\ r[Len(q) + 1].kind = "backup" /\ (q = <<>> => r[1].phase = "begun") /\ (q # <<>> => Len(q) >= 1)
  BY QueueElements DEF Added, Alike, Latest
<1>2. Harmless(r, e, k)
  <2> SUFFICES ASSUME NEW j \in 1..Len(r), r[j].kind = "discard"
               PROVE  ~Held(e, k) /\ \A i \in 1..Len(r) : i < j => ~Latest(r[i], k)
    BY DEF Harmless
  <2>1. j \in 1..Len(q) /\ q[j].kind = "discard"
    BY <1>1
  <2> QED BY <1>1, <2>1 DEF Sound, Harmless
<1>3. q # <<>> => r[1] = q[1]
  BY <1>1
<1> QED BY <1>1, <1>2, <1>3 DEF Sound

LEMMA AddedNoLatest ==
  ASSUME NEW q \in Seq(Task), NEW r, NEW t, Added(r, q, t), NEW k, NoLatest(q, k), t.kind # "backup"
  PROVE  NoLatest(r, k)
<1>1. /\ Len(q) \in Nat /\ Len(r) = Len(q) + 1 /\ (\A i \in 1..Len(q) : r[i] = q[i]) /\ r[Len(q) + 1].kind # "backup"
  BY QueueElements DEF Added, Alike
<1> QED BY <1>1 DEF NoLatest, Latest

LEMMA FewerNoLatest ==
  ASSUME NEW q, NEW r, Fewer(r, q), NEW k, NoLatest(q, k)
  PROVE  NoLatest(r, k)
<1>1. PICK h \in [1..Len(r) -> 1..Len(q)] : \A i \in 1..Len(r) : Kin(r[i], q[h[i]])
  BY DEF Fewer
<1> QED BY <1>1 DEF NoLatest, Kin, Latest, Newest

-----------------------------------------------------------------------------
(* Steps of the window *)

\* The task that runs may lose its owner.
LEMMA RenamedQueue ==
  ASSUME NEW q \in Seq(Task), NEW p \in Seq(Task), NEW who, Cut(p, q, who), Len(p) = Len(q)
  PROVE  /\ \A i \in 1..Len(p) : Kin(p[i], q[i])
         /\ \A i \in 2..Len(p) : p[i] = q[i]
         /\ p = <<>> <=> q = <<>>
         /\ \A i \in 1..Len(p) : p[i].by \in {q[i].by, "nobody"}
<1>1. /\ Len(q) \in Nat /\ (q # <<>> <=> Len(q) >= 1) /\ (p # <<>> <=> Len(p) >= 1)
      /\ \A i \in 1..Len(q) : q[i] \in Task
  BY QueueElements
<1>2. CASE p = q
  BY <1>2 DEF Kin
<1>3. CASE /\ q # <<>> /\ q[1].by = who /\ Len(p) = Len(q)
           /\ p[1] = [q[1] EXCEPT !.by = "nobody"]
           /\ \A i \in 2..Len(p) : p[i] = q[i]
  <2>1. q[1] \in Task
    BY <1>1, <1>3
  <2>2. Kin(p[1], q[1]) /\ p[1].by = "nobody"
    BY <1>3, <2>1 DEF Kin, Task
  <2>3. \A i \in 1..Len(p) : i = 1 \/ i \in 2..Len(p)
    BY <1>1, <1>3
  <2>4. \A i \in 1..Len(p) : Kin(p[i], q[i]) /\ p[i].by \in {q[i].by, "nobody"}
    BY <1>3, <2>2, <2>3 DEF Kin
  <2> QED BY <1>1, <1>3, <2>4
<1> QED BY <1>1, <1>2, <1>3 DEF Cut

LEMMA RenamedKeeps ==
  ASSUME NEW q \in Seq(Task), NEW p \in Seq(Task), NEW who, Cut(p, q, who), Len(p) = Len(q),
         NEW e, NEW k, NEW b, NEW op, NEW deciding
  PROVE  /\ \A clear : Sound(q, e, k, b, clear) => Sound(p, e, k, b, clear)
         /\ UpToDate(q, e, k, b, op, deciding) => UpToDate(p, e, k, b, op, deciding)
         /\ Repeated(q, k) => Repeated(p, k)
         /\ NoLatest(q, k) => NoLatest(p, k)
<1>1. Fewer(p, q) /\ SameHead(p, q)
  BY CutFewer, HeadsKept
<1>2. /\ Len(q) \in Nat /\ (q # <<>> <=> Len(q) >= 1)
      /\ \A i \in 1..Len(p) : Kin(p[i], q[i])
      /\ \A i \in 2..Len(p) : p[i] = q[i]
      /\ p = <<>> <=> q = <<>>
  BY RenamedQueue, QueueElements
<1>3. \A i \in 1..Len(q) : p[i].kind = q[i].kind /\ (Latest(p[i], k) <=> Latest(q[i], k))
  BY <1>2 DEF Kin, Latest, Newest
<1>4. q # <<>> => Len(q) \in 1..Len(q)
  BY <1>2
<1>5. UpToDate(q, e, k, b, op, deciding) => UpToDate(p, e, k, b, op, deciding)
  BY <1>2, <1>3, <1>4 DEF UpToDate
<1>6. Repeated(q, k) => Repeated(p, k)
  BY <1>2, <1>3 DEF Repeated
<1> QED BY <1>1, <1>3, <1>5, <1>6, FewerSound, FewerNoLatest

\* A step that leaves a copy, its file and its entry alone, and does no more to its
\* queue than begin to back it up or to discard its backup.
LEMMA FollowedStep ==
  ASSUME Base, Base', NEW c \in Copy, Followable(c),
         copy'[c] = copy[c], cache'[c] = cache[c], backupFile'[c] = backupFile[c], Clear => Clear', Deciding' => Deciding,
         pending'[c].op = pending[c].op \/ pending[c].op \notin {"timer", "snapshot"},
         NEW p \in Seq(Task), NEW who, Cut(p, io[c], who), Len(p) = Len(io[c]),
         \/ io'[c] = p
         \/ /\ Added(io'[c], p, backupTask(copy[c].content, copy[c].version, copy[c].stat, "shutdown"))
            /\ copy[c].modified /\ Deciding /\ ~Current(cache[c], copy[c])
            /\ pending[c].op \notin {"timer", "snapshot"}
         \/ Added(io'[c], p, discardTask("shutdown")) /\ ~copy[c].modified /\ ~Clear
  PROVE  Followable(c)'
<1> DEFINE q == io[c]
           r == io'[c]
           k == copy[c]
           e == cache[c]
           b == backupFile[c]
           t == backupTask(copy[c].content, copy[c].version, copy[c].stat, "shutdown")
           d == discardTask("shutdown")
<1>1. q \in Seq(Task) /\ r \in Seq(Task)
  BY BaseOf DEF Base, Queues
<1>2. Latest(t, k) /\ t.by = "shutdown" /\ t.kind = "backup" /\ d.kind = "discard"
  BY DEF Latest, Newest, backupTask, discardTask
<1> HIDE DEF q, r, k, e, b, t, d
<1>3. /\ Cut(p, q, who) /\ Len(p) = Len(q)
      /\ \/ r = p
         \/ Added(r, p, t) /\ k.modified /\ Deciding /\ ~Current(e, k) /\ pending[c].op \notin {"timer", "snapshot"}
         \/ Added(r, p, d) /\ ~k.modified /\ ~Clear
  BY DEF q, r, k, e, t, d
<1>4. /\ ~Superseded(c) => Sound(q, e, k, b, Clear)
      /\ ~k.reverting => UpToDate(q, e, k, b, pending[c].op, Deciding) /\ Repeated(q, k)
  BY DEF Followable, q, k, e, b
<1>5. /\ ~Superseded(c) => Sound(p, e, k, b, Clear')
      /\ ~k.reverting => UpToDate(p, e, k, b, pending'[c].op, Deciding') /\ Repeated(p, k)
  <2>1. /\ ~Superseded(c) => Sound(p, e, k, b, Clear)
        /\ ~k.reverting => UpToDate(p, e, k, b, pending[c].op, Deciding) /\ Repeated(p, k)
    BY <1>1, <1>3, <1>4, RenamedKeeps
  <2>2. ~k.reverting => UpToDate(p, e, k, b, pending'[c].op, Deciding')
    BY <2>1 DEF UpToDate
  <2>3. ~Superseded(c) => Sound(p, e, k, b, Clear')
    BY <2>1 DEF Sound
  <2> QED BY <2>1, <2>2, <2>3
<1>6. Len(p) \in Nat /\ (p # <<>> <=> Len(p) >= 1) /\ (r # <<>> <=> Len(r) >= 1) /\ Len(r) \in Nat
  BY <1>1, QueueElements
<1>7. (Superseded(c)' <=> Superseded(c)) /\ (Superseded(c) <=> k.reverting /\ ~k.modified)
  BY DEF Superseded, k
<1>8. CASE r = p
  BY <1>5, <1>7, <1>8 DEF Followable, r, k, e, b
<1>9. CASE Added(r, p, t) /\ k.modified /\ Deciding /\ ~Current(e, k) /\ pending[c].op \notin {"timer", "snapshot"}
  <2>1. ~Superseded(c) => Sound(r, e, k, b, Clear')
    BY <1>1, <1>2, <1>5, <1>9, AddedSound
  <2>2. /\ Len(r) = Len(p) + 1 /\ \A i \in 1..Len(p) : r[i] = p[i]
        /\ Alike(r[Len(p) + 1], t)
    BY <1>9 DEF Added
  <2>3. r # <<>> /\ Latest(r[Len(r)], k)
    BY <1>2, <1>6, <2>2 DEF Alike, Latest, Newest
  <2>4. ~k.reverting => Repeated(r, k)
    <3> SUFFICES ASSUME ~k.reverting, NEW i \in 2..Len(r), r[i].by = "shutdown", r[i].kind = "backup"
                 PROVE  Latest(r[i - 1], k)
      BY DEF Repeated
    <3>1. CASE i \in 2..Len(p)
      <4>1. i - 1 \in 1..Len(p) /\ i \in 1..Len(p)
        BY <3>1, <1>6
      <4>2. r[i] = p[i] /\ r[i - 1] = p[i - 1]
        BY <2>2, <4>1
      <4> QED BY <1>5, <3>1, <4>2 DEF Repeated
    <3>2. CASE i = Len(p) + 1
      <4>1. p # <<>> /\ Len(p) \in 1..Len(p)
        BY <1>6, <3>2
      <4>2. q # <<>> /\ Latest(q[Len(q)], k)
        <5>1. q # <<>>
          BY <1>1, <1>3, <4>1, RenamedQueue
        <5> QED BY <1>4, <1>9, <5>1 DEF UpToDate
      <4>3. Kin(p[Len(p)], q[Len(p)])
        BY <1>1, <1>3, <4>1, RenamedQueue
      <4>4. Latest(p[Len(p)], k)
        BY <1>3, <4>2, <4>3 DEF Kin, Latest, Newest
      <4> QED BY <2>2, <3>2, <4>1, <4>4
    <3> QED BY <1>6, <2>2, <3>1, <3>2
  <2>5. UpToDate(r, e, k, b, pending'[c].op, Deciding')
    BY <1>9, <2>3 DEF UpToDate
  <2> QED BY <1>7, <2>1, <2>4, <2>5 DEF Followable, r, k, e, b
<1>10. CASE Added(r, p, d) /\ ~k.modified /\ ~Clear
  <2>1. ~Superseded(c) => Sound(r, e, k, b, Clear')
    <3> SUFFICES ASSUME ~Superseded(c) PROVE Sound(r, e, k, b, Clear')
      OBVIOUS
    <3>1. NoLatest(p, k) /\ ~Held(e, k)
      <4>1. Sound(p, e, k, b, Clear)
        BY <1>1, <1>3, <1>4, RenamedKeeps
      <4> QED BY <1>10, <4>1 DEF Sound
    <3>2. NoLatest(r, k)
      BY <1>2, <1>10, <3>1, AddedNoLatest
    <3> QED BY <1>1, <3>1, <3>2, SupersededSound
  <2>2. /\ Len(r) = Len(p) + 1 /\ \A i \in 1..Len(p) : r[i] = p[i]
        /\ Alike(r[Len(p) + 1], d)
    BY <1>10 DEF Added
  <2>3. r # <<>> /\ r[Len(r)].kind = "discard"
    BY <1>2, <1>6, <2>2 DEF Alike
  <2>4. ~k.reverting => Repeated(r, k)
    <3> SUFFICES ASSUME ~k.reverting, NEW i \in 2..Len(r), r[i].by = "shutdown", r[i].kind = "backup"
                 PROVE  Latest(r[i - 1], k)
      BY DEF Repeated
    <3>1. i # Len(p) + 1
      BY <1>2, <2>2 DEF Alike
    <3>2. i - 1 \in 1..Len(p) /\ i \in 1..Len(p)
      BY <3>1, <1>6, <2>2
    <3>3. r[i] = p[i] /\ r[i - 1] = p[i - 1]
      BY <2>2, <3>2
    <3> QED BY <1>5, <3>2, <3>3 DEF Repeated
  <2>5. UpToDate(r, e, k, b, pending'[c].op, Deciding')
    BY <1>10, <2>3 DEF UpToDate
  <2> QED BY <1>7, <2>1, <2>4, <2>5 DEF Followable, r, k, e, b
<1> QED BY <1>3, <1>8, <1>9, <1>10

\* The user no longer waits for the backups of a shutdown.
LEMMA CutFollowed ==
  ASSUME NEW q \in Seq(Task), NEW p \in Seq(Task), Cut(p, q, "shutdown"), \A i \in 1..Len(p) : p[i].by # "shutdown",
         \A i \in 1..Len(q) : q[i].by = "shutdown" => q[i].kind = "backup",
         NEW e, NEW k, NEW b, NEW op, NEW deciding, UpToDate(q, e, k, b, op, deciding), Repeated(q, k)
  PROVE  UpToDate(p, e, k, b, op, deciding) /\ Repeated(p, k)
<1>1. Repeated(p, k)
  <2>1. \A i \in 2..Len(p) : i \in 1..Len(p)
    BY QueueElements
  <2> QED BY <2>1 DEF Repeated
<1>2. CASE Len(p) = Len(q)
  BY <1>1, <1>2, RenamedKeeps
<1>3. CASE \E n \in 2..Len(q) :
             /\ q[n].by = "shutdown"
             /\ Len(p) = Len(q) - 1
             /\ \A i \in 1..Len(p) : p[i] = IF i < n THEN q[i] ELSE q[i + 1]
  <2>1. PICK n \in 2..Len(q) :
             /\ q[n].by = "shutdown"
             /\ Len(p) = Len(q) - 1
             /\ \A i \in 1..Len(p) : p[i] = IF i < n THEN q[i] ELSE q[i + 1]
    BY <1>3
  <2>2. /\ Len(q) \in Nat /\ Len(q) >= 2 /\ n \in 1..Len(q) /\ Len(p) \in 1..Len(p) /\ p # <<>> /\ q # <<>>
        /\ Len(p) + 1 = Len(q)
    BY <2>1, QueueElements
  <2>3. q[n].kind = "backup" /\ Latest(q[n - 1], k)
    BY <2>1, <2>2 DEF Repeated
  <2>4. CASE n = Len(q)
    <3>1. p[Len(p)] = q[n - 1]
      BY <2>1, <2>2, <2>4
    <3>2. k.modified
      BY <2>2, <2>3, <2>4 DEF UpToDate
    <3> QED BY <1>1, <2>2, <2>3, <3>1, <3>2 DEF UpToDate
  <2>5. CASE n < Len(q)
    <3>1. p[Len(p)] = q[Len(q)]
      BY <2>1, <2>2, <2>5
    <3> QED BY <1>1, <2>2, <3>1 DEF UpToDate
  <2> QED BY <2>1, <2>2, <2>4, <2>5
<1> QED BY <1>2, <1>3 DEF Cut

\* Cancelled tasks are not the discards that copies need which are not open.
LEMMA CutDeleted ==
  ASSUME NEW q \in Seq(Task), NEW p \in Seq(Task), NEW who, Cut(p, q, who), Len(p) = Len(q) \/ who = "shutdown", Deleted(q)
  PROVE  Deleted(p)
<1>1. CASE Len(p) = Len(q)
  <2>1. (\A i \in 1..Len(p) : Kin(p[i], q[i])) /\ \A i \in 2..Len(p) : p[i] = q[i]
    BY <1>1, RenamedQueue
  <2> SUFFICES ASSUME NEW i \in 1..Len(p), p[i].kind = "backup"
               PROVE  \E j \in 1..Len(p) : i < j /\ p[j].kind = "discard" /\ p[j].by = "tracker"
    BY DEF Deleted
  <2>2. PICK j \in 1..Len(q) : i < j /\ q[j].kind = "discard" /\ q[j].by = "tracker"
    BY <1>1, <2>1 DEF Deleted, Kin
  <2>3. j \in 2..Len(p)
    BY <1>1, <2>2, QueueElements
  <2> QED BY <1>1, <2>1, <2>2, <2>3
<1>2. CASE who = "shutdown" /\ \E n \in 2..Len(q) :
             /\ q[n].by = "shutdown"
             /\ Len(p) = Len(q) - 1
             /\ \A i \in 1..Len(p) : p[i] = IF i < n THEN q[i] ELSE q[i + 1]
  <2>1. PICK n \in 2..Len(q) :
             /\ q[n].by = "shutdown"
             /\ Len(p) = Len(q) - 1
             /\ \A i \in 1..Len(p) : p[i] = IF i < n THEN q[i] ELSE q[i + 1]
    BY <1>2
  <2>2. Len(q) \in Nat
    BY QueueElements
  <2> SUFFICES ASSUME NEW i \in 1..Len(p), p[i].kind = "backup"
               PROVE  \E j \in 1..Len(p) : i < j /\ p[j].kind = "discard" /\ p[j].by = "tracker"
    BY DEF Deleted
  <2> DEFINE h == IF i < n THEN i ELSE i + 1
  <2>3. h \in 1..Len(q) /\ q[h].kind = "backup" /\ h >= i
    BY <2>1, <2>2
  <2>4. PICK j \in 1..Len(q) : h < j /\ q[j].kind = "discard" /\ q[j].by = "tracker"
    BY <2>3 DEF Deleted
  <2>5. j # n
    BY <2>1, <2>4
  <2>6. CASE j < n
    <3>1. j \in 1..Len(p) /\ p[j] = q[j] /\ i < j
      BY <2>1, <2>2, <2>3, <2>4, <2>6
    <3> QED BY <2>4, <3>1
  <2>7. CASE j > n
    <3>1. j - 1 \in 1..Len(p) /\ p[j - 1] = q[j] /\ i < j - 1
      BY <2>1, <2>2, <2>3, <2>4, <2>7
    <3> QED BY <2>4, <3>1
  <2> QED BY <2>2, <2>5, <2>6, <2>7
<1>3. CASE p = q
  BY <1>3
<1> QED
  <2>1. Len(q) \in Nat /\ Len(q) # Len(q) - 1
    BY QueueElements
  <2> QED BY <1>1, <1>2, <1>3, <2>1 DEF Cut

\* A task that is no backup may come behind it.
LEMMA AddedDeleted ==
  ASSUME NEW q \in Seq(Task), NEW r, NEW t, Added(r, q, t), t.kind # "backup", Deleted(q)
  PROVE  Deleted(r)
<1>1. /\ Len(q) \in Nat /\ Len(r) = Len(q) + 1 /\ (\A i \in 1..Len(q) : r[i] = q[i]) /\ r[Len(q) + 1].kind # "backup"
  BY QueueElements DEF Added, Alike
<1> SUFFICES ASSUME NEW i \in 1..Len(r), r[i].kind = "backup"
             PROVE  \E j \in 1..Len(r) : i < j /\ r[j].kind = "discard" /\ r[j].by = "tracker"
  BY DEF Deleted
<1>2. i \in 1..Len(q) /\ q[i].kind = "backup"
  BY <1>1
<1>3. PICK j \in 1..Len(q) : i < j /\ q[j].kind = "discard" /\ q[j].by = "tracker"
  BY <1>2 DEF Deleted
<1> QED BY <1>1, <1>3

\* A step that leaves the file and the entry of a copy alone that is not open.
LEMMA UnopenedStep ==
  ASSUME Base, Base', NEW c \in Copy, Openable(c), cache'[c] = cache[c], backupFile'[c] = backupFile[c], Clear => Clear',
         NEW p \in Seq(Task), NEW who, Cut(p, io[c], who), Len(p) = Len(io[c]) \/ who = "shutdown",
         io'[c] = p \/ Added(io'[c], p, discardTask("shutdown")),
         Restorable(c) /\ Whole(c) => /\ ~Clear' /\ io'[c] = p
                                      /\ isReady' => c \in unrestored'
                                      /\ shutdown'.phase \in Undecided => c \notin shutdown'.list
  PROVE  Openable(c)'
<1> DEFINE q == io[c]
           r == io'[c]
           d == discardTask("shutdown")
<1>1. q \in Seq(Task) /\ r \in Seq(Task) /\ Line(q, cache[c])
  BY BaseOf DEF Base, Queues
<1>2. d.kind = "discard"
  BY DEF discardTask
<1> HIDE DEF q, r, d
<1>3. Cut(p, q, who) /\ (Len(p) = Len(q) \/ who = "shutdown") /\ (r = p \/ Added(r, p, d)) /\ Deleted(q)
  BY DEF q, r, d, Openable
<1>4. Deleted(r)
  <2>1. Deleted(p)
    BY <1>1, <1>3, CutDeleted
  <2> QED BY <1>2, <1>3, <2>1, AddedDeleted
<1>5. SUFFICES ASSUME r = <<>> \/ r[1].kind = "resolve"
               PROVE  Restorable(c)'
  BY <1>4 DEF Openable, r
<1>6. q = <<>> \/ q[1].kind = "resolve"
  <2>1. SameHead(p, q) /\ Len(p) \in Nat /\ (p # <<>> <=> Len(p) >= 1) /\ (r # <<>> <=> Len(r) >= 1)
    BY <1>1, <1>3, HeadsKept, QueueElements
  <2>2. p = <<>> \/ p[1].kind = "resolve"
    <3>1. CASE r = p
      BY <1>5, <3>1
    <3>2. CASE Added(r, p, d) /\ p # <<>>
      <4>1. 1 \in 1..Len(p) /\ r[1] = p[1] /\ r # <<>>
        BY <2>1, <3>2 DEF Added
      <4> QED BY <1>5, <4>1
    <3> QED BY <1>3, <3>1, <3>2
  <2> QED BY <2>1, <2>2 DEF SameHead, Kin
<1>7. Restorable(c)
  BY <1>6 DEF Openable, q
<1>8. Whole(c)' <=> Whole(c)
  BY DEF Whole
<1>9. CASE Whole(c)
  <2>1. Fewer(p, q)
    BY <1>1, <1>3, CutFewer
  <2>2. PICK h \in [1..Len(p) -> 1..Len(q)] : \A i \in 1..Len(p) : p[i].by \in {q[h[i]].by, "nobody"}
    BY <2>1 DEF Fewer
  <2>3. \A i \in 1..Len(q) : q[i].by # "shutdown"
    BY <1>7, <1>9 DEF Restorable, q
  <2>4. \A i \in 1..Len(p) : p[i].by # "shutdown"
    BY <2>2, <2>3
  <2> QED BY <1>7, <1>8, <1>9, <2>4 DEF Restorable, r
<1>10. CASE ~Whole(c)
  BY <1>7, <1>8, <1>10 DEF Restorable
<1> QED BY <1>9, <1>10

\* A step of the shutdown that touches no copy.
LEMMA SameFollow ==
  ASSUME Base, Base', NEW c \in Copy, Follow(c), UNCHANGED <<copy, cache, backupFile, io, pending, reused>>,
         c \in interrupted => c \in interrupted', Alive' => Alive, Clear => Clear', Deciding' => Deciding,
         Unopened(c) /\ Unopened(c)' /\ Restorable(c) /\ Whole(c) =>
           /\ ~Clear'
           /\ isReady' => c \in unrestored'
           /\ shutdown'.phase \in Undecided => c \notin shutdown'.list
  PROVE  Follow(c)'
<1>1. io[c] \in Seq(Task) /\ Cut(io[c], io[c], "nobody")
  BY BaseOf DEF Cut
<1>2. ASSUME Followed(c)' PROVE Followable(c)'
  <2>1. Followed(c)
    BY <1>2 DEF Followed
  <2>2. Followable(c)
    BY <2>1 DEF Follow
  <2> QED BY <1>1, <2>2, FollowedStep
<1>3. ASSUME Unopened(c)' PROVE Openable(c)'
  <2>1. Unopened(c)
    BY <1>3 DEF Unopened
  <2>2. Openable(c)
    BY <2>1 DEF Follow
  <2> QED BY <1>1, <1>3, <2>1, <2>2, UnopenedStep
<1> QED BY <1>2, <1>3 DEF Follow

LEMMA DecideFollow ==
  ASSUME Base, Base', NEW c \in Copy, Follow(c),
         \/ restoreBackups \/ backedUp \/ confirmSave \/ confirmCancel \/ showErrorDialog \/ notDiscardedBackups
         \/ discarded \/ joinBackups \/ crash
  PROVE  Follow(c)'
<1>1. shutdown \in Shutdown
  BY BaseOf
<1>2. CASE restoreBackups
  <2>1. UNCHANGED <<copy, cache, backupFile, io, pending, reused, shutdown, isReady>>
    BY <1>2 DEF restoreBackups, service
  <2>2. PICK handled \in SUBSET unrestored :
          /\ unrestored' = unrestored \ handled
          /\ interrupted' = interrupted \cup {d \in handled : copy[d].state # "open"}
    BY <1>2 DEF restoreBackups
  <2>3. Unopened(c)' => c \notin handled
    BY <2>1, <2>2 DEF Unopened
  <2>4. Unopened(c)' /\ Restorable(c) /\ Whole(c) =>
          /\ ~Clear /\ (isReady => c \in unrestored')
          /\ shutdown.phase \in Undecided => c \notin shutdown.list
    BY <2>2, <2>3 DEF Restorable
  <2>5. c \in interrupted => c \in interrupted'
    BY <2>2
  <2> QED BY <2>1, <2>4, <2>5, SameFollow DEF Alive, Deciding, Clear
<1>3. CASE backedUp
  <2>1. /\ shutdown'.phase \in {"decided", "error", "confirm"} /\ shutdown.phase = "backup"
        /\ shutdown'.list \subseteq shutdown.list
    BY <1>1, <1>3 DEF backedUp, Decide, NoShutdown, Shutdown
  <2>2. Restorable(c) /\ Whole(c) => (isReady => c \in unrestored) /\ c \notin shutdown.list
    BY <2>1 DEF Restorable, Undecided
  <2>3. UNCHANGED <<copy, cache, backupFile, io, pending, reused, interrupted, unrestored, isReady>>
    BY <1>3 DEF backedUp, service, ghosts
  <2> QED BY <2>1, <2>2, <2>3, SameFollow DEF Alive, Deciding, Clear
<1>4. CASE confirmSave
  <2>1. shutdown'.phase = "saving" /\ shutdown.phase = "confirm" /\ shutdown'.list = shutdown.list
    BY <1>1, <1>4 DEF confirmSave, Shutdown
  <2>2. Restorable(c) /\ Whole(c) => (isReady => c \in unrestored) /\ c \notin shutdown.list
    BY <2>1 DEF Restorable, Undecided
  <2>3. UNCHANGED <<copy, cache, backupFile, io, pending, reused, interrupted, unrestored, isReady>>
    BY <1>4 DEF confirmSave, service, ghosts, tracker
  <2> QED BY <2>1, <2>2, <2>3, SameFollow DEF Alive, Deciding, Clear
<1>5. CASE confirmCancel \/ showErrorDialog \/ discarded
  <2>1. /\ shutdown'.phase \in {"running", "decided"} /\ (shutdown'.phase = "running" => Deciding)
        /\ shutdown.phase \notin {"clear", "gone"}
    <3>1. CASE confirmCancel
      BY <3>1, DecideEffect DEF confirmCancel, Deciding
    <3>2. CASE showErrorDialog
      <4>1. PICK veto \in BOOLEAN : Decide(veto)
        BY <3>2 DEF showErrorDialog
      <4> QED BY <3>2, <4>1, DecideEffect DEF showErrorDialog, Deciding
    <3>3. CASE discarded
      BY <3>3, DecideEffect DEF discarded
    <3> QED BY <1>5, <3>1, <3>2, <3>3
  <2>2. UNCHANGED <<copy, cache, backupFile, io, pending, reused, interrupted, unrestored, isReady>>
    BY <1>5 DEF confirmCancel, showErrorDialog, discarded, service, ghosts
  <2>3. Restorable(c) /\ Whole(c) => (isReady => c \in unrestored)
    BY DEF Restorable
  <2> QED BY <2>1, <2>2, <2>3, SameFollow DEF Alive, Deciding, Clear, Undecided
<1>6. CASE notDiscardedBackups
  BY <1>6 DEF notDiscardedBackups, Follow, Followed, Unopened
<1>7. CASE joinBackups \/ crash
  <2>1. ~Alive'
    BY <1>7 DEF joinBackups, crash, Gone, NoShutdown, Alive
  <2> QED BY <2>1 DEF Follow, Followed, Unopened
<1> QED BY <1>2, <1>3, <1>4, <1>5, <1>6, <1>7

\* All backups are deleted, and then forgotten.
LEMMA WipeFollow ==
  ASSUME Base, Base', NEW c \in Copy, Follow(c), discardBackups
  PROVE  Follow(c)'
<1>1. shutdown \in Shutdown /\ io[c] \in Seq(Task) /\ Len(io[c]) \in Nat /\ (io[c] # <<>> <=> Len(io[c]) >= 1)
  BY BaseOf, QueueElements
<1>2. /\ shutdown'.phase = "clear" /\ shutdown.phase = "wipe" /\ backupFile'[c].state = "none"
      /\ UNCHANGED <<copy, io, pending, cache, reused, isReady, unrestored>>
      /\ interrupted' = interrupted \cup modifiedWorkingCopies(copy)
  BY <1>1 DEF discardBackups, Shutdown, tracker, NoBackup
<1>3. ASSUME Followed(c)' PROVE Followable(c)'
  <2>1. Followed(c) /\ ~copy[c].modified
    BY <1>2, <1>3 DEF Followed, Alive, modifiedWorkingCopies
  <2>2. Followable(c)
    BY <2>1 DEF Follow
  <2>3. ~Superseded(c) => Sound(io[c], cache[c], copy[c], backupFile[c], Clear)
    BY <2>2 DEF Followable
  <2>4. Superseded(c)' <=> Superseded(c)
    BY <1>2 DEF Superseded
  <2>5. ~Superseded(c) => ~(io[c] # <<>> /\ Latest(io[c][1], copy[c]))
    BY <1>1, <2>1, <2>3 DEF Sound, NoLatest
  <2>6. Clear'
    BY <1>2 DEF Clear
  <2>7. ~Superseded(c)' => Sound(io[c], cache[c], copy[c], backupFile'[c], Clear')
    BY <2>1, <2>3, <2>4, <2>5, <2>6 DEF Sound
  <2>8. ~copy[c].reverting => UpToDate(io[c], cache[c], copy[c], backupFile'[c], pending[c].op, Deciding')
    BY <1>2, <2>1, <2>2 DEF Followable, UpToDate
  <2> QED BY <1>2, <2>2, <2>7, <2>8 DEF Followable
<1>4. ASSUME Unopened(c)' PROVE Openable(c)'
  <2>1. Unopened(c)
    BY <1>2, <1>4 DEF Unopened, Alive
  <2> QED BY <1>2, <2>1 DEF Follow, Openable, Restorable, Whole, Clear
<1> QED BY <1>3, <1>4 DEF Follow

LEMMA ForgetFollow ==
  ASSUME Base, Base', NEW c \in Copy, Follow(c), discardedBackups
  PROVE  Follow(c)'
<1>1. /\ shutdown'.phase = "decided" /\ shutdown.phase = "clear" /\ ~cache'[c].known
      /\ UNCHANGED <<copy, io, pending, backupFile, reused, isReady, unrestored, interrupted>>
  BY DecideEffect DEF discardedBackups, ghosts, NoEntry
<1>2. ASSUME Followed(c)' PROVE Followable(c)'
  <2>1. Followable(c)
    BY <1>1, <1>2 DEF Followed, Alive, Follow
  <2>2. (Superseded(c)' <=> Superseded(c)) /\ ~Deciding'
    BY <1>1 DEF Superseded, Deciding
  <2>3. ~Superseded(c)' => Sound(io[c], cache'[c], copy[c], backupFile[c], Clear')
    BY <1>1, <2>1, <2>2 DEF Followable, Sound, Harmless, Held
  <2>4. ~copy[c].reverting => UpToDate(io[c], cache'[c], copy[c], backupFile[c], pending[c].op, Deciding')
    BY <1>1, <2>1, <2>2 DEF Followable, UpToDate
  <2> QED BY <1>1, <2>1, <2>3, <2>4 DEF Followable
<1>3. ASSUME Unopened(c)' PROVE Openable(c)'
  <2>1. Openable(c)
    BY <1>1, <1>3 DEF Unopened, Alive, Follow
  <2> QED BY <1>1, <2>1 DEF Openable, Restorable, Whole, Clear
<1> QED BY <1>2, <1>3 DEF Follow

\* The backups that are to be restored are read.
LEMMA RestorableFollow ==
  ASSUME Base, Base', NEW c \in Copy, Trust(c), Follow(c), resolveBackupsToRestore
  PROVE  Follow(c)'
<1>1. /\ io[c] = <<>> /\ Alive /\ isReady' /\ (c \in unrestored' <=> resolve(c))
      /\ cache'[c] = IF resolve(c) THEN [cache[c] EXCEPT !.meta = backupFile[c].meta] ELSE cache[c]
      /\ UNCHANGED <<copy, io, pending, backupFile, reused, interrupted, shutdown>>
  BY DEF resolveBackupsToRestore, ghosts
<1>2. cache[c] \in Entry
  BY BaseOf
<1>3. ASSUME Followed(c)' PROVE Followable(c)'
  <2>1. Followed(c)
    BY <1>1, <1>3 DEF Followed, Alive
  <2>2. resolve(c) => cache[c].meta = backupFile[c].meta
    BY <1>1, <2>1 DEF Trust, Mirrored, resolve, HeadDone, Whole, Followed
  <2>3. cache'[c] = cache[c]
    BY <1>1, <1>2, <2>2 DEF Entry
  <2>4. Followable(c)
    BY <2>1 DEF Follow
  <2> QED BY <1>1, <2>3, <2>4 DEF Followable, Superseded, Clear, Deciding
<1>4. ASSUME Unopened(c)' PROVE Openable(c)'
  <2>1. Openable(c)
    BY <1>1, <1>4 DEF Unopened, Alive, Follow
  <2>2. Restorable(c) /\ Deleted(io[c])
    BY <1>1, <2>1 DEF Openable
  <2>3. Whole(c) => resolve(c)
    BY <2>2 DEF Restorable, resolve, Whole
  <2>4. /\ Whole(c)' <=> Whole(c)
        /\ Clear' <=> Clear
        /\ Whole(c) => cache'[c].known
        /\ ~Whole(c) => cache'[c] = cache[c]
    BY <1>1, <1>2, <2>2 DEF Whole, Clear, resolve, Entry, Restorable
  <2>5. Restorable(c)'
    BY <1>1, <2>2, <2>3, <2>4 DEF Restorable
  <2> QED BY <1>1, <2>2, <2>5 DEF Openable
<1> QED BY <1>3, <1>4 DEF Follow

\* What a shutdown discards is not modified.
LEMMA NoVetoFollow ==
  ASSUME Base, Base', NEW c \in Copy, Follow(c), shutdown.phase \in {"autosave", "confirm", "saving"},
         noVeto(shutdown.list), UNCHANGED <<pending, cache, backupFile, reused, isReady, unrestored>>,
         c \in interrupted => c \in interrupted', copy'[c].state = copy[c].state,
         Followed(c)' => copy'[c] = copy[c] /\ (c \in shutdown.list => ~copy[c].modified)
  PROVE  Follow(c)'
<1>1. shutdown.list \in SUBSET Copy
  BY BaseOf DEF Shutdown
<1>2. /\ shutdown'.phase \in {"discard", "decided"} /\ io[c] \in Seq(Task) /\ Cut(io[c], io[c], "nobody")
      /\ io'[c] = io[c] \/ (Added(io'[c], io[c], discardTask("shutdown")) /\ c \in shutdown.list)
  <2>1. io[c] \in Seq(Task) /\ Cut(io[c], io[c], "nobody")
    BY BaseOf DEF Cut
  <2> QED BY <1>1, <2>1, NoVetoEffect
<1>3. ~Clear /\ Alive /\ ~Clear' /\ ~Deciding' /\ shutdown'.phase \notin Undecided
  BY <1>2 DEF Clear, Alive, Deciding, Undecided
<1>4. ASSUME Followed(c)' PROVE Followable(c)'
  <2>1. Followable(c)
    BY <1>3, <1>4 DEF Followed, Follow
  <2> QED BY <1>2, <1>3, <1>4, <2>1, FollowedStep
<1>5. ASSUME Unopened(c)' PROVE Openable(c)'
  <2>1. Openable(c)
    BY <1>3, <1>5 DEF Unopened, Follow
  <2>2. Restorable(c) /\ Whole(c) => c \notin shutdown.list /\ (isReady => c \in unrestored)
    BY DEF Restorable, Undecided
  <2> QED BY <1>2, <1>3, <2>1, <2>2, UnopenedStep
<1> QED BY <1>4, <1>5 DEF Follow

\* A shutdown backs up what is modified, over queues p without waiting tasks of the tracker.
LEMMA HandleFollow ==
  ASSUME Base, Base', NEW c \in Copy, Follow(c), Deciding, NEW sh \in Shutdown, NEW q \in [Copy -> Seq(Task)],
         \A d \in Copy : Line(q[d], cache[d]) /\ \A i \in 1..Len(q[d]) : q[d][i].by # "shutdown",
         \A d \in Copy : copy[d].state = "open" => \A i \in 1..Len(q[d]) : q[d][i].by # "open",
         handleModifiedBeforeShutdown(sh, modifiedWorkingCopies(copy), q),
         UNCHANGED <<copy, cache, backupFile, reused, isReady, unrestored>>, c \in interrupted => c \in interrupted',
         NEW who, Cut(q[c], io[c], who),
         c \notin interrupted' => Len(q[c]) = Len(io[c]) /\ pending[c].op \notin {"timer", "snapshot"}
  PROVE  Follow(c)'
<1> DEFINE m == modifiedWorkingCopies(copy)
           p == q[c]
<1>1. /\ shutdown'.phase \in {"confirm", "backup"} /\ shutdown'.list = m
      /\ \/ io'[c] = p
         \/ /\ Added(io'[c], p, backupTask(copy[c].content, copy[c].version, copy[c].stat, "shutdown"))
            /\ c \in m /\ ~hasBackupSync(c)
  BY HandleEffect
<1>2. p \in Seq(Task) /\ Cut(p, io[c], who)
  OBVIOUS
<1>3. c \in m => copy[c].modified /\ copy[c].state = "open"
  BY BaseOf DEF modifiedWorkingCopies
<1>4. ~Clear /\ Alive /\ ~Clear' /\ Alive'
  BY <1>1 DEF Clear, Alive, Deciding
<1> HIDE DEF p, m
<1>5. ASSUME Followed(c)' PROVE Followable(c)'
  <2>1. Followable(c) /\ c \notin interrupted'
    BY <1>4, <1>5 DEF Followed, Follow
  <2>2. Len(p) = Len(io[c]) /\ pending[c].op \notin {"timer", "snapshot"}
    BY <2>1 DEF p
  <2>3. ~hasBackupSync(c) <=> ~Current(cache[c], copy[c])
    BY DEF hasBackupSync, Current
  <2> QED BY <1>1, <1>2, <1>3, <1>4, <2>1, <2>2, <2>3, FollowedStep
<1>6. ASSUME Unopened(c)' PROVE Openable(c)'
  <2>1. Openable(c) /\ c \notin interrupted' /\ copy[c].state # "open"
    BY <1>4, <1>6 DEF Unopened, Follow
  <2>2. Len(p) = Len(io[c]) /\ c \notin m /\ io'[c] = p
    BY <1>1, <1>3, <2>1 DEF p
  <2>3. Restorable(c) /\ Whole(c) => (isReady => c \in unrestored)
    BY DEF Restorable
  <2> QED BY <1>1, <1>2, <1>4, <2>1, <2>2, <2>3, UnopenedStep
<1> QED BY <1>5, <1>6 DEF Follow

LEMMA ModifiedFollow ==
  ASSUME Base, Base', NEW c \in Copy, Follow(c), confirmDontSave \/ confirmedSaves \/ autoSaved
  PROVE  Follow(c)'
<1>1. copy[c] \in WorkingCopy /\ shutdown \in Shutdown
  BY BaseOf
<1>2. CASE confirmDontSave
  <2>1. /\ copy'[c].state = copy[c].state /\ (c \notin shutdown.list => copy'[c] = copy[c])
        /\ interrupted' = interrupted \cup shutdown.list /\ noVeto(shutdown.list) /\ shutdown.phase = "confirm"
        /\ UNCHANGED <<pending, cache, backupFile, reused, isReady, unrestored>>
    BY <1>1, <1>2 DEF confirmDontSave, WorkingCopy
  <2> QED BY <2>1, NoVetoFollow DEF Followed
<1>3. CASE confirmedSaves
  <2>0. shutdown.phase = "saving" /\ UNCHANGED <<copy, pending, cache, backupFile, reused, isReady, unrestored>>
    BY <1>3 DEF confirmedSaves
  <2>1. CASE /\ noVeto(shutdown.list)
             /\ interrupted' = interrupted \cup (shutdown.list \cap modifiedWorkingCopies(copy))
    BY <2>0, <2>1, NoVetoFollow DEF Followed, modifiedWorkingCopies
  <2>2. CASE Decide(TRUE) /\ UNCHANGED <<io, interrupted>>
    <3>1. shutdown'.phase = "running"
      BY <2>2, DecideEffect
    <3>2. Restorable(c) /\ Whole(c) => (isReady => c \in unrestored)
      BY DEF Restorable
    <3> QED BY <2>0, <2>2, <3>1, <3>2, SameFollow DEF Alive, Deciding, Clear, Undecided
  <2> QED BY <1>3, <2>1, <2>2 DEF confirmedSaves
<1>4. CASE autoSaved
  <2>0. /\ shutdown.phase = "autosave" /\ UNCHANGED <<copy, pending, cache, backupFile, reused, isReady, unrestored, interrupted>>
    BY <1>4 DEF autoSaved, ghosts
  <2>1. CASE modifiedWorkingCopies(copy) = {} /\ noVeto(shutdown.list)
    BY <2>0, <2>1, NoVetoFollow DEF modifiedWorkingCopies
  <2>2. CASE handleModifiedBeforeShutdown(shutdown, modifiedWorkingCopies(copy), io)
    <3>1. \A d \in Copy : Line(io[d], cache[d]) /\ \A i \in 1..Len(io[d]) : io[d][i].by # "shutdown"
      BY <2>0, BaseOf, NoShutdownTask
    <3>2. \A d \in Copy : copy[d].state = "open" => \A i \in 1..Len(io[d]) : io[d][i].by # "open"
      BY DEF Base, Owners, Owned
    <3>3. io \in [Copy -> Seq(Task)] /\ Deciding /\ Cut(io[c], io[c], "nobody")
      BY <2>0 DEF Base, Queues, Deciding, Cut
    <3>4. pending[c].op = "none"
      BY <2>0 DEF Base, Suspension, Alive
    <3> QED BY <1>1, <2>0, <2>2, <3>1, <3>2, <3>3, <3>4, HandleFollow
  <2> QED BY <1>4, <2>1, <2>2 DEF autoSaved
<1> QED BY <1>2, <1>3, <1>4

\* The user no longer waits.
LEMMA ImpatientFollow ==
  ASSUME Base, Base', NEW c \in Copy, Follow(c), cancelProgress
  PROVE  Follow(c)'
<1>1. shutdown \in Shutdown /\ io[c] \in Seq(Task) /\ Line(io[c], cache[c])
  BY BaseOf
<1>2. /\ UNCHANGED <<copy, pending, cache, backupFile, reused, isReady, unrestored, interrupted>>
      /\ shutdown.phase \in {"autosave", "saving", "backup", "discard"}
  BY DEF cancelProgress, tracker
<1>3. CASE shutdown.phase # "backup"
  <2>1. shutdown'.phase = shutdown.phase /\ shutdown'.list = shutdown.list /\ io' = io
    BY <1>1, <1>3 DEF cancelProgress, Shutdown
  <2>2. Restorable(c) /\ Whole(c) => /\ isReady => c \in unrestored
                                     /\ shutdown.phase \in Undecided => c \notin shutdown.list
    BY DEF Restorable
  <2> QED BY <1>2, <2>1, <2>2, SameFollow DEF Alive, Deciding, Clear
<1>4. CASE shutdown.phase = "backup"
  <2>1. /\ shutdown'.phase = "confirm" /\ shutdown'.list \subseteq shutdown.list
        /\ io'[c] = Cancelled(io[c], "shutdown")
    BY <1>1, <1>4, ZenonT(40) DEF cancelProgress, Shutdown
  <2>2. /\ io'[c] \in Seq(Task) /\ Cut(io'[c], io[c], "shutdown") /\ \A i \in 1..Len(io'[c]) : io'[c][i].by # "shutdown"
    <3>1. /\ Line(io'[c], cache[c]) /\ Cut(io'[c], io[c], "shutdown")
          /\ \A i \in 1..Len(io'[c]) : io'[c][i].by # "shutdown"
      BY <1>1, <2>1, CancelledEffect
    <3> QED BY <3>1 DEF Line
  <2>3. \A i \in 1..Len(io[c]) : io[c][i].by = "shutdown" => io[c][i].kind = "backup"
    BY <1>4, BaseOf DEF Owned
  <2>4. Alive /\ Alive' /\ Deciding /\ Deciding' /\ ~Clear /\ ~Clear' /\ shutdown.phase \in Undecided
    BY <1>4, <2>1 DEF Alive, Deciding, Clear, Undecided
  <2>5. ASSUME Followed(c)' PROVE Followable(c)'
    <3> DEFINE q == io[c]
               p == io'[c]
    <3>1. Followable(c)
      BY <1>2, <2>4, <2>5 DEF Followed, Follow
    <3>2. Fewer(p, q) /\ SameHead(p, q)
      BY <1>1, <2>2, CutFewer, HeadsKept
    <3> DEFINE k == copy[c]
               e == cache[c]
               b == backupFile[c]
               op == pending[c].op
    <3>3. /\ ~Superseded(c) => Sound(q, e, k, b, Clear)
          /\ ~k.reverting => UpToDate(q, e, k, b, op, Deciding) /\ Repeated(q, k)
      BY <3>1 DEF Followable
    <3> HIDE DEF q, p, k, e, b, op
    <3>4. ~Superseded(c) => Sound(p, e, k, b, Clear)
      BY <1>1, <2>2, <3>2, <3>3, FewerSound DEF q, p
    <3>5. ~k.reverting => UpToDate(p, e, k, b, op, Deciding) /\ Repeated(p, k)
      BY <1>1, <2>2, <2>3, <3>3, CutFollowed DEF q, p
    <3>6. Sound(p, e, k, b, Clear) <=> Sound(p, e, k, b, Clear')
      BY <2>4 DEF Sound
    <3>7. UpToDate(p, e, k, b, op, Deciding) <=> UpToDate(p, e, k, b, op, Deciding')
      BY <2>4 DEF UpToDate
    <3> QED BY <1>2, <3>4, <3>5, <3>6, <3>7 DEF Followable, Superseded, p, k, e, b, op
  <2>6. ASSUME Unopened(c)' PROVE Openable(c)'
    <3>1. Openable(c)
      BY <1>2, <2>4, <2>6 DEF Unopened, Follow
    <3>2. Restorable(c) /\ Whole(c) => (isReady => c \in unrestored) /\ c \notin shutdown.list
      BY <2>4 DEF Restorable
    <3> DEFINE p == io'[c]
    <3> HIDE DEF p
    <3>3. p \in Seq(Task) /\ Cut(p, io[c], "shutdown") /\ io'[c] = p
      BY <2>2 DEF p
    <3> QED BY <1>2, <2>1, <2>4, <3>1, <3>2, <3>3, UnopenedStep
  <2> QED BY <2>5, <2>6 DEF Follow
<1> QED BY <1>3, <1>4

\* The window goes.
LEMMA WillShutdownFollow ==
  ASSUME Base, Base', NEW c \in Copy, Follow(c), onWillShutdown
  PROVE  Follow(c)'
<1>1. shutdown \in Shutdown /\ io[c] \in Seq(Task) /\ Line(io[c], cache[c])
  BY BaseOf
<1>2. /\ shutdown'.phase = "joining" /\ shutdown.phase = "decided"
      /\ UNCHANGED <<copy, cache, backupFile, reused, isReady, unrestored>>
      /\ c \notin interrupted' => c \notin interrupted /\ ~(Len(io'[c]) < Len(io[c])) /\ pending[c].op \notin {"timer", "snapshot"}
  BY <1>1 DEF onWillShutdown, Shutdown
<1>3. io'[c] \in Seq(Task) /\ Cut(io'[c], io[c], "tracker")
  BY <1>1, CancelledEffect DEF onWillShutdown, Line
<1>4. ~(Len(io'[c]) < Len(io[c])) => Len(io'[c]) = Len(io[c])
  BY <1>1, <1>3, QueueElements DEF Cut
<1>5. Alive /\ ~Deciding' /\ ~Clear /\ ~Clear' /\ shutdown'.phase \notin Undecided
  BY <1>2 DEF Alive, Deciding, Clear, Undecided
<1> DEFINE p == io'[c]
<1> HIDE DEF p
<1>6. p \in Seq(Task) /\ Cut(p, io[c], "tracker") /\ io'[c] = p
  BY <1>3 DEF p
<1>7. ASSUME Followed(c)' PROVE Followable(c)'
  <2>1. Followable(c) /\ c \notin interrupted'
    BY <1>2, <1>5, <1>7 DEF Followed, Follow
  <2>2. Len(p) = Len(io[c]) /\ pending[c].op \notin {"timer", "snapshot"}
    BY <1>2, <1>4, <2>1 DEF p
  <2> QED BY <1>2, <1>5, <1>6, <2>1, <2>2, FollowedStep
<1>8. ASSUME Unopened(c)' PROVE Openable(c)'
  <2>1. Openable(c) /\ c \notin interrupted'
    BY <1>2, <1>5, <1>8 DEF Unopened, Follow
  <2>2. Len(p) = Len(io[c])
    BY <1>2, <1>4, <2>1 DEF p
  <2>3. Restorable(c) /\ Whole(c) => (isReady => c \in unrestored)
    BY DEF Restorable
  <2> QED BY <1>2, <1>5, <1>6, <2>1, <2>2, <2>3, UnopenedStep
<1> QED BY <1>7, <1>8 DEF Follow

\* A shutdown begins.
LEMMA BeforeShutdownFollow ==
  ASSUME Base, Base', NEW c \in Copy, Follow(c), NEW reason \in Reason, onFinalBeforeShutdown(reason)
  PROVE  Follow(c)'
<1> DEFINE m == modifiedWorkingCopies(copy)
           q == [d \in Copy |-> Cancelled(io[d], "tracker")]
           except == IF emptyWindow THEN {} ELSE unrestored
           discards == {d \in Copy \ except : cache[d].known}
           sh == [NoShutdown EXCEPT !.reason = reason, !.list = m]
<1>1. /\ shutdown.phase = "running" /\ Alive /\ Deciding /\ ~Clear
      /\ pending'[c] = Idle
      /\ UNCHANGED <<copy, disk, cache, backupFile, reused, isReady, unrestored>>
  BY DEF onFinalBeforeShutdown, Alive, Deciding, Clear
<1>2. \/ shutdown' = [sh EXCEPT !.phase = "autosave", !.left = m \cap AutoSave] /\ io' = q
      \/ handleModifiedBeforeShutdown(sh, m, q)
      \/ Decide(FALSE) /\ io' = q
      \/ shutdown' = [sh EXCEPT !.phase = "wipe"] /\ io' = q
      \/ /\ m = {} /\ isReady /\ except # {}
         /\ shutdown' = [sh EXCEPT !.phase = "discard", !.left = discards]
         /\ io' = [d \in Copy |-> IF d \in discards THEN Queued(q[d], cache[d], discardTask("shutdown")) ELSE q[d]]
  BY DEF onFinalBeforeShutdown
<1>3. m \subseteq Copy
  BY DEF modifiedWorkingCopies
<1>4. sh \in Shutdown /\ sh.list = m
  <2>1. reason \in {"CLOSE", "QUIT", "RELOAD", "LOAD"}
    BY ConfigurationAssumption
  <2> QED BY <1>3, <2>1, Constants DEF Shutdown
<1>5. \A d \in Copy : /\ Line(q[d], cache[d]) /\ q[d] \in Seq(Task) /\ Cut(q[d], io[d], "tracker")
                      /\ \A i \in 1..Len(q[d]) : q[d][i].by # "shutdown"
                      /\ Owned(q[d], "none", copy[d].state, "running", d \in shutdown.left)
  BY <1>1, TrackerCancelled
<1>6. q \in [Copy -> Seq(Task)]
  BY <1>5
<1>7. /\ c \in interrupted => c \in interrupted'
      /\ c \notin interrupted' => Len(q[c]) = Len(io[c]) /\ pending[c].op \notin {"timer", "snapshot"}
  <2>1. c \notin interrupted' => ~(Len(q[c]) < Len(io[c])) /\ pending[c].op \notin {"timer", "snapshot"} /\ c \notin interrupted
    BY DEF onFinalBeforeShutdown
  <2>2. Len(q[c]) \in Nat /\ Len(io[c]) \in Nat /\ Cut(q[c], io[c], "tracker")
    BY <1>5, BaseOf, QueueElements
  <2>3. Len(q[c]) = Len(io[c]) \/ Len(q[c]) = Len(io[c]) - 1
    BY <2>2 DEF Cut
  <2> QED BY <2>1, <2>2, <2>3
<1>8. c \in m => copy[c].modified /\ copy[c].state = "open"
  BY BaseOf DEF modifiedWorkingCopies
<1>9. m = {} => ~copy[c].modified
  BY DEF modifiedWorkingCopies
<1> HIDE DEF q, m, sh, discards
<1>10. CASE handleModifiedBeforeShutdown(sh, m, q)
  <2>1. \A d \in Copy : copy[d].state = "open" => \A i \in 1..Len(q[d]) : q[d][i].by # "open"
    BY <1>5 DEF Owned
  <2> QED BY <1>1, <1>4, <1>5, <1>6, <1>7, <1>10, <2>1, HandleFollow DEF m
<1>11. CASE ~handleModifiedBeforeShutdown(sh, m, q)
  <2> DEFINE p == q[c]
  <2>1. p \in Seq(Task) /\ Cut(p, io[c], "tracker") /\ Line(p, cache[c])
    BY <1>5
  <2>2. /\ shutdown'.phase \in {"autosave", "decided", "wipe", "discard"}
        /\ shutdown'.phase = "autosave" => shutdown'.list = m
    <3>1. Decide(FALSE) => shutdown'.phase = "decided"
      BY DecideEffect
    <3> QED BY <1>2, <1>4, <1>11, <3>1 DEF Shutdown
  <2>3. \/ io'[c] = p
        \/ /\ Added(io'[c], p, discardTask("shutdown")) /\ ~copy[c].modified /\ isReady
           /\ c \notin unrestored
    <3>1. Added(Queued(q[c], cache[c], discardTask("shutdown")), q[c], discardTask("shutdown"))
      BY <1>5, QueuedDiscard
    <3>2. except # {} /\ c \in discards => c \notin unrestored
      BY DEF discards
    <3> QED BY <1>2, <1>9, <1>11, <3>1, <3>2
  <2> HIDE DEF p
  <2>4. /\ ~Clear' /\ Alive' /\ (shutdown'.phase \in Undecided => shutdown'.phase = "autosave")
    BY <2>2 DEF Clear, Alive, Undecided
  <2>5. c \notin interrupted' => Len(p) = Len(io[c]) /\ pending[c].op \notin {"timer", "snapshot"}
    BY <1>7 DEF p
  <2>6. ASSUME Followed(c)' PROVE Followable(c)'
    <3>1. Followable(c) /\ c \notin interrupted'
      BY <1>1, <1>7, <2>6 DEF Followed, Follow
    <3> QED BY <1>1, <2>1, <2>3, <2>4, <2>5, <3>1, FollowedStep
  <2>7. ASSUME Unopened(c)' PROVE Openable(c)'
    <3>1. Openable(c) /\ c \notin interrupted' /\ c \notin m
      BY <1>1, <1>7, <1>8, <2>7 DEF Unopened, Follow
    <3>2. Restorable(c) /\ Whole(c) => (isReady => c \in unrestored)
      BY DEF Restorable
    <3> QED BY <1>1, <2>1, <2>2, <2>3, <2>4, <2>5, <3>1, <3>2, UnopenedStep
  <2> QED BY <2>6, <2>7 DEF Follow
<1> QED BY <1>10, <1>11

\* A window that begins, with no copy open, and what it finds.
LEMMA ListedFollow ==
  ASSUME NEW c \in Copy, copy[c].state = "closed", io[c] = <<>>, shutdown = NoShutdown, ~isReady,
         cache[c] = IF backupFile[c].state = "none" THEN NoEntry ELSE [known |-> TRUE, version |-> 0, meta |-> Unknown]
  PROVE  Follow(c)
<1>1. ~Followed(c)
  BY DEF Followed
<1>2. shutdown.phase = "running" /\ Len(io[c]) = 0 /\ 1..Len(io[c]) = {}
  BY DEF NoShutdown
<1>3. Deleted(io[c])
  BY <1>2 DEF Deleted
<1>4. Restorable(c)
  BY <1>2 DEF Restorable, Whole, Clear, Undecided, NoEntry
<1> QED BY <1>1, <1>3, <1>4 DEF Follow, Openable

LEMMA FollowInit ==
  ASSUME Init, NEW c \in Copy
  PROVE  Follow(c)
<1>1. backupFile \in [Copy -> BackupFile]
  BY BaseInit DEF Base, Typed, FileOK
<1>2. cache[c] = IF backupFile[c].state = "none" THEN NoEntry ELSE [known |-> TRUE, version |-> 0, meta |-> Unknown]
  BY <1>1, ListedType DEF Init
<1>3. copy[c].state = "closed" /\ io[c] = <<>> /\ shutdown = NoShutdown /\ ~isReady
  BY DEF Init, Closed
<1> QED BY <1>2, <1>3, ListedFollow

LEMMA RestartFollow ==
  ASSUME Base, NEW c \in Copy, restart
  PROVE  Follow(c)'
<1>1. backupFile \in [Copy -> BackupFile]
  BY BaseOf
<1>2. cache'[c] = IF backupFile[c].state = "none" THEN NoEntry ELSE [known |-> TRUE, version |-> 0, meta |-> Unknown]
  BY <1>1, ListedType DEF restart
<1>3. copy'[c].state = "closed" /\ io'[c] = <<>> /\ shutdown' = NoShutdown /\ ~isReady' /\ backupFile' = backupFile
  BY DEF restart, Closed
<1>4. ~Followed(c)'
  BY <1>3 DEF Followed
<1>5. shutdown'.phase = "running" /\ Len(io'[c]) = 0 /\ 1..Len(io'[c]) = {}
  BY <1>3 DEF NoShutdown
<1>6. Deleted(io'[c])
  BY <1>5 DEF Deleted
<1>7. Restorable(c)'
  BY <1>2, <1>3, <1>5 DEF Restorable, Whole, Clear, Undecided, NoEntry
<1> QED BY <1>4, <1>6, <1>7 DEF Follow, Openable

LEMMA WindowFollow ==
  ASSUME Base, Base', NEW c \in Copy, Trust(c), Follow(c), Windowed
  PROVE  Follow(c)'
BY DecideFollow, WipeFollow, ForgetFollow, RestorableFollow, ModifiedFollow, ImpatientFollow, WillShutdownFollow,
   BeforeShutdownFollow, RestartFollow DEF Windowed, Restoring, Dialog

LEMMA UntouchedFollow ==
  ASSUME NEW c \in Copy, Follow(c), Untouched(c), SameWindow
  PROVE  Follow(c)'
<1>1. /\ Alive' <=> Alive
      /\ Deciding' <=> Deciding
      /\ Clear' <=> Clear
      /\ Whole(c)' <=> Whole(c)
      /\ Superseded(c)' <=> Superseded(c)
  BY DEF Untouched, SameWindow, Alive, Deciding, Clear, Whole, Superseded
<1>2. Followed(c) /\ Followable(c) => Followable(c)'
  <2>1. Sound(io[c], cache[c], copy[c], backupFile[c], Clear) => Sound(io[c], cache[c], copy[c], backupFile[c], Clear')
    BY <1>1 DEF Sound
  <2>2. UpToDate(io[c], cache[c], copy[c], backupFile[c], pending[c].op, Deciding) =>
        UpToDate(io[c], cache[c], copy[c], backupFile[c], pending[c].op, Deciding')
    BY <1>1 DEF UpToDate
  <2> QED BY <1>1, <2>1, <2>2 DEF Untouched, Followable
<1>3. Followed(c)' <=> Followed(c)
  BY <1>1 DEF Followed, Untouched
<1>4. Openable(c) => Openable(c)'
  BY <1>1 DEF Openable, Restorable, Untouched, SameWindow
<1>5. Unopened(c)' <=> Unopened(c)
  BY <1>1 DEF Unopened, Untouched
<1> QED BY <1>2, <1>3, <1>4, <1>5 DEF Follow

-----------------------------------------------------------------------------
(* Steps of one copy that the tracker follows *)

\* Without a shutdown's backup there is none to repeat.
LEMMA NothingRepeated ==
  ASSUME NEW q \in Seq(Task), NEW r \in Seq(Task), Fewer(r, q) \/ r = q,
         \A i \in 1..Len(q) : q[i].by = "shutdown" => q[i].kind = "discard", NEW k
  PROVE  /\ \A i \in 1..Len(r) : r[i].by = "shutdown" => r[i].kind = "discard"
         /\ Repeated(r, k)
<1>1. \A i \in 1..Len(r) : r[i].by = "shutdown" => r[i].kind = "discard"
  <2>1. CASE Fewer(r, q)
    <3>1. PICK h \in [1..Len(r) -> 1..Len(q)] :
            \A i \in 1..Len(r) : Kin(r[i], q[h[i]]) /\ r[i].by \in {q[h[i]].by, "nobody"}
      BY <2>1 DEF Fewer
    <3> QED BY <3>1 DEF Kin
  <2> QED BY <2>1
<1>2. \A i \in 2..Len(r) : i \in 1..Len(r)
  BY QueueElements
<1> QED BY <1>1, <1>2 DEF Repeated

\* A copy has changed, and the tracker begins to back it up or discards its backup.
\* What there was before is not the newest, or is still one of what the copy shows.
LEMMA ChangedFollow ==
  ASSUME Base, Base', NEW c \in Copy, IsOpen(c), NEW k \in WorkingCopy, k.state = "open",
         NEW dirty \in BOOLEAN, NEW content \in BOOLEAN, Changed(c, k, dirty, content),
         k.modified => dirty \/ content, ~k.modified => dirty,
         UNCHANGED <<cache, backupFile, reused>>, shutdown'.phase = shutdown.phase,
         Followed(c) => \/ NoLatest(io[c], copy'[c]) /\ ~Held(cache[c], copy'[c])
                        \/ k.modified /\ (~Clear => Sound(io[c], cache[c], copy'[c], backupFile[c], Clear))
  PROVE  Follow(c)'
<1> DEFINE q == io[c]
           r == io'[c]
           l == copy'[c]
           e == cache[c]
           b == backupFile[c]
           p == Cancelled(io[c], "tracker")
           d == discardTask("tracker")
<1>1. /\ q \in Seq(Task) /\ Owned(q, pending[c].op, copy[c].state, shutdown.phase, c \in shutdown.left)
      /\ r \in Seq(Task)
  BY BaseOf DEF Base, Queues
<1>2. l.state = "open" /\ l.modified = k.modified
  <2>1. l = [k EXCEPT !.version = IF content THEN @ + 1 ELSE @]
    BY ChangedEffect
  <2> QED BY <2>1 DEF WorkingCopy
<1>3. ~Unopened(c)'
  BY <1>2 DEF Unopened
<1>4. SUFFICES ASSUME Followed(c)' PROVE Followable(c)'
  BY <1>3 DEF Follow
<1>5. ~suspended /\ Followed(c)
  BY <1>4 DEF Followed, Changed, IsOpen
<1>6. ~Clear /\ ~Clear' /\ \A i \in 1..Len(q) : q[i].by = "shutdown" => q[i].kind = "discard"
  <2>1. shutdown.phase \in {"running", "decided"}
    BY <1>5 DEF Base, Suspension, IsOpen
  <2> QED BY <1>1, <2>1 DEF Owned, Clear
<1>7. \/ NoLatest(q, l) /\ ~Held(e, l)
      \/ l.modified /\ Sound(q, e, l, b, Clear)
  BY <1>2, <1>5, <1>6
<1>8. CASE k.modified
  <2>1. scheduleBackup(c)
    BY <1>5, <1>8 DEF Changed
  <2>2. pending'[c].op = "timer" /\ Fewer(r, q) /\ Cut(r, q, "tracker")
    <3>1. pending'[c] = [Idle EXCEPT !.op = "timer"] /\ Fewer(r, q) /\ Cut(r, q, "tracker")
      BY <2>1, ScheduleEffect
    <3> QED BY <3>1 DEF Idle
  <2> HIDE DEF q, r, l, e, b
  <2>3. SameHead(r, q)
    BY <1>1, <2>2, HeadsKept
  <2>4. Sound(r, e, l, b, Clear')
    <3>1. Sound(r, e, l, b, Clear)
      <4>1. CASE NoLatest(q, l) /\ ~Held(e, l)
        BY <1>1, <2>2, <4>1, FewerNoLatest, SupersededSound
      <4>2. CASE Sound(q, e, l, b, Clear)
        BY <1>1, <2>2, <2>3, <4>2, FewerSound
      <4> QED BY <1>7, <4>1, <4>2
    <3> QED BY <1>6, <3>1 DEF Sound
  <2>5. UpToDate(r, e, l, b, pending'[c].op, Deciding')
    BY <1>2, <1>8, <2>2 DEF UpToDate
  <2>6. Repeated(r, l)
    BY <1>1, <1>6, <2>2, NothingRepeated
  <2> QED BY <2>4, <2>5, <2>6 DEF Followable, r, l, e, b
<1>9. CASE ~k.modified
  <2>1. discardBackup(c)
    BY <1>5, <1>9 DEF Changed
  <2>2. Added(r, p, d) /\ p \in Seq(Task) /\ Fewer(p, q) /\ d.kind = "discard" /\ d.by = "tracker"
    <3>1. Added(r, p, d) /\ Line(p, cache[c]) /\ Fewer(p, q)
      BY <2>1, DiscardEffect
    <3> QED BY <3>1 DEF Line, discardTask
  <2> HIDE DEF q, r, l, e, b, p, d
  <2>3. NoLatest(q, l) /\ ~Held(e, l)
    BY <1>2, <1>7, <1>9
  <2>4. Sound(r, e, l, b, Clear')
    BY <1>1, <2>2, <2>3, FewerNoLatest, AddedNoLatest, SupersededSound
  <2>5. /\ Len(p) \in Nat /\ Len(r) = Len(p) + 1 /\ (\A i \in 1..Len(p) : r[i] = p[i])
        /\ r[Len(p) + 1].kind = "discard" /\ r # <<>> /\ Len(r) = Len(p) + 1
    <3>1. Len(p) \in Nat /\ (r # <<>> <=> Len(r) >= 1)
      BY <1>1, <2>2, QueueElements
    <3> QED BY <2>2, <3>1 DEF Added, Alike
  <2>6. UpToDate(r, e, l, b, pending'[c].op, Deciding')
    BY <1>2, <1>9, <2>5 DEF UpToDate
  <2>7. Repeated(r, l)
    <3>1. \A i \in 1..Len(p) : p[i].by = "shutdown" => p[i].kind = "discard"
      BY <1>1, <1>6, <2>2, NothingRepeated
    <3>2. \A i \in 1..Len(r) : i \in 1..Len(p) \/ i = Len(p) + 1
      BY <2>5
    <3>3. \A i \in 1..Len(r) : r[i].by = "shutdown" => r[i].kind = "discard"
      BY <2>5, <3>1, <3>2
    <3> QED BY <1>1, <3>3, NothingRepeated
  <2> QED BY <2>4, <2>6, <2>7 DEF Followable, r, l, e, b
<1> QED BY <1>8, <1>9

\* A copy with a new version, or a newer mtime, has no newest backup yet.
LEMMA NothingNewest ==
  ASSUME Base, NEW c \in Copy, Trust(c), Followed(c), NEW l,
         \/ l.version = copy[c].version + 1
         \/ l.stat = disk[c].mtime + 1
  PROVE  NoLatest(io[c], l) /\ ~Held(cache[c], l)
<1> DEFINE q == io[c]
           e == cache[c]
           k == copy[c]
<1>1. /\ k \in WorkingCopy /\ e \in Entry /\ disk[c].mtime \in Nat /\ k.version \in Nat
      /\ \A i \in 1..Len(q) : q[i] \in Task
  BY BaseOf, QueueElements DEF WorkingCopy
<1>2. CASE l.version = k.version + 1
  <2>1. Ordered(q, e, k, Stored(c))
    BY DEF Trust, InOrder, Followed
  <2>2. (e.known => e.version <= k.version) /\ \A i \in 1..Len(q) : q[i].kind = "backup" => q[i].version <= k.version
    <3>1. e.version \in Nat /\ \A i \in 1..Len(q) : q[i].version \in Nat
      BY <1>1 DEF Entry, Task
    <3>2. k.version \in Nat
      BY <1>1
    <3> HIDE DEF q, e, k
    <3>3. e.known => e.version <= k.version
      <4>1. e.known => NoLater(e.version, e.meta, k.version, k.stat)
        BY <2>1 DEF Ordered
      <4> QED BY <3>1, <3>2, <4>1 DEF NoLater
    <3>4. ASSUME NEW i \in 1..Len(q), q[i].kind = "backup"
          PROVE  q[i].version <= k.version
      <4>1. NoLater(q[i].version, q[i].meta, k.version, k.stat)
        BY <2>1, <3>4 DEF Ordered
      <4> QED BY <3>1, <3>2, <4>1 DEF NoLater
    <3> QED BY <3>3, <3>4
  <2> QED BY <1>1, <1>2, <2>2 DEF NoLatest, Held, Latest, Newest
<1>3. CASE l.stat = disk[c].mtime + 1
  <2>1. e.meta <= disk[c].mtime /\ \A i \in 1..Len(q) : q[i].meta \in 0..disk[c].mtime
    BY DEF Trust, Bounded, InBounds
  <2>2. e.meta \in Int
    BY <1>1, Numbers DEF Entry
  <2>3. e.meta # l.stat /\ \A i \in 1..Len(q) : q[i].meta # l.stat
    BY <1>1, <1>3, <2>1, <2>2
  <2> QED BY <2>3 DEF NoLatest, Held, Latest, Newest
<1> QED BY <1>2, <1>3

LEMMA EditingFollow ==
  ASSUME Base, Base', NEW c \in Copy, Trust(c), Follow(c), edit(c) \/ undo(c) \/ saveFails(c) \/ reverted(c)
  PROVE  Follow(c)'
<1>1. /\ copy[c] \in WorkingCopy /\ copy[c].modified \in BOOLEAN /\ disk[c] \in [content : Content, mtime : Nat]
      /\ disk[c].mtime \in Nat /\ disk[c].mtime \in Meta
  BY BaseOf, Numbers DEF WorkingCopy
<1>2. IsOpen(c) /\ copy[c].state = "open" /\ UNCHANGED <<cache, backupFile, reused, shutdown>>
  BY DEF edit, undo, saveFails, reverted, IsOpen
<1>3. ASSUME NEW k \in WorkingCopy, k.state = "open", k.version = copy[c].version, NEW dirty \in BOOLEAN,
             Changed(c, k, dirty, TRUE), ~k.modified => dirty
      PROVE  Follow(c)'
  <2> DEFINE content == TRUE
  <2>1. content \in BOOLEAN /\ Changed(c, k, dirty, content) /\ content /\ k.state = "open"
    BY <1>3
  <2>2. copy'[c].version = copy[c].version + 1
    <3> DEFINE l == [k EXCEPT !.version = @ + 1]
    <3>1. copy' = [copy EXCEPT ![c] = l] /\ copy \in [Copy -> WorkingCopy]
      BY <1>3, BaseOf DEF Changed
    <3>2. l.version = copy[c].version + 1
      BY <1>3 DEF WorkingCopy
    <3> HIDE DEF l
    <3> QED BY <3>1, <3>2
  <2> HIDE DEF content
  <2>3. Followed(c) => NoLatest(io[c], copy'[c]) /\ ~Held(cache[c], copy'[c])
    BY <2>2, NothingNewest
  <2> QED BY <1>2, <1>3, <2>1, <2>3, ChangedFollow
<1>4. ASSUME NEW k \in WorkingCopy, k.state = "open", k.version = copy[c].version, k.stat = copy[c].stat,
             k.content = copy[c].content, k.modified, ~Superseded(c), Changed(c, k, TRUE, FALSE)
      PROVE  Follow(c)'
  <2> DEFINE content == FALSE
             dirty == TRUE
             l == copy'[c]
  <2>1. content \in BOOLEAN /\ dirty \in BOOLEAN /\ Changed(c, k, dirty, content) /\ dirty
    BY <1>4
  <2>2. l.version = copy[c].version /\ l.stat = copy[c].stat /\ l.content = copy[c].content /\ l.modified
    <3>1. copy'[c] = [k EXCEPT !.version = @]
      BY <1>2, <1>4, ChangedEffect
    <3> QED BY <1>4, <3>1 DEF WorkingCopy
  <2> HIDE DEF content, dirty, l
  <2>3. Followed(c) => Sound(io[c], cache[c], copy[c], backupFile[c], Clear)
    BY <1>4 DEF Follow, Followable
  <2>4. (\A t : Latest(t, l) <=> Latest(t, copy[c])) /\ (Held(cache[c], l) <=> Held(cache[c], copy[c]))
    BY <2>2 DEF Latest, Held, Newest
  <2>5. Followed(c) /\ ~Clear => Sound(io[c], cache[c], l, backupFile[c], Clear)
    BY <2>2, <2>3, <2>4 DEF Sound, Harmless, NoLatest
  <2> QED BY <1>2, <1>4, <2>1, <2>5, ChangedFollow DEF l
<1>5. CASE edit(c)
  <2> DEFINE k == [copy[c] EXCEPT !.content = spent["changes"] + 2, !.modified = TRUE]
             dirty == ~copy[c].modified
  <2>0. spent["changes"] + 2 \in Content
    <3>1. spent \in [Kind -> Nat] /\ spent["changes"] < MaxChanges
      BY <1>5 DEF edit, Spend, Base, Typed, GhostsOK
    <3>2. spent["changes"] \in Nat
      BY <3>1 DEF Kind
    <3> QED BY <3>1, <3>2, Numbers
  <2>1. k \in WorkingCopy /\ k.modified /\ k.version = copy[c].version /\ k.state = "open"
    BY <1>1, <1>2, <2>0 DEF WorkingCopy
  <2>2. Changed(c, k, dirty, TRUE) /\ dirty \in BOOLEAN
    BY <1>5 DEF edit
  <2> HIDE DEF k, dirty
  <2> QED BY <1>3, <2>1, <2>2
<1>6. CASE undo(c)
  <2> DEFINE k == [copy[c] EXCEPT !.content = disk[c].content, !.modified = FALSE]
  <2>1. k \in WorkingCopy /\ k.version = copy[c].version /\ k.state = "open"
    BY <1>1, <1>2 DEF WorkingCopy
  <2>2. Changed(c, k, TRUE, TRUE)
    BY <1>6 DEF undo
  <2> HIDE DEF k
  <2> QED BY <1>3, <2>1, <2>2
<1>7. CASE reverted(c) /\ ~copy[c].modified
  <2> DEFINE k == [copy[c] EXCEPT !.reverting = FALSE, !.content = disk[c].content,
                                  !.stat = disk[c].mtime, !.undoable = TRUE]
  <2>1. k \in WorkingCopy /\ k.version = copy[c].version /\ k.state = "open"
    BY <1>1, <1>2 DEF WorkingCopy
  <2>2. Changed(c, k, TRUE, TRUE)
    BY <1>7 DEF reverted
  <2> HIDE DEF k
  <2> QED BY <1>3, <2>1, <2>2
<1>8. CASE reverted(c) /\ copy[c].modified
  <2> DEFINE k == [copy[c] EXCEPT !.reverting = FALSE]
  <2>1. /\ k \in WorkingCopy /\ k.modified /\ k.content = copy[c].content /\ k.version = copy[c].version
        /\ k.stat = copy[c].stat /\ k.state = "open" /\ ~Superseded(c)
    BY <1>1, <1>2, <1>8 DEF WorkingCopy, Superseded
  <2>2. Changed(c, k, TRUE, FALSE)
    BY <1>8 DEF reverted
  <2> HIDE DEF k
  <2> QED BY <1>4, <2>1, <2>2
<1>9. CASE saveFails(c)
  <2> DEFINE k == [copy[c] EXCEPT !.modified = TRUE]
             dirty == TRUE
             content == FALSE
             l == copy'[c]
  <2>1. /\ k \in WorkingCopy /\ k.modified /\ k.content = copy[c].content /\ k.version = copy[c].version
        /\ k.stat = copy[c].stat /\ k.state = "open"
    BY <1>1, <1>2 DEF WorkingCopy
  <2>2. Changed(c, k, dirty, content) /\ ~copy[c].modified /\ ~copy[c].reverting
    BY <1>9 DEF saveFails
  <2> HIDE DEF k
  <2>3. l.version = copy[c].version /\ l.stat = copy[c].stat
    <3>1. copy'[c] = [k EXCEPT !.version = @]
      BY <1>2, <2>1, <2>2, ChangedEffect
    <3> QED BY <2>1, <3>1 DEF WorkingCopy
  <2>4. content \in BOOLEAN /\ dirty \in BOOLEAN /\ dirty
    OBVIOUS
  <2> HIDE DEF dirty, content, l
  <2>5. Followed(c) /\ ~Clear => NoLatest(io[c], l) /\ ~Held(cache[c], l)
    BY <2>2, <2>3 DEF Follow, Followable, Superseded, Sound, NoLatest, Latest, Newest, Held
  <2>6. Followed(c) /\ ~Clear => Sound(io[c], cache[c], l, backupFile[c], Clear)
    BY <2>5, BaseOf, SupersededSound
  <2> QED BY <1>2, <2>1, <2>2, <2>4, <2>6, ChangedFollow DEF l
<1> QED BY <1>5, <1>6, <1>7, <1>8, <1>9

LEMMA SavingFollow ==
  ASSUME Base, Base', NEW c \in Copy, Trust(c), Follow(c), save(c) \/ savedBeforeShutdown(c)
  PROVE  Follow(c)'
<1> DEFINE k == [copy[c] EXCEPT !.modified = FALSE, !.stat = disk[c].mtime + 1, !.undoable = TRUE]
           dirty == TRUE
           content == FALSE
<1>1. /\ copy[c] \in WorkingCopy /\ shutdown \in Shutdown /\ disk[c].mtime \in Nat
      /\ copy[c].state # "open" => ~copy[c].modified
  BY BaseOf
<1>2. /\ Saved(c) /\ copy[c].modified /\ shutdown'.phase = shutdown.phase /\ Alive
      /\ UNCHANGED <<cache, backupFile, reused>>
  BY <1>1 DEF save, savedBeforeShutdown, IsOpen, Shutdown, Saving, Alive
<1>3. copy[c].state = "open" /\ IsOpen(c) /\ Changed(c, k, dirty, content)
  BY <1>1, <1>2 DEF IsOpen, Saved
<1>4. k \in WorkingCopy /\ k.state = "open" /\ k.stat = disk[c].mtime + 1 /\ ~k.modified
  <2>1. disk[c].mtime + 1 \in Meta
    BY <1>1, Numbers
  <2> QED BY <1>1, <1>3, <2>1 DEF WorkingCopy
<1> HIDE DEF k
<1>5. copy'[c].stat = disk[c].mtime + 1
  <2>1. copy'[c] = [k EXCEPT !.version = @]
    BY <1>3, <1>4, ChangedEffect
  <2> QED BY <1>4, <2>1 DEF WorkingCopy
<1>6. content \in BOOLEAN /\ dirty \in BOOLEAN /\ dirty
  OBVIOUS
<1> HIDE DEF dirty, content
<1>7. Followed(c) => NoLatest(io[c], copy'[c]) /\ ~Held(cache[c], copy'[c])
  BY <1>5, NothingNewest
<1> QED BY <1>2, <1>3, <1>4, <1>6, <1>7, ChangedFollow

LEMMA RevertingFollow ==
  ASSUME Base, Base', NEW c \in Copy, Follow(c), revert(c) \/ revertFails(c) \/ ioFails(c) \/ notSavedBeforeShutdown(c)
  PROVE  Follow(c)'
<1>1. copy[c] \in WorkingCopy /\ copy \in [Copy -> WorkingCopy] /\ shutdown \in Shutdown
  BY BaseOf
<1>2. CASE revert(c)
  <2>1. copy'[c].state = "open" /\ copy'[c].reverting /\ ~copy'[c].modified
    BY <1>1, <1>2 DEF revert, IsOpen, WorkingCopy
  <2> QED BY <2>1 DEF Follow, Unopened, Followable, Superseded
<1>3. CASE revertFails(c) \/ ioFails(c)
  BY <1>3 DEF revertFails, ioFails, Follow, Followed, Unopened
<1>4. CASE notSavedBeforeShutdown(c)
  <2>1. /\ shutdown'.phase = shutdown.phase /\ shutdown'.list = shutdown.list
        /\ UNCHANGED <<copy, cache, backupFile, io, pending, reused, interrupted, isReady, unrestored>>
    BY <1>1, <1>4 DEF notSavedBeforeShutdown, Shutdown, tracker, service
  <2>2. Restorable(c) /\ Whole(c) => /\ ~Clear
                                     /\ isReady => c \in unrestored
                                     /\ shutdown.phase \in Undecided => c \notin shutdown.list
    BY DEF Restorable
  <2> QED BY <2>1, <2>2, SameFollow DEF Alive, Deciding, Clear
<1> QED BY <1>2, <1>3, <1>4

LEMMA TimerFollow ==
  ASSUME Base, Base', NEW c \in Copy, Follow(c), timer(c)
  PROVE  Follow(c)'
<1>1. /\ pending[c].op = "timer" /\ (copy[c].modified => pending'[c].op = "snapshot")
      /\ UNCHANGED <<copy, cache, backupFile, io, reused, interrupted, shutdown>>
  BY BaseOf DEF timer, service, ghosts
<1>2. copy[c].state = "open"
  BY <1>1, BaseOf
<1>3. SUFFICES ASSUME Followed(c)' PROVE Followable(c)'
  BY <1>1, <1>2 DEF Follow, Unopened
<1>4. Followable(c)
  BY <1>1, <1>3 DEF Followed, Alive, Follow
<1>5. ~copy[c].reverting => UpToDate(io[c], cache[c], copy[c], backupFile[c], pending'[c].op, Deciding)
  BY <1>1, <1>4 DEF Followable, UpToDate
<1> QED BY <1>1, <1>4, <1>5 DEF Followable, Superseded, Clear, Deciding

\* What stands last behind the newest entry is the newest backup itself.
LEMMA NewestLast ==
  ASSUME NEW q \in Seq(Task), q # <<>>, NEW e \in Entry, NEW k \in WorkingCopy, NEW stored, Ordered(q, e, k, stored),
         Harmless(q, e, k), Held(e, k), NEW i \in 1..Len(q), q[i].kind # "resolve"
  PROVE  Latest(q[i], k)
<1>1. q[i] \in Task /\ q[i].version \in Nat /\ q[i].meta \in Int /\ e.version \in Nat /\ e.meta \in Int
      /\ k.version \in Nat /\ k.stat \in Int
  BY QueueElements, Numbers DEF Task, Entry, WorkingCopy
<1>2. q[i].kind = "backup"
  <2>1. q[i].kind # "discard"
    BY DEF Harmless
  <2> QED BY <1>1, <2>1 DEF Task
<1>3. /\ NoLater(q[i].version, q[i].meta, k.version, k.stat) /\ NoLater(e.version, e.meta, q[i].version, q[i].meta)
      /\ e.version = k.version /\ e.meta = k.stat
  BY <1>2 DEF Ordered, Held, Newest
<1> QED BY <1>1, <1>2, <1>3 DEF NoLater, Latest, Newest

LEMMA SnapshotFollow ==
  ASSUME Base, Base', NEW c \in Copy, Trust(c), Follow(c), snapshotTaken(c)
  PROVE  Follow(c)'
<1> DEFINE q == io[c]
           r == io'[c]
           e == cache[c]
           k == copy[c]
           b == backupFile[c]
           op == pending'[c].op
           t == backupTask(k.content, k.version, k.stat, "tracker")
<1>1. /\ k \in WorkingCopy /\ e \in Entry /\ pending \in [Copy -> Operation] /\ pending[c] \in Operation
      /\ io \in [Copy -> Seq(Task)] /\ q \in Seq(Task) /\ r \in Seq(Task) /\ Line(q, e)
      /\ Owned(q, pending[c].op, k.state, shutdown.phase, c \in shutdown.left)
      /\ k.state # "open" => pending[c].op \in {"none", "discard"}
  BY BaseOf DEF Base, Queues
<1>2. /\ Alive /\ pending[c].op = "snapshot"
      /\ pending[c].content = k.content /\ pending[c].meta = k.stat
      /\ UNCHANGED <<copy, disk, cache, backupFile, reused, interrupted, shutdown>>
  BY DEF snapshotTaken, Trust, Bounded, ghosts
<1>3. k.state = "open" /\ shutdown.phase \in {"running", "decided"} /\ ~Clear
  BY <1>1, <1>2 DEF Base, Suspension, Clear
<1>4. SUFFICES ASSUME Followed(c)' PROVE Followable(c)'
  BY <1>2, <1>3 DEF Follow, Unopened
<1>5. Followable(c) /\ Ordered(q, e, k, Stored(c))
  BY <1>2, <1>4 DEF Followed, Alive, Follow, Trust, InOrder
<1>6. \A i \in 1..Len(q) : /\ q[i].by = "shutdown" => q[i].kind = "discard"
                           /\ q[i].by # "tracker" /\ q[i].kind # "resolve"
  <2>1. \A i \in 1..Len(q) : q[i].kind # "snapshot"
    BY <1>1, QueueElements DEF Task
  <2>2. \A i \in 1..Len(q) : q[i].by = "open" <=> q[i].kind = "resolve"
    BY <1>1 DEF Line
  <2> QED BY <1>1, <1>2, <1>3, <2>1, <2>2 DEF Owned
<1>7. SUFFICES /\ ~Superseded(c) => Sound(r, e, k, b, Clear)
               /\ ~k.reverting => UpToDate(r, e, k, b, op, Deciding) /\ Repeated(r, k)
  BY <1>2 DEF Followable, Superseded, Clear, Deciding
<1>8. CASE k.modified /\ Needed(t, e)
  <2>1. r = Queued(q, e, t)
    BY <1>1, <1>2, <1>8 DEF snapshotTaken
  <2>2. Added(r, q, t)
    <3>1. ~has(e, k.version, k.stat)
      BY <1>8 DEF Needed, backupTask
    <3>2. k.content \in Content /\ k.version \in Nat /\ k.stat \in Meta
      BY <1>1 DEF WorkingCopy
    <3> QED BY <1>1, <1>6, <2>1, <3>1, <3>2, QueuedBackup
  <2>3. Latest(t, k) /\ t.by = "tracker" /\ t.kind = "backup"
    BY DEF Latest, Newest, backupTask
  <2>4. Sound(q, e, k, b, Clear)
    BY <1>5, <1>8 DEF Followable, Superseded
  <2> HIDE DEF q, r, e, k, b, op, t
  <2>5. Sound(r, e, k, b, Clear)
    <3> DEFINE clear == Clear
    <3>1. Sound(q, e, k, b, clear)
      BY <2>4
    <3> HIDE DEF clear
    <3>2. Sound(r, e, k, b, clear)
      BY <1>1, <1>8, <2>2, <2>3, <3>1, AddedSound
    <3> QED BY <3>2 DEF clear
  <2>6. /\ Len(q) \in Nat /\ Len(r) = Len(q) + 1 /\ r # <<>> /\ (\A i \in 1..Len(q) : r[i] = q[i])
        /\ Alike(r[Len(q) + 1], t)
    <3>1. Len(q) \in Nat /\ (r # <<>> <=> Len(r) >= 1)
      BY <1>1, QueueElements
    <3> QED BY <2>2, <3>1 DEF Added
  <2>7. UpToDate(r, e, k, b, op, Deciding)
    BY <1>8, <2>3, <2>6 DEF UpToDate, Alike, Latest, Newest
  <2>8. Repeated(r, k)
    <3>1. \A i \in 1..Len(r) : i \in 1..Len(q) \/ i = Len(q) + 1
      BY <2>6
    <3>2. \A i \in 1..Len(r) : r[i].by = "shutdown" => r[i].kind = "discard"
      BY <1>6, <2>3, <2>6, <3>1 DEF Alike
    <3> QED BY <1>1, <3>2, NothingRepeated
  <2> QED BY <2>5, <2>7, <2>8
<1>9. CASE ~(k.modified /\ Needed(t, e))
  <2>1. r = q
    BY <1>1, <1>2, <1>9 DEF snapshotTaken
  <2>2. CASE ~k.modified
    BY <1>5, <2>1, <2>2 DEF Followable, UpToDate
  <2>3. CASE k.modified /\ ~Needed(t, e)
    <3>1. Held(e, k)
      BY <2>3 DEF Needed, backupTask, has, Held, Newest
    <3>2. Sound(q, e, k, b, Clear)
      BY <1>5, <2>3 DEF Followable, Superseded
    <3>3. b.state = "whole" /\ b.content = k.content /\ Current(e, k) /\ Harmless(q, e, k)
      BY <1>3, <3>1, <3>2 DEF Sound, Current, Held, Newest
    <3>4. q # <<>> => Latest(q[Len(q)], k)
      <4>1. q # <<>> => Len(q) \in 1..Len(q)
        BY <1>1, QueueElements
      <4> HIDE DEF q, e, k
      <4> QED BY <1>1, <1>5, <1>6, <3>1, <3>3, <4>1, NewestLast
    <3>5. UpToDate(q, e, k, b, op, Deciding)
      BY <2>3, <3>3, <3>4 DEF UpToDate
    <3> QED BY <1>5, <2>1, <3>2, <3>5 DEF Followable
  <2> QED BY <1>9, <2>2, <2>3
<1> QED BY <1>8, <1>9

LEMMA ClosingFollow ==
  ASSUME Base, Base', NEW c \in Copy, Follow(c), close(c) \/ open(c)
  PROVE  Follow(c)'
<1> DEFINE q == io[c]
           r == io'[c]
           p == Cancelled(io[c], "tracker")
           d == discardTask("tracker")
<1>1. /\ copy \in [Copy -> WorkingCopy] /\ copy[c] \in WorkingCopy /\ io \in [Copy -> Seq(Task)]
      /\ q \in Seq(Task) /\ Line(q, cache[c])
      /\ Owned(q, pending[c].op, copy[c].state, shutdown.phase, c \in shutdown.left)
      /\ r \in Seq(Task) /\ Line(r, cache'[c]) /\ Owned(r, pending'[c].op, copy'[c].state, shutdown'.phase, c \in shutdown'.left)
  BY BaseOf DEF Base, Queues, Owners
<1>2. UNCHANGED <<cache, backupFile, shutdown, isReady, unrestored>>
  BY DEF close, open, tracker, ghosts
<1>3. CASE close(c)
  <2>1. copy'[c].state = "closed"
    BY <1>1, <1>3 DEF close, Closed
  <2>2. SUFFICES ASSUME Unopened(c)' PROVE Openable(c)'
    BY <2>1 DEF Follow, Followed
  <2>3. discardBackup(c)
    BY <1>3, <2>2 DEF close, Unopened
  <2>4. Added(r, p, d) /\ p \in Seq(Task) /\ d.kind = "discard" /\ d.by = "tracker"
    <3>1. Added(r, p, d) /\ Line(p, cache[c])
      BY <2>3, DiscardEffect
    <3> QED BY <3>1 DEF Line, discardTask
  <2> HIDE DEF q, r, p, d
  <2>5. /\ Len(p) \in Nat /\ Len(r) = Len(p) + 1 /\ r # <<>> /\ 1 \in 1..Len(r)
        /\ r[Len(p) + 1].kind = "discard" /\ r[Len(p) + 1].by = "tracker"
    <3>1. Len(p) \in Nat /\ (r # <<>> <=> Len(r) >= 1)
      BY <1>1, <2>4, QueueElements
    <3> QED BY <2>4, <3>1 DEF Added, Alike
  <2>6. Deleted(r)
    <3> SUFFICES ASSUME NEW i \in 1..Len(r), r[i].kind = "backup"
                 PROVE  \E j \in 1..Len(r) : i < j /\ r[j].kind = "discard" /\ r[j].by = "tracker"
      BY DEF Deleted
    <3>1. Len(p) + 1 \in 1..Len(r) /\ i < Len(p) + 1
      BY <2>5
    <3> QED BY <2>5, <3>1
  <2>7. r[1].kind # "resolve"
    BY <1>1, <2>1, <2>5 DEF Line, Owned
  <2> QED BY <2>5, <2>6, <2>7 DEF Openable, r
<1>4. CASE open(c)
  <2>1. /\ copy[c].state = "closed" /\ copy'[c].state = "opening" /\ Alive
        /\ UNCHANGED interrupted /\ r = Queued(q, cache[c], resolveTask)
    BY <1>1, <1>4 DEF open, WorkingCopy, ghosts
  <2>2. SUFFICES ASSUME Unopened(c)' PROVE Openable(c)'
    BY <2>1 DEF Follow, Followed
  <2>3. Openable(c)
    BY <2>1, <2>2 DEF Follow, Unopened
  <2>4. Added(r, q, resolveTask) /\ \A i \in 1..Len(q) : q[i].kind # "resolve"
    <3>1. \A i \in 1..Len(q) : q[i].by # "open"
      BY <1>1, <2>1 DEF Owned
    <3>2. \A i \in 1..Len(q) : q[i].by = "open" <=> q[i].kind = "resolve"
      BY <1>1 DEF Line
    <3>3. Added(r, q, resolveTask)
      BY <1>1, <2>1, <3>1, QueuedResolve
    <3> QED BY <3>1, <3>2, <3>3
  <2>5. Deleted(r)
    <3>1. Deleted(q) /\ resolveTask.kind # "backup"
      BY <2>3 DEF Openable, resolveTask
    <3> HIDE DEF q, r
    <3> QED BY <1>1, <2>4, <3>1, AddedDeleted
  <2>6. ASSUME r = <<>> \/ r[1].kind = "resolve"
        PROVE  Restorable(c)'
    <3>1. /\ Len(q) \in Nat /\ Len(r) = Len(q) + 1 /\ (\A i \in 1..Len(q) : r[i] = q[i]) /\ r # <<>>
          /\ (q # <<>> <=> Len(q) >= 1) /\ r[Len(q) + 1].by = "open"
      <4>1. Len(q) \in Nat /\ (r # <<>> <=> Len(r) >= 1) /\ (q # <<>> <=> Len(q) >= 1)
        BY <1>1, QueueElements
      <4> QED BY <2>4, <4>1 DEF Added, Alike, resolveTask
    <3>2. q = <<>>
      <4>1. q # <<>> => 1 \in 1..Len(q)
        BY <3>1
      <4> QED BY <2>4, <2>6, <3>1, <4>1
    <3>3. Restorable(c)
      BY <2>3, <3>2 DEF Openable
    <3>4. \A i \in 1..Len(r) : r[i].by = "open"
      BY <3>1, <3>2
    <3> QED BY <1>2, <3>3, <3>4 DEF Restorable, Whole, Clear
  <2> QED BY <2>5, <2>6 DEF Openable
<1> QED BY <1>3, <1>4

LEMMA OpenedFollow ==
  ASSUME Base, Base', NEW c \in Copy, Trust(c), Follow(c), opened(c)
  PROVE  Follow(c)'
<1> DEFINE b == backupFile[c]
           e == cache'[c]
           k == copy'[c]
           q == io[c]
           r == io'[c]
<1>1. /\ copy \in [Copy -> WorkingCopy] /\ copy[c] \in WorkingCopy /\ q \in Seq(Task) /\ cache[c] \in Entry
      /\ cache \in [Copy -> Entry] /\ b \in BackupFile /\ r \in Seq(Task)
      /\ disk[c].mtime \in Nat /\ pending \in [Copy -> Operation]
      /\ Owned(r, pending'[c].op, copy'[c].state, shutdown'.phase, c \in shutdown'.left)
  BY BaseOf DEF Base, Queues, Owners
<1>2. /\ e = IF resolve(c) THEN [cache[c] EXCEPT !.meta = b.meta] ELSE cache[c]
      /\ k = [copy[c] EXCEPT !.state = "open", !.modified = resolve(c), !.undoable = ~resolve(c),
                     !.content = IF resolve(c) THEN b.content ELSE disk[c].content,
                     !.stat = IF resolve(c) THEN b.meta ELSE disk[c].mtime]
      /\ copy[c].state = "opening" /\ copy[c].version = 0 /\ ~copy[c].reverting
      /\ q # <<>> /\ q[1].kind = "resolve" /\ \E n \in 1..Len(q) : Advanced(r, q, n)
      /\ \A i \in 1..Len(r) : r[i].by = "shutdown" /\ r[i].kind = "discard"
      /\ r = <<>> \/ r[1].phase = "begun"
  <2> DEFINE f == IF resolve(c) THEN [cache[c] EXCEPT !.meta = backupFile[c].meta] ELSE cache[c]
             l == [copy[c] EXCEPT !.state = "open", !.modified = resolve(c), !.undoable = ~resolve(c),
                     !.content = IF resolve(c) THEN backupFile[c].content ELSE disk[c].content,
                     !.stat = IF resolve(c) THEN backupFile[c].meta ELSE disk[c].mtime]
  <2>1. /\ copy' = [copy EXCEPT ![c] = l] /\ cache' = [cache EXCEPT ![c] = f]
        /\ copy[c].state = "opening" /\ copy[c].version = 0 /\ ~copy[c].reverting
        /\ io[c] # <<>> /\ io[c][1].kind = "resolve" /\ \E n \in 1..Len(io[c]) : Advanced(io'[c], io[c], n)
        /\ \A i \in 1..Len(io'[c]) : io'[c][i].by = "shutdown" /\ io'[c][i].kind = "discard"
        /\ io'[c] = <<>> \/ io'[c][1].phase = "begun"
    BY OpenedEffect
  <2>2. cache'[c] = f /\ copy'[c] = l
    <3> HIDE DEF f, l
    <3> QED BY <1>1, <2>1
  <2> QED BY <2>1, <2>2
<1>3. /\ UNCHANGED <<backupFile, shutdown>> /\ Alive
      /\ resolve(c) /\ ~suspended => pending'[c].op = "timer"
      /\ c \notin interrupted' => IF resolve(c) THEN ~suspended /\ ~(Len(q) > 1) ELSE c \notin interrupted
      /\ e.known /\ e.version # 0 => c \in reused'
  <2>1. cache' = [cache EXCEPT ![c] = IF resolve(c) THEN [cache[c] EXCEPT !.meta = b.meta] ELSE cache[c]]
    BY DEF opened
  <2>2. reused' = IF e.known /\ e.version # 0 THEN reused \cup {c} ELSE reused
    BY <1>1, <2>1 DEF opened
  <2>3. UNCHANGED <<backupFile, shutdown>> /\ Alive
    BY DEF opened, Running
  <2>4. pending'[c] = IF resolve(c) /\ ~suspended THEN [Idle EXCEPT !.op = "timer"] ELSE pending[c]
    BY <1>1 DEF opened
  <2>5. resolve(c) /\ ~suspended => pending'[c].op = "timer"
    BY <2>4 DEF Idle
  <2>6. c \notin interrupted' => IF resolve(c) THEN ~suspended /\ ~(Len(q) > 1) ELSE c \notin interrupted
    BY DEF opened
  <2> QED BY <2>2, <2>3, <2>5, <2>6
<1>4. /\ e.known = cache[c].known /\ e.version = cache[c].version
      /\ ~resolve(c) => e.meta = cache[c].meta
  BY <1>1, <1>2 DEF Entry
<1>5. /\ k.state = "open" /\ k.version = 0 /\ k.modified = resolve(c) /\ ~k.reverting
      /\ resolve(c) => k.content = b.content
      /\ ~resolve(c) => k.stat = disk[c].mtime
  BY <1>1, <1>2 DEF WorkingCopy
<1>6. SUFFICES ASSUME Followed(c)' PROVE Followable(c)'
  BY <1>5 DEF Follow, Unopened
<1>7. ~resolve(c) => Restorable(c)
  BY <1>2, <1>3, <1>6 DEF Follow, Followed, Unopened, Openable
<1>8. SUFFICES /\ Sound(r, e, k, b, Clear)
               /\ UpToDate(r, e, k, b, pending'[c].op, Deciding')
               /\ Repeated(r, k)
  BY <1>3 DEF Followable, Clear
<1>9. Repeated(r, k)
  <2>1. \A i \in 2..Len(r) : i \in 1..Len(r)
    BY <1>1, QueueElements
  <2> QED BY <1>2, <2>1 DEF Repeated
<1>10. CASE resolve(c)
  <2>1. Whole(c) /\ b.state = "whole" /\ ~suspended
    BY <1>3, <1>6, <1>10 DEF resolve, Whole, Followed
  <2>2. r = <<>> /\ \A i \in 1..Len(r) : FALSE
    <3>1. ~(Len(q) > 1) /\ Len(q) \in Nat /\ Len(r) \in Nat /\ (r # <<>> => Len(r) >= 1)
      BY <1>1, <1>3, <1>6, <1>10, QueueElements DEF Followed
    <3>2. PICK n \in 1..Len(q) : Len(r) = Len(q) - n
      BY <1>2 DEF Advanced
    <3> QED BY <3>1, <3>2
  <2>3. Sound(r, e, k, b, Clear)
    BY <1>5, <1>10, <2>1, <2>2 DEF Sound, Harmless, NoLatest
  <2>4. UpToDate(r, e, k, b, pending'[c].op, Deciding')
    BY <1>3, <1>5, <1>10, <2>1 DEF UpToDate
  <2> QED BY <1>9, <2>3, <2>4
<1>11. CASE ~resolve(c)
  <2>1. ~Whole(c) /\ b.state # "whole"
    BY <1>7, <1>11 DEF Restorable, resolve, Whole
  <2>2. ~Clear => ~Held(e, k)
    <3>1. ~Clear /\ e.known => e.meta = Unknown
      BY <1>4, <1>7, <1>11, <2>1 DEF Restorable
    <3>2. k.stat \in Nat /\ k.stat # Unknown
      BY <1>1, <1>5, <1>11 DEF Unknown
    <3> QED BY <3>1, <3>2 DEF Held, Newest
  <2>3. \A i \in 1..Len(r) : ~Clear /\ r[i].kind = "discard" /\ ~Latest(r[i], k)
    <3>1. ~(shutdown'.phase = "gone")
      BY <1>3 DEF Alive
    <3>2. shutdown'.phase = shutdown.phase
      BY <1>3
    <3> QED BY <1>1, <1>2, <3>1, <3>2 DEF Owned, Clear, Latest
  <2>4. r # <<>> => 1 \in 1..Len(r) /\ Len(r) \in 1..Len(r)
    BY <1>1, QueueElements
  <2>5. Sound(r, e, k, b, Clear)
    BY <1>5, <1>11, <2>2, <2>3, <2>4 DEF Sound, Harmless, NoLatest
  <2>6. UpToDate(r, e, k, b, pending'[c].op, Deciding')
    BY <1>5, <1>11, <2>1, <2>3, <2>4 DEF UpToDate
  <2> QED BY <1>9, <2>5, <2>6
<1> QED BY <1>10, <1>11

\* A copy of which the backup could not be read is not followed; while the
\* tracker is suspended the backup is left for another editor.
LEMMA FailedReadFollow ==
  ASSUME Base, Base', NEW c \in Copy, Follow(c), resolveFails(c)
  PROVE  Follow(c)'
<1> DEFINE e == cache[c]
           x == Begun(Tail(io[c]), e)
           r == io'[c]
<1>1. /\ copy'[c] = Closed /\ UNCHANGED <<cache, backupFile, shutdown, isReady, unrestored>>
      /\ Running(c, "resolve", "begun")
      /\ (suspended /\ r = x /\ interrupted' = interrupted) \/ c \in interrupted'
  BY FailedEffect
<1>2. SUFFICES ASSUME Unopened(c)' PROVE Openable(c)'
  BY <1>1 DEF Follow, Followed, Closed
<1>3. r = x /\ interrupted' = interrupted
  BY <1>1, <1>2 DEF Unopened
<1> HIDE DEF e
<1>4. Running(c, "resolve", "begun")
  BY <1>1
<1>5. /\ Line(x, e) /\ Fewer(x, io[c]) /\ (x = <<>> \/ x[1].phase = "begun")
      /\ \A i \in 1..Len(x) : x[i].by = "shutdown" /\ x[i].kind = "discard"
      /\ \E n \in 1..Len(io[c]) : Advanced(x, io[c], n)
      /\ io[c] # <<>> /\ io[c][1].kind = "resolve"
      /\ \A i \in 2..Len(io[c]) : io[c][i].by = "shutdown" /\ io[c][i].kind = "discard"
      /\ copy[c].state = "opening" /\ copy[c].version = 0 /\ ~copy[c].reverting
  BY <1>4, ResolvedEffect
<1>6. io[c] \in Seq(Task) /\ r \in Seq(Task)
  BY BaseOf DEF Base, Queues
<1>7. Restorable(c)
  BY <1>2, <1>3, <1>4, <1>5 DEF Follow, Unopened, Openable, Running
<1> HIDE DEF x, r
<1>8. Deleted(r)
  BY <1>3, <1>5 DEF Deleted
<1>9. Whole(c) => \A i \in 1..Len(r) : r[i].by # "shutdown"
  <2> SUFFICES ASSUME Whole(c), NEW i \in 1..Len(r) PROVE FALSE
    OBVIOUS
  <2>1. PICK n \in 1..Len(io[c]) : Advanced(r, io[c], n)
    BY <1>3, <1>5
  <2>2. Len(io[c]) \in Nat /\ Len(r) \in Nat
    BY <1>6, QueueElements
  <2>3. n \in Nat /\ i \in Nat /\ i >= 1 /\ i <= Len(r)
    BY <2>2
  <2>4. Len(r) = Len(io[c]) - n /\ Alike(r[i], io[c][n + i])
    BY <2>1 DEF Advanced
  <2>5. n + i \in 1..Len(io[c])
    BY <2>2, <2>3, <2>4
  <2>6. r[i].by = io[c][n + i].by
    BY <2>4 DEF Alike
  <2> QED BY <1>3, <1>5, <1>7, <2>5, <2>6 DEF Restorable
<1>10. Restorable(c)'
  BY <1>1, <1>7, <1>9 DEF Restorable, Whole, Clear, r
<1> QED BY <1>8, <1>10 DEF Openable, r

LEMMA WritingFollow ==
  ASSUME Base, Base', NEW c \in Copy, Trust(c), Follow(c), truncate(c) \/ written(c) \/ deleted(c)
  PROVE  Follow(c)'
<1> DEFINE q == io[c]
           r == io'[c]
           e == cache[c]
           k == copy[c]
           b == backupFile[c]
           f == backupFile'[c]
           op == pending[c].op
<1>1. /\ q # <<>> /\ 1 \in 1..Len(q) /\ q \in Seq(Task) /\ \A i \in 1..Len(q) : q[i] \in Task
      /\ r # <<>> /\ Alike(r[1], q[1])
      /\ UNCHANGED <<copy, disk, pending, cache, shutdown, reused>>
      /\ truncate(c) => q[1].kind = "backup" /\ q[1].phase = "begun" /\ r[1].phase = "truncated"
      /\ written(c) => q[1].kind = "backup" /\ q[1].phase = "truncated" /\ r[1].phase = "done"
      /\ deleted(c) => q[1].kind = "discard" /\ r[1].phase = "done"
  BY WritingQueue
<1>2. UNCHANGED <<interrupted, isReady, unrestored>> /\ Alive
  BY DEF truncate, written, deleted, tracker, ghosts, Running
<1>3. /\ k \in WorkingCopy /\ e \in Entry /\ b \in BackupFile /\ backupFile \in [Copy -> BackupFile] /\ Line(q, e)
      /\ io \in [Copy -> Seq(Task)] /\ r \in Seq(Task)
  BY BaseOf DEF Base, Queues
<1>4. Len(q) \in Nat /\ Len(r) = Len(q) /\ \A i \in 1..Len(q) : Alike(r[i], q[i]) /\ (i # 1 => r[i] = q[i])
  <2>1. \E x \in {"truncated", "done"} : r = [q EXCEPT ![1].phase = x]
    BY <1>3 DEF truncate, written, deleted
  <2>2. PICK x \in {"truncated", "done"} : r = [q EXCEPT ![1].phase = x]
    BY <2>1
  <2>3. Len(q) \in Nat /\ q \in [1..Len(q) -> Task]
    BY <1>1, QueueElements
  <2> HIDE DEF q, r
  <2>4. Len(r) = Len(q) /\ \A i \in 1..Len(q) : i # 1 => r[i] = q[i]
    BY <1>1, <2>2, <2>3
  <2>5. \A i \in 1..Len(q) : Alike(r[i], q[i])
    BY <1>1, <2>4 DEF Alike
  <2> QED BY <2>3, <2>4, <2>5
<1>5. /\ truncate(c) => f.state = "torn"
      /\ written(c) => f = IF b.state = "torn"
                         THEN [state |-> "whole", content |-> q[1].content, meta |-> q[1].meta] ELSE b
      /\ deleted(c) => f.state = "none"
  <2>1. CASE truncate(c)
    BY <1>1, <1>3, <2>1 DEF truncate, NoBackup
  <2>2. CASE written(c)
    BY <1>1, <1>3, <2>2 DEF written
  <2>3. CASE deleted(c)
    BY <1>1, <1>3, <2>3 DEF deleted, NoBackup
  <2> QED BY <1>1, <2>1, <2>2, <2>3
<1>6. \A x : \A i \in 1..Len(r) : Latest(r[i], x) <=> Latest(q[i], x)
  BY <1>4 DEF Alike, Latest, Newest
<1>7. ASSUME Followed(c)' PROVE Followable(c)'
  <2>1. Followable(c) /\ Ordered(q, e, k, Stored(c))
    BY <1>1, <1>2, <1>7 DEF Followed, Alive, Follow, Trust, InOrder
  <2>2. Sound(q, e, k, b, Clear) => Sound(r, e, k, f, Clear)
    <3> SUFFICES ASSUME Sound(q, e, k, b, Clear) PROVE Sound(r, e, k, f, Clear)
      OBVIOUS
    <3>1. ~Held(e, k)
      <4> SUFFICES ASSUME Held(e, k) PROVE FALSE
        OBVIOUS
      <4>1. q[1].kind # "resolve"
        BY <1>1
      <4>2. Harmless(q, e, k)
        BY DEF Sound
      <4>3. Latest(q[1], k)
        <5> HIDE DEF q, e, k
        <5> QED BY <1>1, <1>3, <2>1, <4>1, <4>2, NewestLast
      <4>4. Needed(q[1], e)
        BY <1>1, <1>3 DEF Line
      <4> QED BY <4>3, <4>4 DEF Needed, has, Latest, Newest, Held
    <3>2. Harmless(r, e, k)
      BY <1>4, <1>6, <3>1 DEF Sound, Harmless, Alike
    <3>3. ~k.modified => NoLatest(r, k)
      BY <1>4, <1>6 DEF Sound, NoLatest
    <3>4. Latest(r[1], k) => /\ r[1].phase = "truncated" => f.state = "torn"
                             /\ r[1].phase = "done" => f.state = "whole"
      <4>1. Latest(r[1], k) => Latest(q[1], k) /\ q[1].kind = "backup"
        BY <1>1, <1>4, <1>6 DEF Latest
      <4>2. CASE truncate(c)
        BY <1>1, <1>5, <4>2
      <4>3. CASE written(c)
        <5>1. Latest(r[1], k) => b.state = "torn"
          BY <1>1, <4>1, <4>3 DEF Sound
        <5> QED BY <1>1, <1>5, <4>3, <5>1
      <4>4. CASE deleted(c)
        BY <1>1, <4>1, <4>4
      <4> QED BY <4>2, <4>3, <4>4
    <3> QED BY <3>1, <3>2, <3>3, <3>4 DEF Sound
  <2>3. Len(q) \in 1..Len(q)
    BY <1>1, <1>4
  <2>4. UpToDate(q, e, k, b, op, Deciding) => UpToDate(r, e, k, f, op, Deciding)
    BY <1>1, <1>4, <1>6, <2>3 DEF UpToDate, Alike
  <2>5. Repeated(q, k) => Repeated(r, k)
    <3>1. \A i \in 2..Len(r) : i \in 1..Len(q) /\ i - 1 \in 1..Len(q) /\ i \in 2..Len(q)
      BY <1>4
    <3> QED BY <1>4, <1>6, <3>1 DEF Repeated, Alike
  <2> QED BY <1>1, <2>1, <2>2, <2>4, <2>5 DEF Followable, Superseded, Clear, Deciding
<1>8. ASSUME Unopened(c)' PROVE Openable(c)'
  <2>1. Openable(c)
    BY <1>1, <1>2, <1>8 DEF Unopened, Alive, Follow
  <2>2. r[1].kind # "resolve"
    BY <1>1 DEF Alike
  <2>3. Deleted(r)
    <3> HIDE DEF q, r
    <3> SUFFICES ASSUME NEW i \in 1..Len(r), r[i].kind = "backup"
                 PROVE  \E j \in 1..Len(r) : i < j /\ r[j].kind = "discard" /\ r[j].by = "tracker"
      BY DEF Deleted
    <3>1. i \in 1..Len(q) /\ q[i].kind = "backup"
      BY <1>4 DEF Alike
    <3>2. PICK j \in 1..Len(q) : i < j /\ q[j].kind = "discard" /\ q[j].by = "tracker"
      BY <2>1, <3>1 DEF Openable, Deleted, q
    <3> QED BY <1>4, <3>2 DEF Alike
  <2> QED BY <1>1, <2>2, <2>3 DEF Openable
<1> QED BY <1>7, <1>8 DEF Follow

\* The first task has ended and the service has noted it; more tasks end with it that
\* find what they would write already there.
LEMMA NotedSound ==
  ASSUME NEW q \in Seq(Task), NEW r \in Seq(Task), NEW n \in 1..Len(q), Advanced(r, q, n), 1 \in 1..Len(q),
         NEW f, f.known <=> q[1].kind = "backup", f.known => f.version = q[1].version /\ f.meta = q[1].meta,
         r = <<>> \/ r[1].phase = "begun", q[1].phase = "done",
         NEW e, NEW k, NEW b, NEW clear, Sound(q, e, k, b, clear),
         Latest(q[1], k) => (b.state = "whole" => b.content = k.content)
  PROVE  Sound(r, f, k, b, clear)
<1>1. /\ Len(q) \in Nat /\ q # <<>> /\ Len(r) = Len(q) - n
      /\ \A i \in 1..Len(r) : n + i \in 1..Len(q) /\ 1 < n + i /\ Alike(r[i], q[n + i])
  BY QueueElements DEF Advanced
<1>2. \A i \in 1..Len(r) : (Latest(r[i], k) <=> Latest(q[n + i], k)) /\ r[i].kind = q[n + i].kind
  BY <1>1 DEF Alike, Latest, Newest
<1>3. Held(f, k) => Latest(q[1], k)
  BY DEF Held, Latest, Newest
<1>4. Held(f, k) => k.modified /\ b.state = "whole" /\ b.content = k.content
  BY <1>1, <1>3 DEF Sound, NoLatest
<1>5. Harmless(r, f, k)
  <2> SUFFICES ASSUME NEW j \in 1..Len(r), r[j].kind = "discard"
               PROVE  ~Held(f, k) /\ \A i \in 1..Len(r) : i < j => ~Latest(r[i], k)
    BY DEF Harmless
  <2>1. n + j \in 1..Len(q) /\ 1 < n + j /\ q[n + j].kind = "discard"
    BY <1>1, <1>2
  <2>2. \A i \in 1..Len(q) : i < n + j => ~Latest(q[i], k)
    BY <2>1 DEF Sound, Harmless
  <2>3. ~Latest(q[1], k)
    BY <2>1, <2>2
  <2>4. \A i \in 1..Len(r) : i < j => n + i < n + j
    BY <1>1
  <2> QED BY <1>1, <1>2, <1>3, <2>2, <2>3, <2>4
<1>6. ~k.modified => NoLatest(r, k)
  BY <1>1, <1>2 DEF Sound, NoLatest
<1> QED BY <1>4, <1>5, <1>6 DEF Sound

LEMMA AdvancedRepeated ==
  ASSUME NEW q \in Seq(Task), NEW r, NEW n \in 1..Len(q), Advanced(r, q, n), NEW k, Repeated(q, k)
  PROVE  Repeated(r, k)
<1>1. Len(q) \in Nat /\ Len(r) = Len(q) - n /\ \A i \in 1..Len(r) : Alike(r[i], q[n + i])
  BY QueueElements DEF Advanced
<1> SUFFICES ASSUME NEW i \in 2..Len(r), r[i].by = "shutdown", r[i].kind = "backup"
             PROVE  Latest(r[i - 1], k)
  BY DEF Repeated
<1>2. /\ i \in 1..Len(r) /\ i - 1 \in 1..Len(r) /\ n + i \in 2..Len(q) /\ (n + i) - 1 = n + (i - 1)
  BY <1>1
<1>3. q[n + i].by = "shutdown" /\ q[n + i].kind = "backup"
  BY <1>1, <1>2 DEF Alike
<1>4. Latest(q[(n + i) - 1], k)
  BY <1>2, <1>3 DEF Repeated
<1>5. Latest(q[n + (i - 1)], k)
  BY <1>2, <1>4
<1> QED BY <1>1, <1>2, <1>5 DEF Alike, Latest, Newest

LEMMA NotedUpToDate ==
  ASSUME NEW q \in Seq(Task), NEW r \in Seq(Task), NEW n \in 1..Len(q), Advanced(r, q, n), 1 \in 1..Len(q),
         NEW f, f.known <=> q[1].kind = "backup", f.known => f.version = q[1].version /\ f.meta = q[1].meta,
         \A i \in 2..n : ~Needed(q[i], f), q[1].phase = "done",
         NEW e, NEW k, NEW b, NEW op, NEW op2, NEW deciding, UpToDate(q, e, k, b, op, deciding),
         op \in {"timer", "snapshot"} => op2 = op,
         q[1].kind = "discard" => b.state = "none",
         k.modified /\ Latest(q[1], k) => b.state = "whole" /\ b.content = k.content
  PROVE  UpToDate(r, f, k, b, op2, deciding)
<1>1. /\ Len(q) \in Nat /\ q # <<>> /\ Len(r) = Len(q) - n /\ Len(r) \in Nat /\ (r # <<>> <=> Len(r) >= 1)
      /\ \A i \in 1..Len(r) : Alike(r[i], q[n + i])
  BY QueueElements DEF Advanced
<1>2. r # <<>> => Len(r) \in 1..Len(r) /\ n + Len(r) = Len(q)
  BY <1>1
<1>3. r # <<>> => Alike(r[Len(r)], q[Len(q)])
  BY <1>1, <1>2
<1>4. r # <<>> => (Latest(r[Len(r)], k) <=> Latest(q[Len(q)], k)) /\ r[Len(r)].kind = q[Len(q)].kind
  BY <1>3 DEF Alike, Latest, Newest
<1>5. r = <<>> => Len(q) = 1 \/ Len(q) \in 2..n
  BY <1>1
<1>6. r = <<>> /\ Len(q) # 1 => /\ q[Len(q)].kind = "backup" /\ f.known
                                /\ q[Len(q)].version = f.version /\ q[Len(q)].meta = f.meta
  BY <1>5 DEF Needed, has
<1>7. CASE k.modified
  <2>1. r = <<>> /\ Latest(q[Len(q)], k) => Latest(q[1], k) /\ Current(f, k)
    <3>1. CASE Len(q) = 1
      BY <3>1 DEF Latest, Newest, Current
    <3>2. CASE Len(q) # 1
      BY <1>6, <3>2 DEF Latest, Newest, Current
    <3> QED BY <3>1, <3>2
  <2> QED BY <1>1, <1>4, <1>7, <2>1 DEF UpToDate
<1>8. CASE ~k.modified
  <2>1. q[Len(q)].kind = "discard"
    BY <1>1, <1>8 DEF UpToDate
  <2>2. r = <<>> => b.state = "none"
    BY <1>6, <2>1
  <2> QED BY <1>4, <1>8, <2>1, <2>2 DEF UpToDate
<1> QED BY <1>7, <1>8

LEMMA NotedDeleted ==
  ASSUME NEW q \in Seq(Task), NEW r \in Seq(Task), NEW n \in 1..Len(q), Advanced(r, q, n), 1 \in 1..Len(q),
         NEW f, \A i \in 2..n : ~Needed(q[i], f), Deleted(q),
         \A i \in 1..Len(q) : q[i].by = "open" <=> q[i].kind = "resolve",
         \A i, j \in 1..Len(q) : i < j /\ q[i].by = "open" => q[j].by = "shutdown"
  PROVE  /\ Deleted(r)
         /\ q[1].kind = "backup" => r # <<>> /\ r[1].kind # "resolve"
<1>1. /\ Len(q) \in Nat /\ Len(r) = Len(q) - n /\ Len(r) \in Nat /\ (r # <<>> <=> Len(r) >= 1)
      /\ \A i \in 1..Len(r) : Alike(r[i], q[n + i])
  BY QueueElements DEF Advanced
<1>2. ASSUME NEW i \in 1..Len(r), r[i].kind = "backup"
      PROVE  \E j \in 1..Len(r) : i < j /\ r[j].kind = "discard" /\ r[j].by = "tracker"
  <2>1. n + i \in 1..Len(q) /\ q[n + i].kind = "backup"
    BY <1>1, <1>2 DEF Alike
  <2>2. PICK j \in 1..Len(q) : n + i < j /\ q[j].kind = "discard" /\ q[j].by = "tracker"
    BY <2>1 DEF Deleted
  <2>3. j - n \in 1..Len(r) /\ i < j - n /\ n + (j - n) = j
    BY <1>1, <2>2
  <2>4. Alike(r[j - n], q[n + (j - n)])
    BY <1>1, <2>3
  <2>5. Alike(r[j - n], q[j])
    BY <2>3, <2>4
  <2>6. r[j - n].kind = "discard" /\ r[j - n].by = "tracker"
    BY <2>2, <2>5 DEF Alike
  <2> QED BY <2>3, <2>6
<1>3. ASSUME q[1].kind = "backup"
      PROVE  r # <<>> /\ r[1].kind # "resolve"
  <2>1. PICK j \in 1..Len(q) : 1 < j /\ q[j].kind = "discard" /\ q[j].by = "tracker"
    BY <1>3 DEF Deleted
  <2>2. n < j
    <3>1. j \in 2..n => Needed(q[j], f)
      BY <2>1 DEF Needed
    <3>2. j \notin 2..n
      BY <3>1
    <3> QED BY <2>1, <3>2
  <2>3. r # <<>> /\ 1 \in 1..Len(r) /\ n + 1 \in 1..Len(q) /\ n + 1 <= j
    BY <1>1, <2>2
  <2>4. r[1].kind = q[n + 1].kind
    BY <1>1, <2>3 DEF Alike
  <2>5. q[n + 1].kind # "resolve"
    <3> SUFFICES ASSUME q[n + 1].kind = "resolve" PROVE FALSE
      OBVIOUS
    <3>1. q[n + 1].by = "open" /\ n + 1 # j
      BY <2>1, <2>3
    <3>2. n + 1 < j
      BY <2>3, <3>1
    <3> QED BY <2>1, <2>3, <3>1, <3>2
  <2> QED BY <2>3, <2>4, <2>5
<1> QED BY <1>2, <1>3 DEF Deleted

LEMMA NotedFollow ==
  ASSUME Base, Base', NEW c \in Copy, Trust(c), Follow(c), noted(c)
  PROVE  Follow(c)'
<1> DEFINE q == io[c]
           r == io'[c]
           e == cache[c]
           k == copy[c]
           b == backupFile[c]
           op == pending[c].op
           f == IF q[1].kind = "backup" THEN [known |-> TRUE, version |-> q[1].version, meta |-> q[1].meta] ELSE NoEntry
<1>1. /\ UNCHANGED <<copy, disk, backupFile, reused, isReady, unrestored>> /\ q # <<>> /\ q[1].phase = "done" /\ Alive
      /\ q[1].kind \in {"backup", "discard"}
      /\ Settle(c, Tail(io[c]), f, io[c][1].by, FALSE)
  BY DEF noted, Running
<1>2. /\ q \in Seq(Task) /\ r \in Seq(Task) /\ k \in WorkingCopy /\ Line(q, e)
      /\ Owned(q, op, k.state, shutdown.phase, c \in shutdown.left)
      /\ k.state # "open" => ~k.modified
  BY BaseOf DEF Base, Queues
<1>3. 1 \in 1..Len(q) /\ Len(q) \in Nat /\ q[1] \in Task
  <2>1. Len(q) \in Nat /\ Len(q) >= 1 /\ \A i \in 1..Len(q) : q[i] \in Task
    BY <1>1, <1>2, QueueElements
  <2>2. 1 \in 1..Len(q)
    BY <2>1
  <2> QED BY <2>1, <2>2
<1>4. /\ f \in Entry /\ (f.known <=> q[1].kind = "backup")
      /\ f.known => f.version = q[1].version /\ f.meta = q[1].meta
  <2>1. CASE q[1].kind = "backup"
    BY <1>3, <2>1 DEF Task, Entry
  <2>2. CASE q[1].kind # "backup"
    BY <2>2, Constants DEF NoEntry
  <2> QED BY <2>1, <2>2
<1> HIDE DEF f
<1>5. /\ cache'[c] = f /\ shutdown'.phase = shutdown.phase
      /\ r = <<>> \/ r[1].phase = "begun"
      /\ \E n \in 1..Len(q) : /\ Advanced(r, q, n)
                              /\ \A i \in 2..n : ~Needed(q[i], f)
                              /\ pending'[c] = IF \E i \in 1..n : q[i].by = "tracker" THEN Idle ELSE pending[c]
  <2> DEFINE failed == FALSE
  <2>1. failed \in BOOLEAN /\ Settle(c, Tail(io[c]), f, io[c][1].by, failed) /\ io[c] # <<>>
    BY <1>1
  <2> HIDE DEF failed
  <2>2. cache'[c] = f /\ shutdown'.phase = shutdown.phase /\ (r = <<>> \/ r[1].phase = "begun")
    BY <1>4, <2>1, SettleEffect
  <2>3. \E n \in 1..Len(io[c]) :
              /\ Advanced(io'[c], io[c], n)
              /\ \A i \in 2..n : ~Needed(io[c][i], f)
              /\ pending'[c] = IF \E i \in 1..n : io[c][i].by = "tracker" THEN Idle ELSE pending[c]
              /\ c \in shutdown'.left <=> c \in shutdown.left /\ \A i \in 1..n : io[c][i].by # "shutdown"
              /\ c \in shutdown'.backups <=>
                   \/ c \in shutdown.backups
                   \/ /\ shutdown.phase = "backup"
                      /\ \E i \in 1..n : io[c][i].by = "shutdown" /\ (i = 1 => ~failed)
    BY <1>4, <2>1, SettleEffect
  <2>4. PICK n \in 1..Len(q) : /\ Advanced(r, q, n)
                               /\ \A i \in 2..n : ~Needed(q[i], f)
                               /\ pending'[c] = IF \E i \in 1..n : q[i].by = "tracker" THEN Idle ELSE pending[c]
    BY <2>3
  <2> QED BY <2>2, <2>4
<1>6. PICK n \in 1..Len(q) : /\ Advanced(r, q, n)
                             /\ \A i \in 2..n : ~Needed(q[i], f)
                             /\ pending'[c] = IF \E i \in 1..n : q[i].by = "tracker" THEN Idle ELSE pending[c]
  BY <1>5
<1>7. op \in {"timer", "snapshot"} => pending'[c].op = op
  <2>1. \A i \in 1..n : i \in 1..Len(q)
    BY <1>3
  <2>2. \A i \in 1..Len(q) : q[i].by = "tracker" => op = q[i].kind /\ q[i] \in Task
    BY <1>2, QueueElements DEF Owned
  <2>3. op \in {"timer", "snapshot"} => \A i \in 1..n : q[i].by # "tracker"
    BY <2>1, <2>2 DEF Task
  <2> QED BY <1>6, <2>3
<1>8. /\ q[1].kind = "backup" /\ b.state = "whole" => b.content = q[1].content
      /\ q[1].kind = "discard" => b.state = "none"
  BY <1>1 DEF Trust, Filed, Written
<1>9. ASSUME c \in interrupted, c \notin interrupted'
      PROVE  /\ r = <<>>
             /\ IF q[1].kind = "discard" THEN ~k.modified
                ELSE k.modified /\ q[1].version = k.version /\ b.state = "whole"
  BY <1>1, <1>9 DEF noted
<1>10. ASSUME Followed(c)' PROVE Followable(c)'
  <2>1. k.state = "open" /\ c \notin reused /\ c \notin interrupted'
    BY <1>1, <1>10 DEF Followed
  <2>2. q[1].kind = "backup" /\ q[1].version = k.version => q[1].content = k.content
    <3>1. Ordered(q, e, k, Stored(c))
      BY <2>1 DEF Trust, InOrder
    <3> QED BY <1>3, <3>1 DEF Ordered
  <2>3. SUFFICES /\ ~Superseded(c) => Sound(r, f, k, b, Clear)
                 /\ ~k.reverting => UpToDate(r, f, k, b, pending'[c].op, Deciding) /\ Repeated(r, k)
    BY <1>1, <1>5 DEF Followable, Superseded, Clear, Deciding
  <2>4. CASE c \in interrupted
    <3>1. r = <<>> /\ Len(r) = 0
      BY <1>9, <2>1, <2>4
    <3>2. \A i \in 1..Len(r) : FALSE
      BY <3>1
    <3>3. \A i \in 2..Len(r) : FALSE
      BY <3>1
    <3>4. CASE q[1].kind = "discard"
      <4>1. ~k.modified /\ ~f.known /\ b.state = "none"
        BY <1>4, <1>8, <1>9, <2>1, <2>4, <3>4
      <4> QED BY <3>1, <3>2, <3>3, <4>1 DEF Sound, Harmless, NoLatest, Held, UpToDate, Repeated
    <3>5. CASE q[1].kind = "backup"
      <4>1. k.modified /\ b.state = "whole" /\ b.content = k.content /\ Current(f, k)
        BY <1>4, <1>8, <1>9, <2>1, <2>2, <2>4, <3>5 DEF Current
      <4> QED BY <3>1, <3>2, <3>3, <4>1 DEF Sound, Harmless, NoLatest, UpToDate, Repeated
    <3> QED BY <1>1, <3>4, <3>5
  <2>5. CASE c \notin interrupted
    <3>1. Followable(c)
      BY <1>1, <2>1, <2>5 DEF Followed, Follow
    <3>2. Latest(q[1], k) => (b.state = "whole" => b.content = k.content)
      BY <1>8, <2>2 DEF Latest, Newest
    <3>3. k.modified /\ Latest(q[1], k) => b.state = "whole" /\ b.content = k.content
      BY <1>1, <3>1, <3>2 DEF Followable, Superseded, Sound
    <3>4. ~Superseded(c) => Sound(q, e, k, b, Clear)
      BY <3>1 DEF Followable
    <3>5. ~k.reverting => UpToDate(q, e, k, b, op, Deciding) /\ Repeated(q, k)
      BY <3>1 DEF Followable
    <3> DEFINE clear == Clear
               deciding == Deciding
               op2 == pending'[c].op
    <3>6. /\ ~Superseded(c) => Sound(q, e, k, b, clear)
          /\ ~k.reverting => UpToDate(q, e, k, b, op, deciding)
          /\ op \in {"timer", "snapshot"} => op2 = op
      BY <1>7, <3>4, <3>5
    <3> HIDE DEF clear, deciding, op2, q, r, e, k, b, op
    <3>7. ~Superseded(c) => Sound(r, f, k, b, clear)
      BY <1>1, <1>2, <1>3, <1>4, <1>5, <1>6, <3>2, <3>6, NotedSound
    <3>8. ~k.reverting => UpToDate(r, f, k, b, op2, deciding)
      BY <1>1, <1>2, <1>3, <1>4, <1>6, <1>8, <3>3, <3>6, NotedUpToDate
    <3>9. ~k.reverting => Repeated(r, k)
      BY <1>2, <1>6, <3>5, AdvancedRepeated
    <3> QED BY <3>7, <3>8, <3>9 DEF clear, deciding, op2
  <2> QED BY <2>4, <2>5
<1>11. ASSUME Unopened(c)' PROVE Openable(c)'
  <2>1. k.state # "open" /\ c \notin interrupted' /\ ~k.modified
    BY <1>1, <1>2, <1>11 DEF Unopened
  <2>2. q[1].kind = "discard" => Restorable(c)'
    <3>1. q[1].kind = "discard" => ~cache'[c].known /\ backupFile'[c].state = "none"
      BY <1>1, <1>4, <1>5, <1>8
    <3> QED BY <3>1 DEF Restorable, Whole
  <2>3. CASE c \in interrupted
    <3>1. r = <<>> /\ q[1].kind = "discard"
      BY <1>1, <1>9, <2>1, <2>3
    <3>2. \A i \in 1..Len(r) : FALSE
      BY <3>1
    <3> QED BY <2>2, <3>1, <3>2 DEF Openable, Deleted
  <2>4. CASE c \notin interrupted
    <3>1. Deleted(q)
      BY <1>1, <2>1, <2>4 DEF Unopened, Follow, Openable
    <3>2. /\ \A i \in 1..Len(q) : q[i].by = "open" <=> q[i].kind = "resolve"
          /\ \A i, j \in 1..Len(q) : i < j /\ q[i].by = "open" => q[j].by = "shutdown"
      BY <1>2 DEF Line, Owned
    <3>3. Deleted(r) /\ (q[1].kind = "backup" => r # <<>> /\ r[1].kind # "resolve")
      <4> HIDE DEF q, r
      <4> QED BY <1>2, <1>3, <1>6, <3>1, <3>2, NotedDeleted
    <3> QED BY <1>1, <2>2, <3>3 DEF Openable
  <2> QED BY <2>3, <2>4
<1> QED BY <1>10, <1>11 DEF Follow

LEMMA SingleFollow ==
  ASSUME Base, Base', NEW c \in Copy, Trust(c), Follow(c), Single(c)
  PROVE  Follow(c)'
BY EditingFollow, SavingFollow, RevertingFollow, TimerFollow, SnapshotFollow, ClosingFollow, OpenedFollow,
   FailedReadFollow, WritingFollow, NotedFollow DEF Single, InputOutput, User, Failure

LEMMA FollowStep ==
  ASSUME Base, \A c \in Copy : Trust(c), \A c \in Copy : Follow(c), [Next]_vars
  PROVE  \A c \in Copy : Follow(c)'
<1>1. Base'
  BY BaseStep
<1>2. ASSUME NEW c \in Copy, Single(c)
      PROVE  \A d \in Copy : Follow(d)'
  <2>1. SameWindow /\ \A d \in Copy : d # c => Untouched(d)
    BY <1>2, LocalStep DEF Base
  <2>2. Follow(c)'
    BY <1>1, <1>2, SingleFollow
  <2>3. ASSUME NEW d \in Copy, d # c
        PROVE  Follow(d)'
    BY <2>1, <2>3, UntouchedFollow
  <2> QED BY <2>2, <2>3
<1>3. CASE Windowed
  BY <1>1, <1>3, WindowFollow
<1>4. CASE UNCHANGED vars
  <2>1. SameWindow /\ \A d \in Copy : Untouched(d)
    BY <1>4 DEF vars, tracker, service, ghosts, SameWindow, Untouched
  <2> QED BY <2>1, UntouchedFollow
<1> QED BY <1>2, <1>3, <1>4, NextSplits

\* The tracker keeps backups in step (scheduleBackup, discardBackup and the I/O of the
\* service): with nothing left to do for a copy that it was not kept from following,
\* the backup file holds what the copy shows if it is modified, and no backup if not.
\* It is kept from following a copy that was restored while a shutdown's discard of
\* the backup waited behind the editor (interrupted): restoreBackups does not await
\* visible editors, and without that exception the statement is false.
THEOREM QuietBackupsAreSafe == Spec => []QuietIsSafe
<1> DEFINE Inv == Base /\ (\A c \in Copy : Trust(c)) /\ \A c \in Copy : Follow(c)
<1>1. Init => Inv
  BY BaseInit, TrustInit, FollowInit
<1>2. Inv /\ [Next]_vars => Inv'
  BY BaseStep, TrustStep, FollowStep
<1>3. Inv => QuietIsSafe
  <2> SUFFICES ASSUME Inv, Alive, NEW c \in Copy, Quiet(c)
               PROVE  IF copy[c].modified THEN backupFile[c].state = "whole" /\ backupFile[c].content = copy[c].content
                      ELSE backupFile[c].state # "whole"
    BY DEF QuietIsSafe
  <2>1. Followable(c) /\ ~copy[c].reverting /\ io[c] = <<>> /\ pending[c].op = "none"
    BY DEF Follow, Followed, Quiet
  <2>2. UpToDate(io[c], cache[c], copy[c], backupFile[c], pending[c].op, Deciding)
    BY <2>1 DEF Followable
  <2> QED BY <2>1, <2>2 DEF UpToDate
<1> QED BY <1>1, <1>2, <1>3, PTL DEF Spec
=============================================================================
