-------------------------- MODULE MigrationsProofs --------------------------
(***************************************************************************)
(* Proofs about Migrations for any number of services, files and crashes:  *)
(* what is recorded is complete, and what a service has moved past is in   *)
(* effect, but for files without a transaction.                            *)
(***************************************************************************)
EXTENDS Migrations, TLAPS

Lines(f) == 1..Len(Statements[f])

(* What the process in Run has done of its file so far.                    *)
Prepared ==
  \A p \in Process :
    /\ pc[p] \in {"exec", "commit", "record"} => file[p] \in Files
    /\ pc[p] = "exec" => \A i \in 1..(stmt[p] - 1) :
         IF file[p] \in NoTx THEN <<file[p], i>> \in effects ELSE <<file[p], i>> \in open[p]
    /\ pc[p] = "commit" =>
         /\ file[p] \notin NoTx
         /\ \A i \in Lines(file[p]) : <<file[p], i>> \in open[p]
    /\ pc[p] = "record" => \A i \in Lines(file[p]) : <<file[p], i>> \in effects

(* An open transaction holds statements of its file only.                  *)
OpenInv ==
  \A p \in Process : \A x \in open[p] :
    pc[p] \in {"exec", "commit"} /\ file[p] \notin NoTx /\ x[1] = file[p]

Touched(f) == \E i \in Lines(f) : <<f, i>> \in effects
Whole(f) == \A i \in Lines(f) : <<f, i>> \in effects

(* The process furthest in file f, beyond all its statements in effect.    *)
Front(p, f) == AmidNoTx(p, f) /\ \A i \in Lines(f) : <<f, i>> \in effects => i < stmt[p]

(* A file in part in effect has no transaction, and a process is at it or  *)
(* died there.                                                             *)
FrontInv ==
  \A f \in Files : Touched(f) =>
    Whole(f) \/ (f \in NoTx /\ (f \in torn \/ \E p \in Process : Front(p, f)))

RecordedInv ==
  /\ \A f \in recorded : Whole(f)
  /\ \A p \in Process : applied[p] \subseteq recorded

(* What a process has moved past was begun by somebody.                    *)
MovedInv ==
  \A p \in Process : pc[p] # "start" => \A f \in 1..(file[p] - 1) : Touched(f)

(* The inductive invariant.                                                *)
IInv == TypeOK /\ Prepared /\ OpenInv /\ FrontInv /\ RecordedInv /\ MovedInv

-----------------------------------------------------------------------------
(* Complete, statement by statement.                                       *)
LEMMA CompleteIsWhole == \A f \in Files : Complete(f) <=> Whole(f)
  BY DEF Complete, Whole, Stmts, Lines

(* Files have statements, so a file in effect as a whole is touched.       *)
LEMMA WholeIsTouched == \A f \in Files : Lines(f) # {} /\ (Whole(f) => Touched(f))
<1> SUFFICES ASSUME NEW f \in Files PROVE 1 \in Lines(f)
  BY DEF Whole, Touched
<1>1. Statements[f] \in Seq({"create", "set"}) /\ Statements[f] # <<>>
  BY MigrationsAssumption DEF Files
<1>2. QED
  BY <1>1 DEF Lines

(* A file and a line in it name a statement.                               *)
LEMMA LineIsStmt == \A f \in Files : \A i \in Lines(f) : <<f, i>> \in Stmt
  BY DEF Stmt, Stmts, Lines

(* Lengths are numbers.                                                    *)
LEMMA LenNat == /\ Len(Statements) \in Nat
                /\ \A f \in Files : Len(Statements[f]) \in Nat \ {0}
<1>1. Len(Statements) \in Nat
  BY MigrationsAssumption
<1>2. ASSUME NEW f \in Files PROVE Len(Statements[f]) \in Nat \ {0}
  <2>1. Statements[f] \in Seq({"create", "set"}) /\ Statements[f] # <<>>
    BY MigrationsAssumption DEF Files
  <2>2. QED
    BY <2>1
<1>3. QED
  BY <1>1, <1>2

(* Before any process has started nothing is in effect or recorded.        *)
LEMMA InitInv == Init => IInv
<1> SUFFICES ASSUME Init PROVE IInv
  OBVIOUS
<1>1. TypeOK
  BY MigrationsAssumption, LenNat DEF Init, TypeOK
<1>2. Prepared /\ OpenInv /\ FrontInv /\ RecordedInv /\ MovedInv
  BY DEF Init, Prepared, OpenInv, FrontInv, RecordedInv, MovedInv, Touched
<1>3. QED
  BY <1>1, <1>2 DEF IInv

(* Statements stay in effect, so what was begun or whole remains so.       *)
LEMMA EffectsGrow ==
  ASSUME effects \subseteq effects'
  PROVE  \A f \in Files : (Touched(f) => Touched(f)') /\ (Whole(f) => Whole(f)')
  BY DEF Touched, Whole

(* FrontInv after a step of p that executes no statement: p may leave the  *)
(* front of a file only if somebody else is there, or the file is torn.    *)
LEMMA FrontKept ==
  ASSUME FrontInv, TypeOK', effects' = effects, torn \subseteq torn', NEW p \in Process,
         \A q \in Process \ {p} : pc'[q] = pc[q] /\ file'[q] = file[q] /\ stmt'[q] = stmt[q],
         \A f \in Files : Front(p, f) =>
           Whole(f) \/ f \in torn' \/ \E q \in Process \ {p} : Front(q, f)
  PROVE  FrontInv'
<1> SUFFICES ASSUME NEW f \in Files, Touched(f)', ~Whole(f)', f \notin torn'
             PROVE  f \in NoTx /\ \E q \in Process : Front(q, f)'
  BY DEF FrontInv, TypeOK
<1>1. Touched(f) /\ ~Whole(f) /\ f \notin torn
  BY DEF Touched, Whole
<1>2. f \in NoTx /\ \E q \in Process : Front(q, f)
  BY <1>1 DEF FrontInv
<1>3. PICK q \in Process \ {p} : Front(q, f)
  BY <1>1, <1>2
<1>4. Front(q, f)'
  BY <1>3 DEF Front, AmidNoTx
<1>5. QED
  BY <1>2, <1>4

(* MovedInv after a step of p.                                             *)
LEMMA MovedKept ==
  ASSUME TypeOK, MovedInv, effects \subseteq effects', NEW p \in Process,
         \A q \in Process \ {p} : pc'[q] = pc[q] /\ file'[q] = file[q],
         pc'[p] # "start" => \A f \in 1..(file'[p] - 1) : Touched(f)'
  PROVE  MovedInv'
<1> SUFFICES ASSUME NEW q \in Process, pc'[q] # "start", NEW f \in 1..(file'[q] - 1)
             PROVE  Touched(f)'
  BY DEF MovedInv
<1>1. CASE q = p
  BY <1>1
<1>2. CASE q # p
  <2>1. Touched(f) /\ f \in Files
    BY <1>2, LenNat DEF MovedInv, TypeOK, Files
  <2>2. QED
    BY <2>1, EffectsGrow
<1>3. QED
  BY <1>1, <1>2

(* Every step keeps the invariant.                                         *)
LEMMA NextInv == IInv /\ [Next]_vars => IInv'
<1> SUFFICES ASSUME IInv, [Next]_vars PROVE IInv'
  OBVIOUS
<1> USE DEF IInv
<1>1. ASSUME NEW p \in Process, Start(p) PROVE IInv'
  <2>1. TypeOK'
    BY <1>1, LenNat DEF Start, TypeOK
  <2>2. Prepared' /\ OpenInv'
    BY <1>1 DEF Start, TypeOK, Prepared, OpenInv
  <2>3. FrontInv'
    BY <1>1 DEF Start, TypeOK, FrontInv, Touched, Whole, Front, AmidNoTx
  <2>4. RecordedInv'
    BY <1>1 DEF Start, TypeOK, RecordedInv, Whole
  <2>5. MovedInv'
    <3>1. \A q \in Process \ {p} : pc'[q] = pc[q] /\ file'[q] = file[q]
      BY <1>1 DEF Start, TypeOK
    <3>2. effects \subseteq effects' /\ file'[p] = 1
      BY <1>1 DEF Start, TypeOK
    <3>3. QED
      BY <3>1, <3>2, MovedKept
  <2>6. QED
    BY <2>1, <2>2, <2>3, <2>4, <2>5
<1>2. ASSUME NEW p \in Process, NextFile(p) PROVE IInv'
  <2>1. /\ pc[p] = "file" /\ pc'[p] \in {"file", "exec", "returned"}
        /\ \A q \in Process \ {p} : pc'[q] = pc[q] /\ file'[q] = file[q] /\ stmt'[q] = stmt[q]
        /\ UNCHANGED <<effects, recorded, applied, open, torn, crashes>>
    BY <1>2 DEF NextFile, TypeOK
  <2>2. \/ file'[p] = file[p] /\ pc'[p] # "exec"
        \/ file[p] \in applied[p] /\ file'[p] = file[p] + 1 /\ pc'[p] # "exec"
        \/ file[p] \in Files /\ file'[p] = file[p] /\ stmt'[p] = 1
    BY <1>2 DEF NextFile, TypeOK
  <2>3. TypeOK'
    <3>1. file' \in [Process -> 1..(Len(Statements) + 1)]
      <4>1. \/ file' = file
            \/ file' = [file EXCEPT ![p] = @ + 1] /\ file[p] \in 1..Len(Statements)
        BY <1>2 DEF NextFile, TypeOK, Files
      <4>2. file[p] \in 1..Len(Statements) => file[p] + 1 \in 1..(Len(Statements) + 1)
        BY LenNat
      <4>3. QED
        BY <4>1, <4>2 DEF TypeOK
    <3>2. stmt' \in [Process -> Nat \ {0}]
      BY <1>2 DEF NextFile, TypeOK
    <3>3. pc' \in [Process -> {"start", "file", "exec", "commit", "record", "returned"}]
      BY <1>2 DEF NextFile, TypeOK
    <3>4. \A q \in Process : pc'[q] = "exec" =>
             file'[q] \in Files /\ stmt'[q] <= Len(Statements[file'[q]])
      <4>1. pc'[p] = "exec" => file'[p] \in Files /\ stmt'[p] <= Len(Statements[file'[p]])
        BY <2>2, LenNat
      <4>2. QED
        BY <2>1, <4>1 DEF TypeOK
    <3>5. QED
      BY <2>1, <3>1, <3>2, <3>3, <3>4 DEF TypeOK
  <2>4. Prepared' /\ OpenInv'
    BY <2>1, <2>2 DEF Prepared, OpenInv
  <2>5. FrontInv'
    BY <2>1, <2>3, FrontKept DEF Front, AmidNoTx
  <2>6. RecordedInv'
    BY <2>1 DEF RecordedInv, Whole
  <2>7. MovedInv'
    <3>1. file[p] \in applied[p] => Touched(file[p])
      BY WholeIsTouched DEF TypeOK, RecordedInv
    <3>2. \A f \in 1..(file'[p] - 1) : f \in 1..(file[p] - 1) \/ (f = file[p] /\ f \in applied[p])
      BY <2>2 DEF TypeOK
    <3>3. \A f \in 1..(file'[p] - 1) : Touched(f)
      BY <2>1, <3>1, <3>2 DEF MovedInv
    <3>4. \A f \in 1..(file'[p] - 1) : Touched(f)'
      BY <2>1, <3>3 DEF Touched
    <3>5. QED
      BY <2>1, <3>4, MovedKept
  <2>8. QED
    BY <2>3, <2>4, <2>5, <2>6, <2>7
<1>3. ASSUME NEW p \in Process, Duplicate(p) PROVE IInv'
  <2>0. stmt[p] \in Lines(file[p]) /\ <<file[p], stmt[p]>> \in effects
    BY <1>3, LenNat DEF Duplicate, Current, TypeOK, Lines
  <2>1. TypeOK'
    BY <1>3, LenNat DEF Duplicate, Continue, TypeOK, Files
  <2>2. Prepared' /\ OpenInv'
    BY <1>3 DEF Duplicate, Continue, TypeOK, Prepared, OpenInv
  <2>3. FrontInv'
    <3>1. /\ effects' = effects /\ torn' = torn
          /\ \A q \in Process \ {p} : pc'[q] = pc[q] /\ file'[q] = file[q] /\ stmt'[q] = stmt[q]
      BY <1>3 DEF Duplicate, Continue, TypeOK
    <3>2. \A f \in Files : ~Front(p, f)
      BY <2>0 DEF Front, AmidNoTx, TypeOK
    <3>3. QED
      BY <2>1, <3>1, <3>2, FrontKept
  <2>4. RecordedInv'
    BY <1>3 DEF Duplicate, Continue, TypeOK, RecordedInv, Whole
  <2>5. MovedInv'
    <3>1. Touched(file[p])
      BY <2>0 DEF Touched
    <3>2. /\ effects' = effects /\ pc[p] = "exec" /\ file'[p] = file[p] + 1
          /\ \A q \in Process \ {p} : pc'[q] = pc[q] /\ file'[q] = file[q]
      BY <1>3 DEF Duplicate, Continue, TypeOK
    <3>3. \A f \in 1..(file'[p] - 1) : f \in 1..(file[p] - 1) \/ f = file[p]
      BY <3>2 DEF TypeOK
    <3>4. \A f \in 1..(file'[p] - 1) : Touched(f)'
      BY <3>1, <3>2, <3>3 DEF MovedInv, Touched
    <3>5. QED
      BY <3>2, <3>4, MovedKept
  <2>6. QED
    BY <2>1, <2>2, <2>3, <2>4, <2>5
<1>4. ASSUME NEW p \in Process, RunInTx(p) PROVE IInv'
  <2>1. TypeOK'
    BY <1>4, LenNat, LineIsStmt DEF RunInTx, Current, AtLast, TypeOK, Lines
  <2>2. Prepared' /\ OpenInv'
    <3>1. /\ file' = file /\ file[p] \in Files /\ stmt'[p] = stmt[p] + 1
          /\ pc'[p] = IF stmt[p] = Len(Statements[file[p]]) THEN "commit" ELSE "exec"
          /\ \A q \in Process \ {p} : pc'[q] = pc[q] /\ stmt'[q] = stmt[q] /\ open'[q] = open[q]
          /\ effects \subseteq effects'
      BY <1>4 DEF RunInTx, AtLast, TypeOK
    <3>2. \A i \in 1..stmt[p] : i \in 1..(stmt[p] - 1) \/ i = stmt[p]
      BY DEF TypeOK
    <3>3. \A i \in 1..stmt[p] : <<file[p], i>> \in open'[p]
      BY <1>4, <3>2 DEF RunInTx, Current, TypeOK, Prepared
    <3>4. Prepared'
      <4>1. effects' = effects /\ file[p] \notin NoTx /\ stmt'[p] - 1 = stmt[p]
        BY <1>4, <3>1 DEF RunInTx, TypeOK
      <4>2. QED
        BY <3>1, <3>3, <4>1 DEF Prepared, Lines
    <3>5. OpenInv'
      BY <1>4, <3>1 DEF RunInTx, Current, TypeOK, OpenInv
    <3>6. QED
      BY <3>4, <3>5
  <2>3. FrontInv'
    <3>1. /\ effects' = effects /\ torn' = torn /\ file[p] \notin NoTx
          /\ \A q \in Process \ {p} : pc'[q] = pc[q] /\ file'[q] = file[q] /\ stmt'[q] = stmt[q]
      BY <1>4 DEF RunInTx, TypeOK
    <3>2. QED
      BY <2>1, <3>1, FrontKept DEF Front, AmidNoTx
  <2>4. RecordedInv'
    BY <1>4 DEF RunInTx, TypeOK, RecordedInv, Whole
  <2>5. MovedInv'
    BY <1>4 DEF RunInTx, TypeOK, MovedInv, Touched
  <2>6. QED
    BY <2>1, <2>2, <2>3, <2>4, <2>5
<1>5. ASSUME NEW p \in Process, Commit(p) PROVE IInv'
  <2>0. effects \subseteq effects'
    BY <1>5 DEF Commit
  <2>1. TypeOK'
    BY <1>5 DEF Commit, TypeOK
  <2>2. Prepared' /\ OpenInv'
    BY <1>5 DEF Commit, TypeOK, Prepared, OpenInv
  <2>3. FrontInv'
    <3> SUFFICES ASSUME NEW f \in Files, Touched(f)', ~Whole(f)'
                 PROVE  f \in NoTx /\ (f \in torn' \/ \E q \in Process : Front(q, f)')
      BY DEF FrontInv
    <3>1. f # file[p]
      BY <1>5 DEF Commit, Prepared, Whole
    <3>2. \A i \in Lines(f) : <<f, i>> \in effects' => <<f, i>> \in effects
      BY <1>5, <3>1 DEF Commit, OpenInv
    <3>3. Touched(f) /\ ~Whole(f)
      BY <2>0, <3>2, EffectsGrow DEF Touched
    <3>4. \A q \in Process : Front(q, f) => Front(q, f)'
      BY <1>5, <3>2 DEF Commit, TypeOK, Front, AmidNoTx
    <3>5. QED
      BY <1>5, <3>3, <3>4 DEF Commit, FrontInv
  <2>4. RecordedInv'
    BY <1>5, <2>0, EffectsGrow DEF Commit, TypeOK, RecordedInv
  <2>5. MovedInv'
    BY <1>5, <2>0, EffectsGrow DEF Commit, TypeOK, MovedInv, Files
  <2>6. QED
    BY <2>1, <2>2, <2>3, <2>4, <2>5
<1>6. ASSUME NEW p \in Process, RunWithoutTx(p) PROVE IInv'
  <2>0. effects \subseteq effects'
    BY <1>6 DEF RunWithoutTx
  <2>1. TypeOK'
    BY <1>6, LenNat, LineIsStmt DEF RunWithoutTx, Current, AtLast, TypeOK, Lines
  <2>2. Prepared' /\ OpenInv'
    <3>1. /\ file' = file /\ file[p] \in Files /\ stmt'[p] = stmt[p] + 1
          /\ pc'[p] = IF stmt[p] = Len(Statements[file[p]]) THEN "record" ELSE "exec"
          /\ \A q \in Process \ {p} : pc'[q] = pc[q] /\ stmt'[q] = stmt[q] /\ open'[q] = open[q]
          /\ effects \subseteq effects'
      BY <1>6 DEF RunWithoutTx, AtLast, TypeOK
    <3>2. \A i \in 1..stmt[p] : i \in 1..(stmt[p] - 1) \/ i = stmt[p]
      BY DEF TypeOK
    <3>3. \A i \in 1..stmt[p] : <<file[p], i>> \in effects'
      BY <1>6, <3>2 DEF RunWithoutTx, Current, TypeOK, Prepared
    <3>4. Prepared'
      <4>1. open' = open /\ file[p] \in NoTx /\ stmt'[p] - 1 = stmt[p]
        BY <1>6, <3>1 DEF RunWithoutTx, TypeOK
      <4>2. QED
        BY <3>1, <3>3, <4>1 DEF Prepared, Lines
    <3>5. OpenInv'
      BY <1>6, <3>1 DEF RunWithoutTx, Current, TypeOK, OpenInv
    <3>6. QED
      BY <3>4, <3>5
  <2>3. FrontInv'
    <3> SUFFICES ASSUME NEW f \in Files, Touched(f)', ~Whole(f)', f \notin torn'
                 PROVE  f \in NoTx /\ \E q \in Process : Front(q, f)'
      BY <2>1 DEF FrontInv, TypeOK
    <3>0. torn' = torn /\ file[p] \in NoTx
      BY <1>6 DEF RunWithoutTx
    <3>1. CASE f # file[p]
      <4>1. \A i \in Lines(f) : <<f, i>> \in effects' => <<f, i>> \in effects
        BY <1>6, <3>1 DEF RunWithoutTx, Current
      <4>2. Touched(f) /\ ~Whole(f)
        BY <2>0, <4>1, EffectsGrow DEF Touched
      <4>3. \A q \in Process : Front(q, f) => Front(q, f)'
        BY <1>6, <3>1, <4>1 DEF RunWithoutTx, TypeOK, Front, AmidNoTx
      <4>4. QED
        BY <1>6, <4>2, <4>3 DEF RunWithoutTx, FrontInv
    <3>2. CASE f = file[p]
      <4>1. ~AtLast(p)
        BY <1>6, <2>2, <3>2 DEF RunWithoutTx, TypeOK, Prepared, Whole
      <4>2. AmidNoTx(p, f)' /\ f \in NoTx /\ stmt'[p] = stmt[p] + 1
        BY <1>6, <3>2, <4>1 DEF RunWithoutTx, TypeOK, AmidNoTx
      <4>3. CASE \A i \in Lines(f) : <<f, i>> \in effects => i <= stmt[p]
        <5>1. \A i \in Lines(f) : <<f, i>> \in effects' => i <= stmt[p]
          BY <1>6, <3>2, <4>3 DEF RunWithoutTx, Current, TypeOK, Lines
        <5>2. \A i \in Lines(f) : <<f, i>> \in effects' => i < stmt'[p]
          BY <4>2, <5>1 DEF TypeOK, Lines
        <5>3. QED
          BY <4>2, <5>2 DEF Front
      <4>4. CASE \E i \in Lines(f) : <<f, i>> \in effects /\ i > stmt[p]
        <5>1. PICK q \in Process : Front(q, f)
          BY <1>6, <4>4, <2>0, EffectsGrow DEF RunWithoutTx, FrontInv, Touched
        <5>2. q # p /\ stmt[p] < stmt[q]
          BY <4>4, <5>1 DEF Front, AmidNoTx, TypeOK, Lines
        <5>3. Front(q, f)'
          BY <1>6, <3>2, <5>1, <5>2 DEF RunWithoutTx, Current, TypeOK, Front, AmidNoTx
        <5>4. QED
          BY <4>2, <5>3
      <4>5. \A i \in Lines(f) : i \in Nat /\ stmt[p] \in Nat
        BY DEF TypeOK, Lines
      <4>6. QED
        BY <4>3, <4>4, <4>5
    <3>3. QED
      BY <3>1, <3>2
  <2>4. RecordedInv'
    BY <1>6, <2>0, EffectsGrow DEF RunWithoutTx, TypeOK, RecordedInv
  <2>5. MovedInv'
    BY <1>6, <2>0, EffectsGrow DEF RunWithoutTx, TypeOK, MovedInv, Files
  <2>6. QED
    BY <2>1, <2>2, <2>3, <2>4, <2>5
<1>7. ASSUME NEW p \in Process, Record(p) PROVE IInv'
  <2>0. file[p] \in Files /\ Whole(file[p])
    BY <1>7 DEF Record, Prepared, Whole
  <2>1. TypeOK'
    <3>1. file' \in [Process -> 1..(Len(Statements) + 1)]
      BY <1>7, <2>0, LenNat DEF Record, TypeOK, Files
    <3>2. recorded' \subseteq Files /\ pc' = [pc EXCEPT ![p] = "file"]
      BY <1>7, <2>0 DEF Record, TypeOK
    <3>3. QED
      BY <1>7, <3>1, <3>2 DEF Record, TypeOK
  <2>2. Prepared' /\ OpenInv'
    BY <1>7 DEF Record, TypeOK, Prepared, OpenInv
  <2>3. FrontInv'
    BY <1>7 DEF Record, TypeOK, FrontInv, Touched, Whole, Front, AmidNoTx
  <2>4. RecordedInv'
    BY <1>7, <2>0 DEF Record, TypeOK, RecordedInv, Whole
  <2>5. MovedInv'
    <3>1. Touched(file[p])
      BY <2>0, WholeIsTouched
    <3>2. /\ effects' = effects /\ pc[p] = "record" /\ file'[p] = file[p] + 1
          /\ \A q \in Process \ {p} : pc'[q] = pc[q] /\ file'[q] = file[q]
      BY <1>7 DEF Record, TypeOK
    <3>3. \A f \in 1..(file'[p] - 1) : f \in 1..(file[p] - 1) \/ f = file[p]
      BY <3>2 DEF TypeOK
    <3>4. \A f \in 1..(file'[p] - 1) : Touched(f)'
      BY <3>1, <3>2, <3>3 DEF MovedInv, Touched
    <3>5. QED
      BY <3>2, <3>4, MovedKept
  <2>6. QED
    BY <2>1, <2>2, <2>3, <2>4, <2>5
<1>8. ASSUME NEW p \in Process, Crash(p) PROVE IInv'
  <2>1. TypeOK'
    BY <1>8, MigrationsAssumption DEF Crash, TypeOK, AmidNoTx
  <2>2. Prepared' /\ OpenInv'
    BY <1>8 DEF Crash, TypeOK, Prepared, OpenInv
  <2>3. FrontInv'
    <3>1. /\ effects' = effects /\ torn \subseteq torn'
          /\ \A q \in Process \ {p} : pc'[q] = pc[q] /\ file'[q] = file[q] /\ stmt'[q] = stmt[q]
      BY <1>8 DEF Crash, TypeOK
    <3>2. \A f \in Files : Front(p, f) => f \in torn'
      BY <1>8 DEF Crash, Front, AmidNoTx
    <3>3. QED
      BY <2>1, <3>1, <3>2, FrontKept
  <2>4. RecordedInv'
    BY <1>8 DEF Crash, TypeOK, RecordedInv, Whole
  <2>5. MovedInv'
    BY <1>8 DEF Crash, TypeOK, MovedInv, Touched
  <2>6. QED
    BY <2>1, <2>2, <2>3, <2>4, <2>5
<1>9. CASE UNCHANGED vars
  BY <1>9 DEF vars, TypeOK, Prepared, OpenInv, FrontInv, RecordedInv, MovedInv, Touched,
      Whole, Front, AmidNoTx
<1>10. QED
  BY <1>1, <1>2, <1>3, <1>4, <1>5, <1>6, <1>7, <1>8, <1>9 DEF Next, Run, Settled

-----------------------------------------------------------------------------
(* Every reachable state of any number of migrating services satisfies the *)
(* inductive invariant.                                                    *)
THEOREM Invariance == Spec => []IInv
  BY InitInv, NextInv, PTL DEF Spec

(* The variables keep their types; no process runs past its file.          *)
THEOREM TypeCorrect == Spec => []TypeOK
<1>1. IInv => TypeOK
  BY DEF IInv
<1>2. QED
  BY <1>1, Invariance, PTL

(* Run skips recorded versions, and may: they are in effect as a whole,    *)
(* whatever raced, failed or died before.                                  *)
THEOREM RecordedVersionsComplete == Spec => []RecordedIsComplete
<1>1. IInv => RecordedIsComplete
  BY CompleteIsWhole DEF IInv, RecordedInv, RecordedIsComplete, TypeOK
<1>2. QED
  BY <1>1, Invariance, PTL

(* Taking a duplicate error for "another process applied this first" is    *)
(* right for every file with a transaction; a file without one may still   *)
(* be in progress or have been left by a process that died.                *)
THEOREM SkippingIsHarmless == Spec => []MovedOnIsApplied
<1>1. IInv => MovedOnIsApplied
  <2> SUFFICES ASSUME IInv, NEW p \in Process, pc[p] # "start", NEW f \in 1..(file[p] - 1)
               PROVE  Complete(f) \/ f \in torn \/ \E q \in Process : AmidNoTx(q, f)
    BY DEF MovedOnIsApplied
  <2>1. f \in Files
    BY LenNat DEF IInv, TypeOK, Files
  <2>2. Touched(f)
    BY DEF IInv, MovedInv
  <2>3. QED
    BY <2>1, <2>2, CompleteIsWhole DEF IInv, FrontInv, Front
<1>2. QED
  BY <1>1, Invariance, PTL
=============================================================================
