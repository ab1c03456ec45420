----------------------------- MODULE Migrations -----------------------------
(***************************************************************************)
(* The schema migration runner of internal/migrations.  cmd/control and    *)
(* cmd/processor both call Run when they start, without coordination: each *)
(* applies the files it has not seen recorded, in filename order, and      *)
(* records a version with a separate insert afterwards.  An error that     *)
(* says the object is already there means another process was faster, and  *)
(* the file is skipped.                                                    *)
(*                                                                         *)
(* Postgres is external: a transaction's statements take effect together   *)
(* at its commit, and creating an object that an open transaction has      *)
(* created waits for that transaction to end.                              *)
(***************************************************************************)
EXTENDS Naturals, Sequences, FiniteSets

CONSTANTS
  Process,    (* the services that migrate                                 *)
  Statements, (* Statements[f]: the statements of the f-th file by name:   *)
              (* "create" fails when repeated, "set" does not              *)
  NoTx,       (* the files that begin with -- no-transaction               *)
  MaxCrashes  (* bound on processes that die or fail                       *)

Files == 1..Len(Statements)
Stmts(f) == {<<f, i>> : i \in 1..Len(Statements[f])}

ASSUME MigrationsAssumption ==
  /\ Statements \in Seq(Seq({"create", "set"}))
  /\ \A f \in Files : Statements[f] # <<>>
  /\ NoTx \subseteq Files
  /\ MaxCrashes \in Nat

VARIABLES
  effects,  (* statements in effect, committed                             *)
  recorded, (* versions in schema_migrations                               *)
  pc,       (* where each process's Run is                                 *)
  applied,  (* applied[p]: the versions p found recorded when it started   *)
  file,     (* file[p]: the file p is at                                   *)
  stmt,     (* stmt[p]: the statement of it that is next                   *)
  open,     (* open[p]: statements of p's open transaction                 *)
  torn,     (* history: no-transaction files a process died amid           *)
  crashes

vars == <<effects, recorded, pc, applied, file, stmt, open, torn, crashes>>

Stmt == UNION {Stmts(f) : f \in Files}
Complete(f) == Stmts(f) \subseteq effects

TypeOK ==
  /\ effects \subseteq Stmt
  /\ recorded \subseteq Files
  /\ pc \in [Process -> {"start", "file", "exec", "commit", "record", "returned"}]
  /\ applied \in [Process -> SUBSET Files]
  /\ file \in [Process -> 1..(Len(Statements) + 1)]
  /\ stmt \in [Process -> Nat \ {0}]
  /\ \A p \in Process : pc[p] = "exec" =>
       file[p] \in Files /\ stmt[p] <= Len(Statements[file[p]])
  /\ open \in [Process -> SUBSET Stmt]
  /\ torn \subseteq NoTx
  /\ crashes \in 0..MaxCrashes

Init ==
  /\ effects = {}
  /\ recorded = {}
  /\ pc = [p \in Process |-> "start"]
  /\ applied = [p \in Process |-> {}]
  /\ file = [p \in Process |-> 1]
  /\ stmt = [p \in Process |-> 1]
  /\ open = [p \in Process |-> {}]
  /\ torn = {}
  /\ crashes = 0

-----------------------------------------------------------------------------
(* ensureMigrationsTable, where losing the race for the table is fine,     *)
(* then appliedVersions and the sorted list of files.                      *)
Start(p) ==
  /\ pc[p] = "start"
  /\ applied' = [applied EXCEPT ![p] = recorded]
  /\ file' = [file EXCEPT ![p] = 1]
  /\ pc' = [pc EXCEPT ![p] = "file"]
  /\ UNCHANGED <<effects, recorded, stmt, open, torn, crashes>>

(* The head of the loop over the files.                                    *)
NextFile(p) ==
  /\ pc[p] = "file"
  /\ \/ /\ file[p] > Len(Statements)
        /\ pc' = [pc EXCEPT ![p] = "returned"]
        /\ UNCHANGED <<file, stmt>>
     \/ /\ file[p] \in applied[p]
        /\ file' = [file EXCEPT ![p] = @ + 1]
        /\ UNCHANGED <<pc, stmt>>
     \/ /\ file[p] \in Files \ applied[p]
        /\ pc' = [pc EXCEPT ![p] = "exec"]
        /\ stmt' = [stmt EXCEPT ![p] = 1]
        /\ UNCHANGED file
  /\ UNCHANGED <<effects, recorded, applied, open, torn, crashes>>

Current(p) == <<file[p], stmt[p]>>
Creates(p) == Statements[file[p]][stmt[p]] = "create"

(* Mutant of AtLast: the loop over the statements runs one too far.        *)
AtLastPast(p) == stmt[p] > Len(Statements[file[p]])

AtLast(p) == stmt[p] = Len(Statements[file[p]])

(* Mutant of Continue: a skipped file is recorded, so that no later start  *)
(* tries it again.                                                         *)
ContinueRecords(p) ==
  /\ pc' = [pc EXCEPT ![p] = "file"]
  /\ file' = [file EXCEPT ![p] = @ + 1]
  /\ recorded' = recorded \union {file[p]}

(* "another process applied this first; move on".                          *)
Continue(p) ==
  /\ pc' = [pc EXCEPT ![p] = "file"]
  /\ file' = [file EXCEPT ![p] = @ + 1]
  /\ UNCHANGED recorded

(* Mutant of Duplicate: a repeated statement is an error like any other;   *)
(* the service exits and is started again.                                 *)
DuplicateFatal(p) ==
  /\ pc[p] = "exec"
  /\ Creates(p) /\ Current(p) \in effects
  /\ open' = [open EXCEPT ![p] = {}]
  /\ pc' = [pc EXCEPT ![p] = "start"]
  /\ UNCHANGED <<file, recorded, effects, applied, stmt, torn, crashes>>

(* A statement fails with duplicate_table or duplicate_object: what the    *)
(* transaction did is rolled back, and what a no-transaction file did      *)
(* stays; the rest of the file is skipped.                                 *)
Duplicate(p) ==
  /\ pc[p] = "exec"
  /\ Creates(p) /\ Current(p) \in effects
  /\ open' = [open EXCEPT ![p] = {}]
  /\ Continue(p)
  /\ UNCHANGED <<effects, applied, stmt, torn, crashes>>

(* Postgres lets p create the object: it does not exist, and no open       *)
(* transaction is about to make it.                                        *)
MayExecute(p) ==
  Creates(p) => Current(p) \notin effects /\ \A q \in Process \ {p} : Current(p) \notin open[q]

(* Mutant of RunInTx: the pool executes the statement, not the transaction.*)
RunInTxOnPool(p) ==
  /\ pc[p] = "exec" /\ file[p] \notin NoTx
  /\ MayExecute(p)
  /\ effects' = effects \union {Current(p)}
  /\ stmt' = [stmt EXCEPT ![p] = @ + 1]
  /\ pc' = [pc EXCEPT ![p] = IF AtLast(p) THEN "commit" ELSE "exec"]
  /\ UNCHANGED <<open, recorded, applied, file, torn, crashes>>

(* runInTx executes the next statement in its transaction ...              *)
RunInTx(p) ==
  /\ pc[p] = "exec" /\ file[p] \notin NoTx
  /\ MayExecute(p)
  /\ open' = [open EXCEPT ![p] = @ \union {Current(p)}]
  /\ stmt' = [stmt EXCEPT ![p] = @ + 1]
  /\ pc' = [pc EXCEPT ![p] = IF AtLast(p) THEN "commit" ELSE "exec"]
  /\ UNCHANGED <<effects, recorded, applied, file, torn, crashes>>

(* ... and commits after the last.                                         *)
Commit(p) ==
  /\ pc[p] = "commit"
  /\ effects' = effects \union open[p]
  /\ open' = [open EXCEPT ![p] = {}]
  /\ pc' = [pc EXCEPT ![p] = "record"]
  /\ UNCHANGED <<recorded, applied, file, stmt, torn, crashes>>

(* runWithoutTx: every statement takes effect by itself.                   *)
RunWithoutTx(p) ==
  /\ pc[p] = "exec" /\ file[p] \in NoTx
  /\ MayExecute(p)
  /\ effects' = effects \union {Current(p)}
  /\ stmt' = [stmt EXCEPT ![p] = @ + 1]
  /\ pc' = [pc EXCEPT ![p] = IF AtLast(p) THEN "record" ELSE "exec"]
  /\ UNCHANGED <<open, recorded, applied, file, torn, crashes>>

(* The insert into schema_migrations; a version that is there already is   *)
(* a unique_violation, and fine too.                                       *)
Record(p) ==
  /\ pc[p] = "record"
  /\ recorded' = recorded \union {file[p]}
  /\ file' = [file EXCEPT ![p] = @ + 1]
  /\ pc' = [pc EXCEPT ![p] = "file"]
  /\ UNCHANGED <<effects, applied, stmt, open, torn, crashes>>

(* p has executed some but not all of f, a file without a transaction.     *)
AmidNoTx(p, f) == f \in NoTx /\ file[p] = f /\ pc[p] = "exec" /\ stmt[p] > 1

(* The process dies, or any call fails with another error (the context of  *)
(* the migration expires, the connection breaks) and the service exits.    *)
(* Its transaction is rolled back; it is started again and runs Run again. *)
Crash(p) ==
  /\ crashes < MaxCrashes
  /\ crashes' = crashes + 1
  /\ pc' = [pc EXCEPT ![p] = "start"]
  /\ open' = [open EXCEPT ![p] = {}]
  /\ torn' = IF AmidNoTx(p, file[p]) THEN torn \union {file[p]} ELSE torn
  /\ UNCHANGED <<effects, recorded, applied, file, stmt>>

-----------------------------------------------------------------------------
Run(p) ==
  \/ Start(p) \/ NextFile(p) \/ Duplicate(p) \/ RunInTx(p) \/ Commit(p)
  \/ RunWithoutTx(p) \/ Record(p)

(* Every service has started.                                              *)
Settled ==
  /\ \A p \in Process : pc[p] = "returned"
  /\ UNCHANGED vars

Next == (\E p \in Process : Run(p) \/ Crash(p)) \/ Settled

Spec == Init /\ [][Next]_vars

(* A started process goes on: Postgres grants a lock once it is free.      *)
FairSpec == Spec /\ \A p \in Process : WF_vars(Run(p))

-----------------------------------------------------------------------------
(* A version in schema_migrations is in effect to its last statement, so   *)
(* that skipping it is right: whatever died, raced or was skipped before,  *)
(* nobody recorded a file it did not apply itself.                         *)
RecordedIsComplete == \A f \in recorded : Complete(f)

(* A process goes on to the next file, and its service to work, only with  *)
(* everything before in effect, although it may have skipped files because *)
(* of an error: the race is harmless.  Not so for files without a          *)
(* transaction: there the winner may still be at it, and what a process    *)
(* that died left out is never made up for.                                *)
MovedOnIsApplied ==
  \A p \in Process : pc[p] # "start" =>
    \A f \in 1..(file[p] - 1) : Complete(f) \/ f \in torn \/ \E q \in Process : AmidNoTx(q, f)

(* Every start-up gets through, also over files that were applied but not  *)
(* recorded: no two processes wait for each other's tables for ever.       *)
RunsReturn == \A p \in Process : <>[](pc[p] = "returned")
=============================================================================
