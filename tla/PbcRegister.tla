---------------------------- MODULE PbcRegister ----------------------------
(***************************************************************************)
(* Filling a protobuf environment: init_pbc_env_with_dir gathers the .pb   *)
(* files of a directory, in the order readdir has them, into one descriptor*)
(* set, and pbc_register registers its files in passes, those first whose  *)
(* dependencies are known.  A step is one directory entry or one file of a *)
(* pass.                                                                   *)
(***************************************************************************)
EXTENDS Integers, Sequences, FiniteSets

CONSTANTS
  Names,         \* names of .proto files
  Types,         \* names of message and enum types
  Enums,         \* those of them that are enums
  Builtin,       \* the descriptor file pbc_new fills an environment with
  Directories,   \* possible contents of a directory: sets of entries
  Sets,          \* descriptor sets pbc_register is called with directly
  BufferSize,    \* size of the buffer of init_pbc_env_with_dir
  StackLens,     \* what all_files.len may hold when nothing has set it
  MaxCalls       \* bound: calls of the application

(* A file in a descriptor set: its name, what it imports, what it defines, *)
(* and the types its fields have.                                          *)
Descs == [name : Names, deps : SUBSET Names, defs : SUBSET Types, uses : SUBSET Types]

ASSUME NamesAssumption == Builtin \in Names /\ Enums \subseteq Types

(* Nobody registers the descriptor file a second time. *)
ASSUME BuiltinAssumption ==
  /\ \A s \in Sets : \A j \in DOMAIN s : s[j].name # Builtin
  /\ \A dir \in Directories : \A e \in dir : \A j \in DOMAIN e.descs : e.descs[j].name # Builtin
ASSUME SetsAssumption == Sets \subseteq Seq(Descs)
ASSUME DirectoriesAssumption ==
  \A dir \in Directories : \A e \in dir :
    /\ {"pb", "readable", "good", "size", "descs"} \subseteq DOMAIN e
    /\ e.size \in Nat /\ e.descs \in Seq(Descs)
ASSUME StackLensAssumption == StackLens \subseteq {"zero", "wild"}
ASSUME BoundsAssumption == BufferSize \in Nat /\ MaxCalls \in Nat

VARIABLES
  files,        \* p->files: the files it has a pointer for
  msgs,         \* p->msgs and p->enums: the types known
  unresolved,   \* types of fields that were looked up and not found
  entries, len, good, total_registered_file,    \* init_pbc_env_with_dir
  set, left, i, r, rr,     \* pbc_register: the files, those not yet NULL, loop variables
  pc, fromDir,  \* where the call is, and whether the directory loader made it
  rc,           \* the last value returned to the application
  calls,
  before, taken,  \* history: p->files at the call of pbc_register, the files registered by it
  outcome         \* history: how it ended, until the next call

envVars  == <<files, msgs, unresolved>>
scanVars == <<entries, len, good, total_registered_file>>
regVars  == <<set, left, i, r, rr>>
history == <<before, taken, outcome>>
vars == <<envVars, scanVars, regVars, pc, fromDir, rc, calls, history>>

(* _pbcB_init enters the descriptor file with a null pointer, which no     *)
(* look-up tells from a file that is not there: not even Builtin is known. *)
Init ==
  /\ files = {} /\ msgs = {} /\ unresolved = {}
  /\ entries = {} /\ len = 0 /\ good = TRUE /\ total_registered_file = 0
  /\ set = <<>> /\ left = {} /\ i = 1 /\ r = 0 /\ rr = 0
  /\ pc = "idle" /\ fromDir = FALSE /\ rc = 0 /\ calls = 0
  /\ before = {} /\ taken = {} /\ outcome = "none"

----------------------------------------------------------------------------
(* pbc_new *)
PbcNew ==
  /\ pc = "idle" /\ calls < MaxCalls
  /\ calls' = calls + 1
  /\ files' = {} /\ msgs' = {} /\ unresolved' = {}
  /\ before' = {} /\ taken' = {} /\ outcome' = "none"
  /\ UNCHANGED <<scanVars, regVars, pc, fromDir, rc>>

(* The locals of a pbc_register that has not started. *)
NoPass == left' = {} /\ i' = 1 /\ r' = 0 /\ rr' = 0

(* init_pbc_env_with_dir up to the first readdir.  len is never set.       *)
InitPbcEnvWithDir(dir) ==
  /\ pc = "idle" /\ calls < MaxCalls
  /\ calls' = calls + 1
  /\ \E stack \in StackLens : pc' = IF stack = "zero" THEN "scan" ELSE "wild"
  /\ entries' = dir /\ len' = 0 /\ good' = TRUE /\ total_registered_file' = 0
  /\ set' = <<>> /\ fromDir' = TRUE /\ outcome' = "none"
  /\ NoPass
  /\ UNCHANGED <<envVars, rc, before, taken>>

OpenDirFails ==
  /\ pc = "idle" /\ calls < MaxCalls
  /\ calls' = calls + 1
  /\ rc' = -1 /\ outcome' = "none"
  /\ UNCHANGED <<envVars, scanVars, regVars, pc, fromDir, before, taken>>

(* One readdir: a file that cannot be read is an empty one.                *)
ReadEntry(e) ==
  /\ pc = "scan"
  /\ e \in entries
  /\ entries' = entries \ {e}
  /\ \/ /\ ~e.pb
        /\ UNCHANGED <<len, good, total_registered_file, set, pc>>
     \/ /\ e.pb /\ ~e.readable
        /\ total_registered_file' = total_registered_file + 1
        /\ UNCHANGED <<len, good, set, pc>>
     \/ /\ e.pb /\ e.readable
        /\ len' = len + e.size
        /\ pc' = IF len' > BufferSize THEN "wild" ELSE pc
        /\ set' = set \o e.descs
        /\ good' = (good /\ e.good)
        /\ total_registered_file' = total_registered_file + 1
  /\ UNCHANGED <<envVars, left, i, r, rr, fromDir, rc, calls, history>>

EndOfDir ==
  /\ pc = "scan" /\ entries = {}
  /\ pc' = "open"
  /\ UNCHANGED <<envVars, scanVars, regVars, fromDir, rc, calls, history>>

----------------------------------------------------------------------------
(* pbc_register *)

Register(s) ==
  /\ pc = "idle" /\ calls < MaxCalls
  /\ calls' = calls + 1
  /\ set' = s /\ good' = TRUE /\ fromDir' = FALSE /\ outcome' = "none"
  /\ pc' = "open"
  /\ NoPass
  /\ UNCHANGED <<envVars, entries, len, total_registered_file, rc, before, taken>>

(* The value of pbc_register, and through it of the directory loader. *)
Returns(how) ==
  /\ pc' = "idle" /\ outcome' = how
  /\ rc' = CASE fromDir /\ how = "ok"    -> total_registered_file
             [] fromDir /\ how # "ok"    -> -1
             [] ~fromDir /\ how = "ok"   -> 0
             [] ~fromDir /\ how # "ok"   -> 1

(* The set is decoded; a set that is not well formed, or empty, is refused.*)
OpenSet ==
  /\ pc = "open"
  /\ before' = files /\ taken' = {}
  /\ \/ /\ ~good \/ set = <<>>
        /\ Returns("refused")
        /\ UNCHANGED <<left, i, r, rr>>
     \/ /\ good /\ set # <<>>
        /\ left' = DOMAIN set /\ i' = 1 /\ r' = Len(set) /\ rr' = 0
        /\ pc' = "pass"
        /\ UNCHANGED <<rc, outcome>>
  /\ UNCHANGED <<envVars, scanVars, set, fromDir, calls>>

(* _check_file_name; as a mutant, no dependency looked at *)
Exists(d) == d.name \in files
BlockedNever(d) == FALSE
Blocked(d) == \E dep \in d.deps : dep \notin files

(* _pbcP_push_enum, _pbcP_push_message, _pbcP_init_message: a type that is  *)
(* known already keeps its entry.                                          *)
Enter(d) == msgs \cup d.defs

(* _pbcB_register_fields: the types of fields that are not found.          *)
NotFound(d, known) == d.uses \ known

(* _register: the types are entered, then those of the fields looked up.   *)
(* The default of an enum field is taken from its type at once.            *)
RegisterFile(d) ==
  /\ files' = files \cup {d.name}
  /\ msgs' = Enter(d)
  /\ unresolved' = unresolved \cup NotFound(d, msgs')
  /\ taken' = taken \cup {d}
  /\ pc' = IF NotFound(d, msgs') \cap Enums # {} THEN "nullderef" ELSE pc

(* One round of the loop of _register_no_dependency. *)
CheckFile ==
  /\ pc = "pass" /\ i <= Len(set)
  /\ i' = i + 1
  /\ \/ /\ i \notin left \/ Exists(set[i])
        /\ UNCHANGED <<envVars, left, rr, pc, taken>>
     \/ /\ i \in left /\ ~Exists(set[i]) /\ Blocked(set[i])
        /\ rr' = rr + 1
        /\ UNCHANGED <<envVars, left, pc, taken>>
     \/ /\ i \in left /\ ~Exists(set[i]) /\ ~Blocked(set[i])
        /\ RegisterFile(set[i])
        /\ left' = left \ {i}
        /\ UNCHANGED rr
  /\ UNCHANGED <<scanVars, set, r, fromDir, rc, calls, before, outcome>>

(* rr == r; as mutants, never noticed, and a pass that registers fewer     *)
(* than half taken for a stuck one                                         *)
StuckNever == FALSE
StuckEarly == 2 * rr >= r
Stuck == rr = r

(* Every pass counts anew; as a mutant, it goes on counting. *)
FreshCountKept == rr
FreshCount == 0

EndOfPass ==
  /\ pc = "pass" /\ i > Len(set)
  /\ \/ /\ Stuck
        /\ Returns("stuck")
        /\ UNCHANGED <<i, r, rr>>
     \/ /\ ~Stuck /\ rr > 0
        /\ r' = rr /\ rr' = FreshCount /\ i' = 1
        /\ UNCHANGED <<pc, rc, outcome>>
     \/ /\ ~Stuck /\ rr = 0
        /\ Returns("ok")
        /\ UNCHANGED <<i, r, rr>>
  /\ UNCHANGED <<envVars, scanVars, set, left, fromDir, calls, before, taken>>

----------------------------------------------------------------------------
Scan == (\E e \in entries : ReadEntry(e)) \/ EndOfDir
Registration == OpenSet \/ CheckFile \/ EndOfPass

Next ==
  \/ PbcNew \/ OpenDirFails
  \/ \E dir \in Directories : InitPbcEnvWithDir(dir)
  \/ \E s \in Sets : Register(s)
  \/ Scan \/ Registration

Spec == Init /\ [][Next]_vars

(* A call that was made runs. *)
FairSpec == Spec /\ WF_vars(Scan \/ Registration)

----------------------------------------------------------------------------
EnvTypeOK ==
  /\ files \subseteq Names /\ msgs \subseteq Types /\ unresolved \subseteq Types
  /\ before \subseteq Names /\ taken \subseteq Descs

ScanTypeOK ==
  /\ \E dir \in Directories \cup {{}} : entries \subseteq dir
  /\ len \in Nat /\ total_registered_file \in Nat

PassTypeOK ==
  /\ set \in Seq(Descs) /\ left \subseteq DOMAIN set
  /\ i \in 1..(Len(set) + 1) /\ r \in 0..Len(set) /\ rr \in 0..(i - 1)

StageTypeOK ==
  /\ pc \in {"idle", "scan", "open", "pass", "wild", "nullderef"}
  /\ outcome \in {"none", "refused", "ok", "stuck"}

TypeOK == EnvTypeOK /\ ScanTypeOK /\ PassTypeOK /\ StageTypeOK

(* A set of files that with a file of the descriptor set knows all its     *)
(* dependencies also holds that file.                                      *)
ClosedUnder(known, s) == \A j \in DOMAIN s : s[j].deps \subseteq known => s[j].name \in known

(* No file is registered before the files it imports, in whatever order    *)
(* the set has them.                                                       *)
DepsRegistered == \A d \in taken : d.deps \subseteq files /\ d.name \in files

(* When pbc_register has gone through its passes it has registered exactly *)
(* what can be registered: the least set that holds what was known before  *)
(* and every file whose imports it holds; it reports success exactly when  *)
(* that is all of them.  It does not give up while a pass makes progress.  *)
(* A file that imports the descriptor file is never among them.            *)
RegistersClosure ==
  outcome \in {"ok", "stuck"} =>
    /\ ClosedUnder(files, set)
    /\ \A known \in SUBSET Names :
         before \subseteq known /\ ClosedUnder(known, set) => files \subseteq known
    /\ outcome = "ok" <=> \A j \in DOMAIN set : set[j].name \in files

(* Between two files of a pass.  The files unregistered when the pass began*)
(* are among `start`, no more than r; those of them met so far are `met`,  *)
(* unless they have been registered since; and if all met ones are, nothing*)
(* has been registered in this pass.                                       *)
PassOf(met, start) ==
  /\ met \subseteq start
  /\ Cardinality(met) = rr /\ Cardinality(start) <= r
  /\ \A j \in DOMAIN set : set[j].name \notin files => j \in start /\ (j < i => j \in met)
  /\ (\A j \in start : j < i => j \in met)
       => \A j \in met : set[j].name \notin files /\ ~(set[j].deps \subseteq files)

(* The inductive invariant. *)
RegInv ==
  /\ TypeOK
  /\ pc # "idle" => outcome = "none"
  /\ DepsRegistered
  /\ pc = "pass" =>
       /\ r > 0
       /\ \A j \in DOMAIN set : j \notin left => set[j].name \in files
       /\ \A known \in SUBSET Names :
            before \subseteq known /\ ClosedUnder(known, set) => files \subseteq known
       /\ \E start \in SUBSET DOMAIN set : \E met \in SUBSET (1..(i - 1)) : PassOf(met, start)
  /\ RegistersClosure

(* The files the application comes with.  They are self-contained if no two*)
(* of them share a name and each uses only types that it or one of its     *)
(* imports defines.                                                        *)
Offered == UNION {{s[j] : j \in DOMAIN s} :
                    s \in Sets \cup {e.descs : e \in UNION Directories}}
SelfContained ==
  \A d \in Offered :
    /\ \A e \in Offered : e.name = d.name => e = d
    /\ \A t \in d.uses : t \in d.defs \/ \E e \in Offered : e.name \in d.deps /\ t \in e.defs

(* Of self-contained files, in whatever order they come and whichever of   *)
(* them are missing, every field finds its type, and no enum field has to  *)
(* take its default from a type that is not there.                         *)
TypesResolved == unresolved = {} /\ pc # "nullderef"

(* Every call returns, also for files that import each other. *)
CallReturns == pc \in {"scan", "open", "pass"} ~> pc \in {"idle", "wild", "nullderef"}
=============================================================================
