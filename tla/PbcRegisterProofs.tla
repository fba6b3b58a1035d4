------------------------- MODULE PbcRegisterProofs -------------------------
(***************************************************************************)
(* Proofs about PbcRegister, for every descriptor set and directory: the   *)
(* passes of pbc_register register exactly the files whose imports can be  *)
(* had, imports first.                                                     *)
(***************************************************************************)
EXTENDS PbcRegister, FiniteSetTheorems, TLAPS

(* The positions of a descriptor set, and how many there are. *)
LEMMA Positions ==
  ASSUME NEW s \in Seq(Descs)
  PROVE  /\ Len(s) \in Nat /\ DOMAIN s = 1..Len(s)
         /\ IsFiniteSet(DOMAIN s) /\ Cardinality(DOMAIN s) = Len(s)
         /\ \A j \in DOMAIN s : s[j] \in Descs
<1>1. Len(s) \in Nat /\ DOMAIN s = 1..Len(s) /\ \A j \in DOMAIN s : s[j] \in Descs
  OBVIOUS
<1> QED BY <1>1, FS_Interval

(* What a file of a set is made of. *)
LEMMA DescFields ==
  ASSUME NEW d \in Descs
  PROVE  /\ d.name \in Names /\ d.deps \subseteq Names
         /\ d.defs \subseteq Types /\ d.uses \subseteq Types
BY DEF Descs

(* The files of a directory entry are descriptors. *)
LEMMA EntryType ==
  ASSUME ScanTypeOK, NEW e \in entries
  PROVE  e.size \in Nat /\ e.descs \in Seq(Descs)
BY DirectoriesAssumption DEF ScanTypeOK

----------------------------------------------------------------------------
LEMMA InitType == Init => TypeOK
<1> SUFFICES ASSUME Init PROVE TypeOK
  OBVIOUS
<1>1. PassTypeOK
  <2>1. set \in Seq(Descs) /\ Len(set) = 0 /\ left \subseteq DOMAIN set
    BY DEF Init
  <2> QED BY <2>1 DEF Init, PassTypeOK
<1>2. ScanTypeOK
  BY DEF Init, ScanTypeOK
<1> QED BY <1>1, <1>2, NamesAssumption DEF Init, TypeOK, EnvTypeOK, StageTypeOK

(* Every step keeps the types. *)
LEMMA StepType == TypeOK /\ [Next]_vars => TypeOK'
<1> SUFFICES ASSUME TypeOK, [Next]_vars PROVE TypeOK'
  OBVIOUS
<1> USE DEF TypeOK, envVars, scanVars, regVars
<1>1. CASE PbcNew
  BY <1>1, NamesAssumption
  DEF PbcNew, EnvTypeOK, ScanTypeOK, PassTypeOK, StageTypeOK
<1>2. CASE OpenDirFails
  BY <1>2 DEF OpenDirFails, EnvTypeOK, ScanTypeOK, PassTypeOK, StageTypeOK
<1>3. ASSUME NEW dir \in Directories, InitPbcEnvWithDir(dir) PROVE TypeOK'
  <2>1. PassTypeOK'
    <3>1. set' \in Seq(Descs) /\ Len(set') = 0 /\ left' \subseteq DOMAIN set'
      BY <1>3 DEF InitPbcEnvWithDir, NoPass
    <3> QED BY <1>3, <3>1 DEF InitPbcEnvWithDir, NoPass, PassTypeOK
  <2>2. ScanTypeOK'
    BY <1>3 DEF InitPbcEnvWithDir, ScanTypeOK
  <2>3. EnvTypeOK' /\ StageTypeOK'
    BY <1>3 DEF InitPbcEnvWithDir, EnvTypeOK, StageTypeOK
  <2> QED BY <2>1, <2>2, <2>3
<1>4. ASSUME NEW s \in Sets, Register(s) PROVE TypeOK'
  <2>1. PassTypeOK'
    <3>1. set' \in Seq(Descs) /\ Len(set') \in Nat /\ left' \subseteq DOMAIN set'
      BY <1>4, SetsAssumption, Positions DEF Register, NoPass
    <3> QED BY <1>4, <3>1 DEF Register, NoPass, PassTypeOK
  <2>2. ScanTypeOK' /\ EnvTypeOK' /\ StageTypeOK'
    BY <1>4 DEF Register, ScanTypeOK, EnvTypeOK, StageTypeOK
  <2> QED BY <2>1, <2>2
<1>5. ASSUME NEW e \in entries, ReadEntry(e) PROVE TypeOK'
  <2>1. e.size \in Nat /\ e.descs \in Seq(Descs) /\ set \in Seq(Descs)
    BY EntryType DEF PassTypeOK
  <2>2. /\ set' = set \/ set' = set \o e.descs
        /\ len' = len \/ len' = len + e.size
        /\ \/ total_registered_file' = total_registered_file
           \/ total_registered_file' = total_registered_file + 1
        /\ pc' = pc \/ pc' = "wild"
        /\ entries' = entries \ {e}
        /\ UNCHANGED <<files, msgs, unresolved, before, taken, left, i, r, rr, outcome>>
    BY <1>5, Zenon DEF ReadEntry, history
  <2>3. PassTypeOK'
    <3>1. set \o e.descs \in Seq(Descs) /\ Len(set \o e.descs) = Len(set) + Len(e.descs)
      BY <2>1
    <3>2. Len(set) \in Nat /\ Len(e.descs) \in Nat
      BY <2>1, Positions
    <3>3. set' \in Seq(Descs) /\ Len(set') \in Nat /\ Len(set') >= Len(set)
      <4>1. CASE set' = set
        BY <4>1, <2>1, <3>2
      <4>2. CASE set' = set \o e.descs
        <5>1. Len(set \o e.descs) \in Nat /\ Len(set \o e.descs) >= Len(set)
          BY <3>1, <3>2
        <5> QED BY <4>2, <5>1, <3>1
      <4> QED BY <4>1, <4>2, <2>2
    <3>4. left' \subseteq DOMAIN set'
      <4>1. DOMAIN set = 1..Len(set) /\ DOMAIN set' = 1..Len(set')
        BY <2>1, <3>3, Positions
      <4>2. left \subseteq 1..Len(set) /\ left' = left
        BY <2>2, <4>1 DEF PassTypeOK
      <4>3. 1..Len(set) \subseteq 1..Len(set')
        BY <3>2, <3>3
      <4> QED BY <4>1, <4>2, <4>3
    <3>5. i' \in 1..(Len(set') + 1) /\ r' \in 0..Len(set') /\ rr' \in 0..(i' - 1)
      BY <2>2, <3>2, <3>3 DEF PassTypeOK
    <3> QED BY <3>3, <3>4, <3>5 DEF PassTypeOK
  <2>4. ScanTypeOK'
    <3>1. entries' \subseteq entries /\ len' \in Nat /\ total_registered_file' \in Nat
      BY <2>1, <2>2 DEF ScanTypeOK
    <3> QED BY <3>1 DEF ScanTypeOK
  <2>5. EnvTypeOK' /\ StageTypeOK'
    BY <2>2 DEF EnvTypeOK, StageTypeOK
  <2> QED BY <2>3, <2>4, <2>5
<1>6. CASE EndOfDir
  BY <1>6 DEF EndOfDir, history, EnvTypeOK, ScanTypeOK, PassTypeOK, StageTypeOK
<1>7. CASE OpenSet
  <2>1. Len(set) \in Nat /\ UNCHANGED set
    BY <1>7, Positions DEF OpenSet, PassTypeOK
  <2>2. PassTypeOK'
    BY <1>7, <2>1 DEF OpenSet, PassTypeOK
  <2>3. ScanTypeOK' /\ EnvTypeOK' /\ StageTypeOK'
    BY <1>7 DEF OpenSet, Returns, ScanTypeOK, EnvTypeOK, StageTypeOK
  <2> QED BY <2>2, <2>3
<1>8. CASE CheckFile
  <2>1. Len(set) \in Nat /\ i \in DOMAIN set /\ set[i] \in Descs
    BY <1>8, Positions DEF CheckFile, PassTypeOK
  <2>2. /\ set[i].name \in Names /\ set[i].defs \subseteq Types
        /\ set[i].uses \subseteq Types
    BY <2>1, DescFields
  <2>3. PassTypeOK'
    BY <1>8, <2>1 DEF CheckFile, PassTypeOK
  <2>4. EnvTypeOK'
    BY <1>8, <2>1, <2>2 DEF CheckFile, RegisterFile, Enter, NotFound, EnvTypeOK
  <2>5. ScanTypeOK' /\ StageTypeOK'
    BY <1>8 DEF CheckFile, RegisterFile, ScanTypeOK, StageTypeOK
  <2> QED BY <2>3, <2>4, <2>5
<1>9. CASE EndOfPass
  <2>1. PassTypeOK'
    BY <1>9, Positions DEF EndOfPass, FreshCount, PassTypeOK
  <2>2. ScanTypeOK' /\ EnvTypeOK' /\ StageTypeOK'
    BY <1>9 DEF EndOfPass, Returns, ScanTypeOK, EnvTypeOK, StageTypeOK
  <2> QED BY <2>1, <2>2
<1>10. CASE UNCHANGED vars
  BY <1>10 DEF vars, history, EnvTypeOK, ScanTypeOK, PassTypeOK, StageTypeOK
<1> QED
  BY <1>1, <1>2, <1>3, <1>4, <1>5, <1>6, <1>7, <1>8, <1>9, <1>10
  DEF Next, Scan, Registration

(* Every reachable state of the registration is well typed. *)
THEOREM RegisterTypeOK == Spec => []TypeOK
BY InitType, StepType, PTL DEF Spec

----------------------------------------------------------------------------
(* The parts of the invariant about a pass in progress. *)
LeftRegistered == \A j \in DOMAIN set : j \notin left => set[j].name \in files
Least ==
  \A known \in SUBSET Names :
    before \subseteq known /\ ClosedUnder(known, set) => files \subseteq known
Passing == \E start \in SUBSET DOMAIN set : \E met \in SUBSET (1..(i - 1)) : PassOf(met, start)

LEMMA RegInvParts ==
  RegInv <=> /\ TypeOK
             /\ pc # "idle" => outcome = "none"
             /\ DepsRegistered
             /\ pc = "pass" => r > 0 /\ LeftRegistered /\ Least /\ Passing
             /\ RegistersClosure
BY Zenon DEF RegInv, LeftRegistered, Least, Passing

LEMMA RegInvInit == Init => RegInv
<1> SUFFICES ASSUME Init PROVE RegInv
  OBVIOUS
<1>1. TypeOK
  BY InitType
<1>2. pc = "idle" /\ outcome = "none" /\ taken = {}
  BY DEF Init
<1>3. RegistersClosure /\ DepsRegistered
  BY <1>2 DEF RegistersClosure, DepsRegistered
<1> QED BY <1>1, <1>2, <1>3, RegInvParts

(* A step that leaves no pass in progress and no result of one.            *)
LEMMA NoPassInv ==
  ASSUME TypeOK', pc' # "pass", outcome' \in {"none", "refused"},
         pc' # "idle" => outcome' = "none", DepsRegistered'
  PROVE  RegInv'
<1>1. RegistersClosure'
  BY DEF RegistersClosure
<1> QED BY <1>1 DEF RegInv

(* The descriptor set is opened: nothing has been registered yet.          *)
LEMMA OpenSetInv == RegInv /\ OpenSet => RegInv'
<1> SUFFICES ASSUME RegInv, OpenSet PROVE RegInv'
  OBVIOUS
<1>1. TypeOK /\ TypeOK'
  BY StepType DEF RegInv, Next, Registration
<1>2. DepsRegistered'
  BY DEF OpenSet, DepsRegistered
<1>3. CASE pc' = "idle"
  BY <1>1, <1>2, <1>3, NoPassInv DEF OpenSet, Returns
<1>4. CASE pc' # "idle"
  <2>1. /\ pc' = "pass" /\ set # <<>> /\ set' = set /\ left' = DOMAIN set
        /\ i' = 1 /\ r' = Len(set) /\ rr' = 0
        /\ before' = files /\ files' = files /\ outcome' = outcome
    BY <1>4 DEF OpenSet, Returns, envVars
  <2>2. outcome' = "none" /\ set \in Seq(Descs)
    BY <2>1, <1>1 DEF RegInv, OpenSet, TypeOK, PassTypeOK
  <2>3. r' > 0
    BY <2>1, <2>2
  <2>4. LeftRegistered' /\ Least'
    BY <2>1 DEF LeftRegistered, Least
  <2>5. Passing'
    <3>1. Cardinality(DOMAIN set) = Len(set) /\ Cardinality({}) = 0 /\ Len(set) \in Nat
      BY <2>2, Positions, FS_EmptySet
    <3>2. PassOf({}, DOMAIN set)'
      BY <2>1, <2>2, <3>1, Positions DEF PassOf
    <3> QED BY <3>2, <2>1 DEF Passing
  <2>6. RegistersClosure'
    BY <2>2 DEF RegistersClosure
  <2> QED BY <1>1, <1>2, <2>1, <2>2, <2>3, <2>4, <2>5, <2>6 DEF RegInv, LeftRegistered, Least, Passing
<1> QED BY <1>3, <1>4

(* One file of a pass: it is known, or has to wait, or is registered.      *)
LEMMA CheckFileInv == RegInv /\ CheckFile => RegInv'
<1> SUFFICES ASSUME RegInv, CheckFile PROVE RegInv'
  OBVIOUS
<1>1. TypeOK /\ TypeOK'
  BY StepType DEF RegInv, Next, Registration
<1>2. /\ set \in Seq(Descs) /\ i \in DOMAIN set /\ i \in Nat \ {0} /\ i' = i + 1 /\ rr \in Nat
      /\ DOMAIN set \subseteq Nat
      /\ UNCHANGED <<set, r, before, outcome>> /\ pc = "pass" /\ outcome = "none"
  <2>1. set \in Seq(Descs) /\ i \in 1..(Len(set) + 1) /\ rr \in 0..(i - 1)
    BY <1>1 DEF TypeOK, PassTypeOK
  <2>2. pc = "pass" /\ i <= Len(set) /\ i' = i + 1
    BY DEF CheckFile
  <2>3. i \in DOMAIN set /\ i \in Nat \ {0} /\ rr \in Nat /\ DOMAIN set \subseteq Nat
    BY <2>1, <2>2, Positions
  <2> QED BY <2>1, <2>2, <2>3 DEF CheckFile, RegInv, scanVars
<1>3. r > 0 /\ LeftRegistered /\ Least /\ DepsRegistered
  BY <1>2, RegInvParts
<1>4. PICK start \in SUBSET DOMAIN set, met \in SUBSET (1..(i - 1)) : PassOf(met, start)
  BY <1>2, RegInvParts DEF Passing
<1>5. /\ i \notin met /\ IsFiniteSet(met)
      /\ met \subseteq 1..(i' - 1) /\ met \cup {i} \subseteq 1..(i' - 1)
  <2>1. i - 1 \in Int /\ i' - 1 = i /\ i \in 1..i
    BY <1>2
  <2>2. IsFiniteSet(1..(i - 1))
    BY <2>1, FS_Interval
  <2>3. IsFiniteSet(met)
    BY <2>2, FS_Subset
  <2>4. i \notin 1..(i - 1) /\ 1..(i - 1) \subseteq 1..i
    BY <1>2
  <2> QED BY <2>1, <2>3, <2>4
<1>6. CASE i \notin left \/ Exists(set[i])
  <2>1. UNCHANGED <<files, left, rr, pc, taken>>
    BY <1>6 DEF CheckFile, RegisterFile, envVars
  <2>2. set[i].name \in files
    BY <1>2, <1>3, <1>6 DEF LeftRegistered, Exists
  <2>3. PassOf(met, start)'
    BY <1>2, <1>4, <1>5, <2>1, <2>2 DEF PassOf
  <2>4. Passing'
    BY <1>2, <1>5, <2>3 DEF Passing
  <2>5. LeftRegistered' /\ Least' /\ DepsRegistered'
    BY <1>2, <1>3, <2>1 DEF LeftRegistered, Least, DepsRegistered
  <2>6. RegistersClosure'
    BY <1>2 DEF RegistersClosure
  <2> QED BY <1>1, <1>2, <1>3, <2>1, <2>4, <2>5, <2>6
          DEF RegInv, LeftRegistered, Least, Passing
<1>7. CASE i \in left /\ ~Exists(set[i]) /\ Blocked(set[i])
  <2>1. rr' = rr + 1 /\ UNCHANGED <<files, left, pc, taken>>
    BY <1>7 DEF CheckFile, envVars
  <2>2. set[i].name \notin files /\ ~(set[i].deps \subseteq files)
    BY <1>7 DEF Exists, Blocked
  <2> PICK met2 : met2 = met \cup {i}
    OBVIOUS
  <2>3. PassOf(met2, start)'
    <3>1. Cardinality(met2) = Cardinality(met) + 1
      BY <1>5, FS_AddElement
    <3>2. i \in start
      BY <1>2, <1>4, <2>2 DEF PassOf
    <3>3. Cardinality(met2) = rr' /\ Cardinality(start) <= r'
      BY <1>2, <1>4, <2>1, <3>1 DEF PassOf
    <3>4. met2 \subseteq start
      BY <1>4, <3>2 DEF PassOf
    <3>5. \A j \in DOMAIN set :
            set[j].name \notin files => j \in start /\ (j < i + 1 => j \in met2)
      BY <1>2, <1>4 DEF PassOf
    <3>6. (\A j \in start : j < i + 1 => j \in met2)
            => \A j \in met2 : set[j].name \notin files /\ ~(set[j].deps \subseteq files)
      BY <1>2, <1>4, <2>2 DEF PassOf
    <3> QED BY <1>2, <2>1, <3>3, <3>4, <3>5, <3>6 DEF PassOf
  <2>4. Passing'
    BY <1>2, <1>5, <2>3 DEF Passing
  <2>5. LeftRegistered' /\ Least' /\ DepsRegistered'
    BY <1>2, <1>3, <2>1 DEF LeftRegistered, Least, DepsRegistered
  <2>6. RegistersClosure'
    BY <1>2 DEF RegistersClosure
  <2> QED BY <1>1, <1>2, <1>3, <2>1, <2>4, <2>5, <2>6
          DEF RegInv, LeftRegistered, Least, Passing
<1>8. CASE i \in left /\ ~Exists(set[i]) /\ ~Blocked(set[i])
  <2>1. /\ files' = files \cup {set[i].name} /\ taken' = taken \cup {set[i]}
        /\ left' = left \ {i} /\ rr' = rr /\ pc' \in {pc, "nullderef"}
    BY <1>8 DEF CheckFile, RegisterFile
  <2>2. set[i].name \notin files /\ set[i].deps \subseteq files
    BY <1>8 DEF Exists, Blocked
  <2>3. DepsRegistered'
    BY <1>3, <2>1, <2>2 DEF DepsRegistered
  <2>4. CASE pc' # "pass"
    BY <1>1, <1>2, <2>1, <2>3, <2>4, NoPassInv
  <2>5. CASE pc' = "pass"
    <3>1. i \in start /\ i < i'
      BY <1>2, <1>4, <2>2 DEF PassOf
    <3>2. PassOf(met, start)'
      BY <1>2, <1>4, <1>5, <2>1, <3>1 DEF PassOf
    <3>3. Passing'
      BY <1>2, <1>5, <3>2 DEF Passing
    <3>4. LeftRegistered'
      BY <1>2, <1>3, <2>1 DEF LeftRegistered
    <3>5. Least'
      <4> SUFFICES ASSUME NEW known \in SUBSET Names, before \subseteq known,
                          ClosedUnder(known, set)
                   PROVE  files' \subseteq known
        BY <1>2 DEF Least, ClosedUnder
      <4>1. files \subseteq known
        BY <1>3 DEF Least
      <4>2. set[i].name \in known
        BY <1>2, <2>2, <4>1 DEF ClosedUnder
      <4> QED BY <2>1, <4>1, <4>2
    <3>6. RegistersClosure'
      BY <1>2 DEF RegistersClosure
    <3> QED BY <1>1, <1>2, <1>3, <2>3, <2>5, <3>3, <3>4, <3>5, <3>6
            DEF RegInv, LeftRegistered, Least, Passing
  <2> QED BY <2>4, <2>5
<1> QED BY <1>6, <1>7, <1>8

(* The end of a pass: nothing registered in it, everything registered, or  *)
(* one more pass.                                                          *)
LEMMA EndOfPassInv == RegInv /\ EndOfPass => RegInv'
<1> SUFFICES ASSUME RegInv, EndOfPass PROVE RegInv'
  OBVIOUS
<1>1. TypeOK /\ TypeOK'
  BY StepType DEF RegInv, Next, Registration
<1>2. /\ set \in Seq(Descs) /\ DOMAIN set = 1..Len(set) /\ Len(set) \in Nat
      /\ i = Len(set) + 1 /\ rr \in Nat /\ r \in Nat
      /\ UNCHANGED <<files, set, left, before, taken>> /\ pc = "pass" /\ outcome = "none"
  <2>1. set \in Seq(Descs) /\ i \in 1..(Len(set) + 1) /\ rr \in 0..(i - 1) /\ r \in 0..Len(set)
    BY <1>1 DEF TypeOK, PassTypeOK
  <2>2. pc = "pass" /\ i > Len(set)
    BY DEF EndOfPass
  <2>3. Len(set) \in Nat /\ DOMAIN set = 1..Len(set)
    BY <2>1, Positions
  <2> QED BY <2>1, <2>2, <2>3 DEF EndOfPass, RegInv, envVars
<1>3. r > 0 /\ LeftRegistered /\ Least /\ DepsRegistered
  BY <1>2, RegInvParts
<1>4. PICK start \in SUBSET DOMAIN set, met \in SUBSET (1..(i - 1)) : PassOf(met, start)
  BY <1>2, RegInvParts DEF Passing
<1>5. /\ IsFiniteSet(start) /\ IsFiniteSet(met)
      /\ Cardinality(met) = rr /\ Cardinality(start) <= r /\ met \subseteq start
      /\ Cardinality(met) \in Nat /\ Cardinality(start) \in Nat
  <2>1. IsFiniteSet(start)
    BY <1>2, Positions, FS_Subset
  <2>2. IsFiniteSet(met)
    BY <1>4, <2>1, FS_Subset DEF PassOf
  <2> QED BY <1>4, <2>1, <2>2, FS_CardinalityType DEF PassOf
<1>6. \A j \in DOMAIN set : set[j].name \notin files => j \in met
  BY <1>2, <1>4 DEF PassOf
<1>7. DepsRegistered'
  BY <1>2, <1>3 DEF DepsRegistered
<1>8. CASE Stuck
  <2>1. pc' = "idle" /\ outcome' = "stuck"
    BY <1>8 DEF EndOfPass, Returns
  <2>2. start = met
    <3>1. Cardinality(met) <= Cardinality(start)
      BY <1>5, FS_Subset
    <3>2. Cardinality(met) = Cardinality(start)
      BY <1>2, <1>5, <1>8, <3>1 DEF Stuck
    <3> QED BY <1>5, <3>2, FS_Subset
  <2>3. \A j \in met : set[j].name \notin files /\ ~(set[j].deps \subseteq files)
    BY <1>4, <2>2 DEF PassOf
  <2>4. ClosedUnder(files, set)
    BY <1>6, <2>3 DEF ClosedUnder
  <2>5. ~(\A j \in DOMAIN set : set[j].name \in files)
    <3>1. met # {}
      BY <1>3, <1>5, <1>8, FS_EmptySet DEF Stuck
    <3> QED BY <2>3, <2>2, <3>1
  <2>6. RegistersClosure'
    BY <1>2, <1>3, <2>1, <2>4, <2>5 DEF RegistersClosure, Least, ClosedUnder
  <2> QED BY <1>1, <1>7, <2>1, <2>6 DEF RegInv
<1>9. CASE ~Stuck /\ rr > 0
  <2>1. r' = rr /\ rr' = 0 /\ i' = 1 /\ UNCHANGED <<pc, outcome>>
    BY <1>9, <1>2 DEF EndOfPass, FreshCount
  <2>2. LeftRegistered' /\ Least'
    BY <1>2, <1>3 DEF LeftRegistered, Least
  <2>3. Passing'
    <3>1. PassOf({}, met)'
      BY <1>2, <1>5, <1>6, <2>1, FS_EmptySet DEF PassOf
    <3>2. met \in SUBSET DOMAIN set'
      BY <1>2, <1>5
    <3> QED BY <3>1, <3>2, <2>1 DEF Passing
  <2>4. RegistersClosure'
    BY <1>2, <2>1 DEF RegistersClosure
  <2> QED BY <1>1, <1>2, <1>7, <1>9, <2>1, <2>2, <2>3, <2>4
          DEF RegInv, LeftRegistered, Least, Passing
<1>10. CASE ~Stuck /\ rr = 0
  <2>1. pc' = "idle" /\ outcome' = "ok"
    BY <1>10 DEF EndOfPass, Returns
  <2>2. \A j \in DOMAIN set : set[j].name \in files
    BY <1>5, <1>6, <1>10, FS_EmptySet
  <2>3. RegistersClosure'
    BY <1>2, <1>3, <2>1, <2>2 DEF RegistersClosure, Least, ClosedUnder
  <2> QED BY <1>1, <1>7, <2>1, <2>3 DEF RegInv
<1> QED BY <1>2, <1>8, <1>9, <1>10

(* RegInv is inductive. *)
LEMMA RegInvStep == RegInv /\ [Next]_vars => RegInv'
<1> SUFFICES ASSUME RegInv, [Next]_vars PROVE RegInv'
  OBVIOUS
<1>1. TypeOK'
  BY StepType DEF RegInv
<1>2. CASE PbcNew
  <2>1. DepsRegistered' /\ pc' = "idle" /\ outcome' = "none"
    BY <1>2 DEF PbcNew, DepsRegistered
  <2> QED BY <1>1, <2>1, NoPassInv
<1>3. CASE OpenDirFails
  <2>1. DepsRegistered' /\ pc' = "idle" /\ outcome' = "none"
    BY <1>3 DEF OpenDirFails, DepsRegistered, RegInv, envVars
  <2> QED BY <1>1, <2>1, NoPassInv
<1>4. ASSUME NEW dir \in Directories, InitPbcEnvWithDir(dir) PROVE RegInv'
  <2>1. DepsRegistered' /\ pc' \in {"scan", "wild"} /\ outcome' = "none"
    BY <1>4, StackLensAssumption DEF InitPbcEnvWithDir, DepsRegistered, RegInv, envVars
  <2> QED BY <1>1, <2>1, NoPassInv
<1>5. ASSUME NEW s \in Sets, Register(s) PROVE RegInv'
  <2>1. DepsRegistered' /\ pc' = "open" /\ outcome' = "none"
    BY <1>5 DEF Register, DepsRegistered, RegInv, envVars
  <2> QED BY <1>1, <2>1, NoPassInv
<1>6. ASSUME NEW e \in entries, ReadEntry(e) PROVE RegInv'
  <2>1. /\ pc = "scan" /\ (pc' = pc \/ pc' = "wild")
        /\ UNCHANGED <<files, taken, outcome>>
    BY <1>6, Zenon DEF ReadEntry, history, envVars
  <2>2. DepsRegistered' /\ pc' # "pass" /\ pc' # "idle" /\ outcome' = "none"
    BY <1>6, <2>1 DEF DepsRegistered, RegInv, ReadEntry
  <2> QED BY <1>1, <2>2, NoPassInv
<1>7. CASE EndOfDir
  <2>1. DepsRegistered' /\ pc' = "open" /\ outcome' = "none"
    BY <1>7 DEF EndOfDir, DepsRegistered, RegInv, envVars, history
  <2> QED BY <1>1, <2>1, NoPassInv
<1>8. CASE UNCHANGED vars
  <2>1. UNCHANGED <<files, taken, before, set, left, i, r, rr, pc, outcome>>
    BY <1>8 DEF vars, history, envVars, regVars
  <2>2. DepsRegistered' /\ RegistersClosure'
    BY <2>1 DEF RegInv, DepsRegistered, RegistersClosure, ClosedUnder
  <2>3. pc = "pass" => LeftRegistered' /\ Least' /\ Passing'
    BY <2>1, RegInvParts DEF LeftRegistered, Least, Passing, PassOf, ClosedUnder
  <2>4. pc = "pass" => r > 0
    BY RegInvParts
  <2> QED BY <1>1, <2>1, <2>2, <2>3, <2>4 DEF RegInv, LeftRegistered, Least, Passing
<1> QED
  BY <1>2, <1>3, <1>4, <1>5, <1>6, <1>7, <1>8, OpenSetInv, CheckFileInv, EndOfPassInv
  DEF Next, Scan, Registration

THEOREM RegisterInvariant == Spec => []RegInv
BY RegInvInit, RegInvStep, PTL DEF Spec

(* Whatever the order of the files in a descriptor set, pbc_register       *)
(* registers the imports of a file before the file.                        *)
THEOREM ImportsFirst == Spec => []DepsRegistered
<1>1. RegInv => DepsRegistered
  BY DEF RegInv
<1> QED BY <1>1, RegisterInvariant, PTL

(* When pbc_register is done with its passes it has registered the least   *)
(* set of files closed under the descriptor set, and it reports success    *)
(* exactly when that is every file of the set: a pass that finds as many   *)
(* waiting files as the one before has registered none, and none is left   *)
(* that could be.                                                          *)
THEOREM RegistrationComplete == Spec => []RegistersClosure
<1>1. RegInv => RegistersClosure
  BY DEF RegInv
<1> QED BY <1>1, RegisterInvariant, PTL

----------------------------------------------------------------------------
(* What is in the descriptor set was offered, and the types of a file that *)
(* is known are known.                                                     *)
FromOffered(s) == \A j \in DOMAIN s : s[j] \in Offered
Resolved ==
  /\ TypeOK
  /\ entries \subseteq UNION Directories /\ FromOffered(set)
  /\ \A d \in Offered : d.name \in files => d.defs \subseteq msgs
  /\ TypesResolved

LEMMA ResolvedInit == Init => Resolved
<1> SUFFICES ASSUME Init PROVE Resolved
  OBVIOUS
<1>1. set = <<>> /\ files = {} /\ unresolved = {} /\ pc = "idle" /\ entries = {}
  BY DEF Init
<1>2. FromOffered(set)
  BY <1>1 DEF FromOffered
<1>3. QED
  BY <1>1, <1>2, InitType DEF Resolved, TypesResolved

(* One more file of the directory: what it holds was offered. *)
LEMMA ReadEntryResolved ==
  ASSUME Resolved, NEW e \in entries, ReadEntry(e), TypeOK'
  PROVE  Resolved'
<1>1. /\ set' = set \/ set' = set \o e.descs
      /\ entries' = entries \ {e} /\ pc' \in {pc, "wild"}
      /\ UNCHANGED <<files, msgs, unresolved>>
  BY Zenon DEF ReadEntry, envVars
<1>2. e \in UNION Directories
  BY DEF Resolved
<1>3. e.descs \in Seq(Descs) /\ set \in Seq(Descs)
  BY EntryType DEF Resolved, TypeOK, PassTypeOK
<1>4. \A j \in DOMAIN e.descs : e.descs[j] \in Offered
  BY <1>2 DEF Offered
<1>5. FromOffered(set \o e.descs)
  <2> SUFFICES ASSUME NEW j \in DOMAIN (set \o e.descs) PROVE (set \o e.descs)[j] \in Offered
    BY DEF FromOffered
  <2>1. /\ DOMAIN set = 1..Len(set) /\ DOMAIN e.descs = 1..Len(e.descs)
        /\ Len(set) \in Nat /\ Len(e.descs) \in Nat
        /\ DOMAIN (set \o e.descs) = 1..(Len(set) + Len(e.descs))
    BY <1>3
  <2>2. CASE j <= Len(set)
    <3>1. j \in DOMAIN set /\ (set \o e.descs)[j] = set[j]
      BY <1>3, <2>1, <2>2
    <3>2. QED
      BY <3>1 DEF Resolved, FromOffered
  <2>3. CASE j > Len(set)
    <3>1. j - Len(set) \in DOMAIN e.descs /\ (set \o e.descs)[j] = e.descs[j - Len(set)]
      BY <1>3, <2>1, <2>3
    <3>2. QED
      BY <1>4, <3>1
  <2>4. QED
    BY <2>1, <2>2, <2>3
<1>6. FromOffered(set')
  BY <1>1, <1>5 DEF Resolved
<1>7. TypesResolved'
  BY <1>1 DEF Resolved, TypesResolved
<1>8. QED
  BY <1>1, <1>6, <1>7 DEF Resolved

(* A file is registered: the types it uses are its own or those of imports *)
(* that are known already.                                                 *)
LEMMA CheckFileResolved ==
  ASSUME SelfContained, Resolved, CheckFile, TypeOK'
  PROVE  Resolved'
<1>1. UNCHANGED <<entries, set>> /\ pc = "pass" /\ set[i] \in Offered
  <2>1. UNCHANGED <<entries, set>> /\ pc = "pass" /\ i <= Len(set)
    BY DEF CheckFile, scanVars
  <2>2. i \in DOMAIN set
    BY <2>1 DEF Resolved, TypeOK, PassTypeOK
  <2>3. QED
    BY <2>1, <2>2 DEF Resolved, FromOffered
<1>2. CASE UNCHANGED <<envVars, pc>>
  BY <1>1, <1>2 DEF Resolved, FromOffered, TypesResolved, envVars
<1>3. CASE ~Blocked(set[i]) /\ RegisterFile(set[i])
  <2>1. /\ files' = files \cup {set[i].name} /\ msgs' = msgs \cup set[i].defs
        /\ unresolved' = unresolved \cup (set[i].uses \ msgs')
        /\ pc' = IF (set[i].uses \ msgs') \cap Enums # {} THEN "nullderef" ELSE pc
    BY <1>3 DEF RegisterFile, Enter, NotFound
  <2>2. set[i].uses \subseteq msgs'
    <3> SUFFICES ASSUME NEW t \in set[i].uses, t \notin set[i].defs PROVE t \in msgs
      BY <2>1
    <3>1. PICK e \in Offered : e.name \in set[i].deps /\ t \in e.defs
      BY <1>1 DEF SelfContained
    <3>2. e.name \in files
      BY <1>3, <3>1 DEF Blocked
    <3>3. QED
      BY <3>1, <3>2 DEF Resolved
  <2>3. TypesResolved'
    BY <1>1, <2>1, <2>2 DEF Resolved, TypesResolved
  <2>4. \A d \in Offered : d.name \in files' => d.defs \subseteq msgs'
    <3> SUFFICES ASSUME NEW d \in Offered, d.name \in files' PROVE d.defs \subseteq msgs'
      OBVIOUS
    <3>1. d.name = set[i].name => d = set[i]
      BY <1>1 DEF SelfContained
    <3>2. d.name \in files => d.defs \subseteq msgs
      BY DEF Resolved
    <3>3. QED
      BY <2>1, <3>1, <3>2
  <2>5. QED
    BY <1>1, <2>3, <2>4 DEF Resolved, FromOffered
<1>4. QED
  BY <1>2, <1>3 DEF CheckFile

LEMMA ResolvedStep ==
  ASSUME SelfContained
  PROVE  Resolved /\ [Next]_vars => Resolved'
<1> SUFFICES ASSUME Resolved, [Next]_vars PROVE Resolved'
  OBVIOUS
<1>1. TypeOK'
  BY StepType DEF Resolved
<1>2. CASE PbcNew
  BY <1>1, <1>2 DEF PbcNew, Resolved, FromOffered, TypesResolved, scanVars, regVars
<1>3. ASSUME UNCHANGED envVars, entries' \subseteq UNION Directories, FromOffered(set'),
             pc' # "nullderef"
      PROVE  Resolved'
  BY <1>1, <1>3 DEF Resolved, TypesResolved, envVars
<1>4. /\ pc # "nullderef" /\ entries \subseteq UNION Directories /\ FromOffered(set)
  BY DEF Resolved, TypesResolved
<1>5. OpenDirFails => Resolved'
  BY <1>3, <1>4 DEF OpenDirFails, scanVars, regVars
<1>6. ASSUME NEW dir \in Directories, InitPbcEnvWithDir(dir) PROVE Resolved'
  <2>1. UNCHANGED envVars /\ entries' = dir /\ set' = <<>> /\ pc' \in {"scan", "wild"}
    BY <1>6, StackLensAssumption DEF InitPbcEnvWithDir
  <2>2. FromOffered(set') /\ entries' \subseteq UNION Directories
    BY <2>1 DEF FromOffered
  <2>3. QED
    BY <1>3, <2>1, <2>2
<1>7. ASSUME NEW s \in Sets, Register(s) PROVE Resolved'
  <2>1. UNCHANGED <<envVars, entries>> /\ set' = s /\ pc' = "open"
    BY <1>7 DEF Register
  <2>2. FromOffered(set')
    BY <2>1 DEF FromOffered, Offered
  <2>3. QED
    BY <1>3, <1>4, <2>1, <2>2
<1>8. EndOfDir => Resolved'
  BY <1>3, <1>4 DEF EndOfDir, scanVars, regVars
<1>9. OpenSet => Resolved'
  BY <1>3, <1>4 DEF OpenSet, Returns, scanVars
<1>10. EndOfPass => Resolved'
  BY <1>3, <1>4 DEF EndOfPass, Returns, scanVars
<1>11. UNCHANGED vars => Resolved'
  BY <1>3, <1>4 DEF vars, scanVars, regVars
<1>12. QED
  BY <1>1, <1>2, <1>5, <1>6, <1>7, <1>8, <1>9, <1>10, <1>11, ReadEntryResolved, CheckFileResolved
  DEF Next, Scan, Registration

(* If the files an application comes with are self-contained, pbc_register *)
(* looks up no type in vain, on any environment, after any calls: imports  *)
(* are registered first and a file that is known is never entered again.   *)
THEOREM TypesAreResolved ==
  ASSUME SelfContained
  PROVE  Spec => []TypesResolved
<1>1. Resolved => TypesResolved
  BY DEF Resolved
<1>2. QED
  BY <1>1, ResolvedInit, ResolvedStep, PTL DEF Spec
=============================================================================
