--------------------------- MODULE CopyIntoProofs ---------------------------
(***************************************************************************)
(* Proofs about Stages and CopyInto for any number of clients, stages,     *)
(* files, writes, drops and loads.                                         *)
(*                                                                         *)
(* What makes the safety properties inductive is the identity of inodes:   *)
(* a write is active under one number, an inode is named by the write that *)
(* made it and has one name at most, and the data of a write is in one     *)
(* inode at most (NameInv).  On top of that, a write that has an inode     *)
(* open still finds it under its name or was discarded (HolderInv), and a  *)
(* COPY about to purge a file has the rows of everything in it (PurgeInv). *)
(***************************************************************************)
EXTENDS CopyInto, TLAPS, FiniteSetTheorems, SequenceTheorems

Active(c) == id[c] # None
Writing   == {"mkdir", "create", "copy", "submkdir", "submkdir_over", "overwrite", "write"}
Visiting  == {"remove", "get", "load", "purge"}

(* What a statement keeps at each of its places. *)
JobAt(c) ==
       /\ Active(c) <=> pc[c] \in Writing
       /\ Active(c) => on[c] \in AllStages /\ name[c] \in Files /\ id[c] <= writes
       /\ Open(c) => fd[c] \in Writes /\ fd[c] <= writes
       /\ pc[c] \in Visiting => on[c] \in AllStages /\ todo[c] # << >>
       /\ pc[c] = "replace" => on[c] \in AllStages

JobInv == \A c \in Clients : JobAt(c)

(* The write is over and its number is used up. *)
Done(w) == w <= writes /\ \A c \in Clients : id[c] # w

(* The data of write w can be read under name f of stage s. *)
Stored(w, s, f) == file[s][f] # None /\ w \in file[s][f].data

(* Name f of stage s points to inode i. *)
Points(s, f, i) == file[s][f] # None /\ file[s][f].ino = i

NameInv ==
    /\ \A c, d \in Clients : Active(c) /\ id[c] = id[d] => c = d
    /\ \A s \in AllStages, f \in Files, i \in Writes : Points(s, f, i) => i <= writes
    /\ \A s \in AllStages, f \in Files, w \in Writes : Stored(w, s, f) => Done(w)
    /\ \A s, t \in AllStages, f, g \in Files, i \in Writes :
          Points(s, f, i) /\ Points(t, g, i) => s = t /\ f = g
    /\ \A s, t \in AllStages, f, g \in Files, w \in Writes :
          Stored(w, s, f) /\ Stored(w, t, g) => s = t /\ f = g
    /\ \A c \in Clients : Active(c) /\ ~Open(c) =>
          /\ \A s \in AllStages, f \in Files : ~Points(s, f, id[c])
          /\ \A d \in Clients : Open(d) => fd[d] # id[c]

(* The file a client has open. *)
Linked(c) == Points(on[c], name[c], fd[c])

HolderInv ==
    /\ \A c \in Clients, s \in AllStages, f \in Files :
          Open(c) /\ Points(s, f, fd[c]) => s = on[c] /\ f = name[c]
    /\ \A c, d \in Clients :
          Open(c) /\ Open(d) /\ fd[c] = fd[d] => c = d \/ fd[c] \in spoiled
    /\ \A c \in Clients : Open(c) /\ Linked(c) =>
          fd[c] \in spoiled \/ file[on[c]][name[c]].data = {}
    /\ \A c \in Clients : Open(c) /\ ~Linked(c) => id[c] \in discarded \cup raced

Kept(w) == rows[w] > 0 \/ w \in discarded \/ w \in raced

PurgeAt(c) ==
       /\ \A w \in Writes : Stored(w, on[c], Head(todo[c])) => Kept(w)
       /\ \A d \in Clients : Open(d) /\ Points(on[c], Head(todo[c]), fd[d]) => id[d] \in raced
       /\ \A w \in read[c] :
             /\ Done(w)
             /\ \A s \in AllStages, f \in Files :
                   Stored(w, s, f) => s = on[c] /\ f = Head(todo[c])

PurgeInv == \A c \in Clients : pc[c] = "purge" => PurgeAt(c)

SpentInv ==
    \A w \in spent : Done(w) /\ \A s \in AllStages, f \in Files : ~Stored(w, s, f)

LateInv ==
    /\ \A s \in AllStages, f \in Files, w \in Writes :
          Stored(w, s, f) => born[w] = epoch[s] \/ w \in late
    /\ \A c \in Clients : Active(c) => born[id[c]] = epoch[on[c]] \/ id[c] \in late

UploadInv ==
    \A w \in uploaded : Kept(w) \/ \E s \in AllStages, f \in Files : Stored(w, s, f)

WholeInv ==
    \A s \in AllStages, f \in Files, i \in Writes : Points(s, f, i) =>
       \/ \E w \in Writes : file[s][f].data = {w}
       \/ \E c \in Clients : Open(c) /\ fd[c] = i
       \/ i \in spoiled

FileInv == NameInv /\ HolderInv /\ PurgeInv /\ SpentInv /\ LateInv /\ UploadInv /\ WholeInv

IInv == TypeOK /\ JobInv /\ FileInv

----------------------------------------------------------------------------
LEMMA Bounds ==
    /\ NFiles \in Nat /\ MaxWrites \in Nat /\ MaxDrops \in Nat
    /\ None \notin Files /\ None \notin Writes /\ None \notin Inode
<1>1. {NFiles, MaxWrites, MaxDrops} \subseteq Nat
  BY StageAssumption
<1>2. NFiles \in Nat /\ MaxWrites \in Nat /\ MaxDrops \in Nat
  BY <1>1
<1>3. Files \subseteq Nat /\ Writes \subseteq Nat
  BY <1>2 DEF Files, Writes
<1>4. Inode \subseteq [ino : Nat, data : SUBSET Nat]
  BY <1>3 DEF Inode
<1> QED
  BY <1>2, <1>3, <1>4, StageAssumption

(* The rank of every listed file is a bijection onto 0 .. n-1, so that the  *)
(* walk lists files and nothing else.                                       *)
LEMMA ListedFiles ==
    ASSUME NEW s, NEW m
    PROVE  ListMetaFiles(s, m) \in Seq(Files)
<1> DEFINE P == Present(s) \cap m
           n == Cardinality(P)
           Below(f) == {g \in P : g < f}
           rank == [f \in P |-> Cardinality(Below(f))]
<1>1. P \subseteq Files /\ IsFiniteSet(P) /\ n \in Nat
  <2>1. IsFiniteSet(Files)
    BY Bounds, FS_Interval DEF Files
  <2>2. P \subseteq Files
    BY DEF Present
  <2> QED
    BY <2>1, <2>2, FS_Subset, FS_CardinalityType
<1>2. P \subseteq Int
  BY <1>1, Bounds DEF Files
<1> HIDE DEF P
<1>3. ASSUME NEW f \in P
      PROVE  /\ IsFiniteSet(Below(f)) /\ Cardinality(Below(f)) \in 0 .. n - 1
  <2>1. Below(f) \subseteq P \ {f}
    BY <1>1, <1>2
  <2>2. IsFiniteSet(P \ {f}) /\ Cardinality(P \ {f}) = n - 1
    BY <1>1, FS_RemoveElement
  <2>3. IsFiniteSet(Below(f)) /\ Cardinality(Below(f)) <= n - 1
    BY <2>1, <2>2, FS_Subset
  <2>4. Cardinality(Below(f)) \in Nat
    BY <2>3, FS_CardinalityType
  <2> QED
    BY <2>3, <2>4, <1>1
<1>4. ASSUME NEW f \in P, NEW h \in P, f < h
      PROVE  Cardinality(Below(f)) # Cardinality(Below(h))
  <2>1. Below(f) \cup {f} \subseteq Below(h)
    <3>1. f \in Int /\ h \in Int /\ \A g \in P : g \in Int
      BY <1>2
    <3>2. \A g \in P : g < f => g < h
      BY <3>1, <1>4
    <3> QED
      BY <3>2, <1>4
  <2>2. f \notin Below(f)
    BY <1>1, <1>2
  <2>3. Cardinality(Below(f) \cup {f}) = Cardinality(Below(f)) + 1
    BY <2>2, <1>3, FS_AddElement
  <2>4. Cardinality(Below(f) \cup {f}) <= Cardinality(Below(h))
    BY <2>1, <1>3, FS_Subset
  <2>5. Cardinality(Below(f)) \in Nat /\ Cardinality(Below(h)) \in Nat
    BY <1>3, FS_CardinalityType
  <2> QED
    BY <2>3, <2>4, <2>5
<1>5. rank \in Injection(P, 0 .. n - 1)
  <2>1. rank \in [P -> 0 .. n - 1]
    BY <1>3
  <2>2. \A f, h \in P : rank[f] = rank[h] => f = h
    <3> SUFFICES ASSUME NEW f \in P, NEW h \in P, f # h PROVE rank[f] # rank[h]
      OBVIOUS
    <3>1. f < h \/ h < f
      BY <1>2
    <3>2. rank[f] = Cardinality(Below(f)) /\ rank[h] = Cardinality(Below(h))
      OBVIOUS
    <3> HIDE DEF rank, Below
    <3> QED
      BY <3>1, <3>2, <1>4
  <2> HIDE DEF rank
  <2> QED
    BY <2>1, <2>2 DEF Injection, IsInjective
<1>6. rank \in Surjection(P, 0 .. n - 1)
  <2> HIDE DEF n
  <2>0. n \in Nat /\ n - 1 \in Int
    BY <1>1
  <2>1. IsFiniteSet(0 .. n - 1) /\ Cardinality(0 .. n - 1) = n
    BY <2>0, FS_Interval
  <2> HIDE DEF P, n, rank
  <2> QED
    BY <2>1, <1>5, FS_Injection DEF n
<1>7. ASSUME NEW i \in 1 .. n
      PROVE  (CHOOSE f \in P : Cardinality(Below(f)) = i - 1) \in P
  <2>1. i - 1 \in 0 .. n - 1
    BY <1>1, <1>7
  <2>2. \E f \in P : rank[f] = i - 1
    <3> HIDE DEF P, n, rank
    <3> QED
      BY <2>1, <1>6 DEF Surjection
  <2> QED
    BY <2>2
<1>8. ListMetaFiles(s, m) = [i \in 1 .. n |-> CHOOSE f \in P : Cardinality(Below(f)) = i - 1]
  BY DEF ListMetaFiles, P
<1> HIDE DEF P, n, Below, rank
<1>9. ListMetaFiles(s, m) \in [1 .. n -> Files]
  BY <1>1, <1>7, <1>8
<1> QED
  BY <1>1, <1>9, SeqDef

----------------------------------------------------------------------------
(* Types, and what a statement keeps at each place. *)
LEMMA InitInv == Init => IInv
<1> SUFFICES ASSUME Init PROVE IInv
  OBVIOUS
<1>0. \A s \in AllStages, f \in Files : file[s][f] = None
  BY DEF Init, StagesInit
<1>1. \A c \in Clients : pc[c] = "idle" /\ id[c] = None
  BY DEF Init, StagesInit
<1>2. TypeOK
  BY Bounds DEF Init, StagesInit, TypeOK, Places
<1>3. JobInv
  BY <1>1 DEF JobInv, JobAt, Active, Writing, Visiting, Open
<1>4. NameInv /\ HolderInv /\ WholeInv
  BY <1>0, <1>1 DEF NameInv, HolderInv, WholeInv, Points, Stored, Active, Open
<1>5. PurgeInv /\ SpentInv /\ LateInv /\ UploadInv
  BY <1>0, <1>1 DEF Init, StagesInit, PurgeInv, SpentInv, LateInv, UploadInv, Stored, Active
<1> QED
  BY <1>2, <1>3, <1>4, <1>5 DEF IInv, FileInv

(* A step of client c leaves the other statements where they are. *)
Others(c) ==
    \A d \in Clients \ {c} :
       /\ pc'[d] = pc[d] /\ on'[d] = on[d] /\ name'[d] = name[d]
       /\ id'[d] = id[d] /\ fd'[d] = fd[d] /\ todo'[d] = todo[d]

LEMMA JobFrame ==
    ASSUME TypeOK, JobInv, NEW c \in Clients, Others(c),
           writes' \in Nat, writes <= writes', JobAt(c)'
    PROVE  JobInv'
<1> SUFFICES ASSUME NEW d \in Clients \ {c} PROVE JobAt(d)'
  BY DEF JobInv
<1>1. JobAt(d)
  BY DEF JobInv
<1>2. id[d] \in Writes \cup {None} /\ fd[d] \in Writes \cup {None} /\ writes \in Nat
  BY Bounds DEF TypeOK
<1>3. \A w \in Writes : w <= writes => w <= writes'
  BY Bounds, <1>2 DEF Writes
<1> QED
  BY <1>1, <1>2, <1>3 DEF JobAt, Others, Active, Open

(* ResolveStage registers a stage and makes its directory. *)
LEMMA ResolveTypes ==
    ASSUME TypeOK, NEW s \in AllStages, ResolveStage(s)
    PROVE  stages' \subseteq AllStages /\ dirs' \subseteq AllStages
  BY DEF TypeOK, ResolveStage

LEMMA HoldersType ==
    ASSUME TypeOK, JobInv, NEW i
    PROVE  Holders(i) \subseteq Writes
  BY DEF TypeOK, JobInv, JobAt, Holders, Open, Active, Writing

LEMMA LostType ==
    ASSUME TypeOK, JobInv, NEW s \in AllStages, NEW f \in Files, file[s][f] # None
    PROVE  Lost(file[s][f]) \subseteq Writes
<1>1. file[s][f] \in Inode
  BY DEF TypeOK
<1> QED
  BY <1>1, HoldersType DEF Lost, Inode

(* os.Remove of one file, or its failure. *)
LEMMA UnlinkTypes ==
    ASSUME TypeOK, NEW s \in AllStages, NEW f \in Files, Unlink(s, f) \/ UNCHANGED file
    PROVE  file' \in [AllStages -> [Files -> Inode \cup {None}]]
<1>1. CASE Unlink(s, f)
  BY <1>1 DEF Unlink, TypeOK
<1>2. CASE UNCHANGED file
  BY <1>2 DEF TypeOK
<1> QED
  BY <1>1, <1>2

(* Stage DDL: CREATE, DROP and OR REPLACE. *)
LEMMA DDLTypes ==
    ASSUME TypeOK, JobInv, NEW c \in Clients, UNCHANGED copyVars,
           \/ \E s \in Named : CreateStage(c, s) \/ DropStage(c, s) \/ ReplaceStage(c, s)
           \/ ReplaceCreate(c)
    PROVE  TypeOK' /\ JobInv'
<1>1. ASSUME NEW s \in Named, RemoveSome(s)
      PROVE  /\ stages' \subseteq AllStages /\ dirs' \subseteq AllStages
             /\ file' \in [AllStages -> [Files -> Inode \cup {None}]]
             /\ epoch' \in [AllStages -> 0 .. MaxDrops]
             /\ late' \subseteq Writes /\ discarded' \subseteq Writes
             /\ UNCHANGED <<born, uploaded, spoiled>>
  <2>0. s \in AllStages
    BY DEF AllStages
  <2>a. PICK kept \in SUBSET Present(s), stays \in BOOLEAN : RemoveStage(s, kept, stays)
    BY <1>1 DEF RemoveSome
  <2>1. stages' \subseteq AllStages /\ dirs' \subseteq AllStages
    BY <2>a DEF RemoveStage, TypeOK
  <2>2. file' \in [AllStages -> [Files -> Inode \cup {None}]]
    BY <2>a, <2>0 DEF RemoveStage, TypeOK
  <2>3. epoch' \in [AllStages -> 0 .. MaxDrops]
    BY <2>a, <2>0, Bounds DEF RemoveStage, TypeOK
  <2>4. late' \subseteq Writes
    <3>1. \A f \in kept : file[s][f].data \subseteq Writes
      BY <2>0 DEF TypeOK, Present, Inode
    <3> QED
      BY <3>1, <2>a DEF RemoveStage, TypeOK
  <2>5. discarded' \subseteq Writes
    <3>1. \A f \in Present(s) : Lost(file[s][f]) \subseteq Writes
      BY <2>0, LostType DEF Present
    <3> QED
      BY <3>1, <2>a DEF RemoveStage, TypeOK
  <2> QED
    BY <2>1, <2>2, <2>3, <2>4, <2>5, <2>a DEF RemoveStage
<1>2. CASE \E s \in Named : CreateStage(c, s)
  <2>1. PICK s \in Named : CreateStage(c, s)
    BY <1>2
  <2>2. TypeOK'
    BY <2>1 DEF CreateStage, TypeOK, jobVars, histVars, copyVars, AllStages
  <2>3. JobInv'
    BY <2>1 DEF CreateStage, JobInv, JobAt, jobVars, Active, Open
  <2> QED
    BY <2>2, <2>3
<1>3. CASE \E s \in Named : DropStage(c, s)
  <2>1. PICK s \in Named : DropStage(c, s)
    BY <1>3
  <2>2. TypeOK'
    BY <2>1, <1>1 DEF DropStage, TypeOK, jobVars, copyVars
  <2>3. JobInv'
    BY <2>1 DEF DropStage, JobInv, JobAt, jobVars, Active, Open
  <2> QED
    BY <2>2, <2>3
<1>4. CASE \E s \in Named : ReplaceStage(c, s)
  <2>1. PICK s \in Named : ReplaceStage(c, s)
    BY <1>4
  <2>2. pc' \in [Clients -> Places] /\ on' \in [Clients -> AllStages \cup {None}]
    BY <2>1 DEF ReplaceStage, Goto, TypeOK, Places, AllStages
  <2>3. UNCHANGED <<name, id, fd, todo, writes>>
    BY <2>1 DEF ReplaceStage
  <2>4. TypeOK'
    <3>1. CASE s \in stages
      BY <3>1, <2>1, <2>2, <2>3, <1>1 DEF ReplaceStage, TypeOK, copyVars
    <3>2. CASE s \notin stages
      BY <3>2, <2>1, <2>2, <2>3 DEF ReplaceStage, TypeOK, copyVars, stageVars, histVars
    <3> QED
      BY <3>1, <3>2
  <2>5. pc[c] = "idle" /\ pc'[c] = "replace" /\ on'[c] = s /\ Others(c)
    BY <2>1 DEF ReplaceStage, Goto, TypeOK, Others
  <2>6. JobAt(c)'
    BY <2>3, <2>5 DEF JobInv, JobAt, Active, Open, Writing, Visiting, AllStages
  <2>7. writes' \in Nat /\ writes <= writes'
    BY <2>3, Bounds DEF TypeOK
  <2> QED
    BY <2>4, <2>5, <2>6, <2>7, JobFrame
<1>5. CASE ReplaceCreate(c)
  <2>1. on[c] \in AllStages /\ pc[c] = "replace"
    BY <1>5 DEF ReplaceCreate, JobInv, JobAt
  <2>2. TypeOK'
    BY <1>5, <2>1 DEF ReplaceCreate, Goto, TypeOK, Places, copyVars, histVars
  <2>3. pc'[c] = "idle" /\ Others(c) /\ UNCHANGED <<id, writes>>
    BY <1>5 DEF ReplaceCreate, Goto, TypeOK, Others
  <2>4. JobAt(c)'
    BY <2>1, <2>3 DEF JobInv, JobAt, Active, Open, Writing, Visiting
  <2>5. writes' \in Nat /\ writes <= writes'
    BY <2>3, Bounds DEF TypeOK
  <2> QED
    BY <2>2, <2>3, <2>4, <2>5, JobFrame
<1> QED
  BY <1>2, <1>3, <1>4, <1>5

(* Statements that resolve a stage and start a write. *)
LEMMA BeginWriteTypes ==
    ASSUME TypeOK, JobInv, NEW c \in Clients, NEW s \in AllStages, NEW f \in Files,
           NEW l \in {"mkdir"} \cup UnloadStarts, BeginWrite(c, s, f, l), UNCHANGED copyVars
    PROVE  TypeOK' /\ JobInv'
<1>1. l \in Writing /\ l \in Places /\ l \notin Visiting \cup {"copy", "replace"}
  BY DEF UnloadStarts, Writing, Places, Visiting
<1>2. writes + 1 \in Writes /\ writes \in Nat /\ writes + 1 \in 0 .. MaxWrites
  BY Bounds DEF BeginWrite, TypeOK, Writes
<1>3. TypeOK'
  <2>1. stages' \subseteq AllStages /\ dirs' \subseteq AllStages
    BY ResolveTypes DEF BeginWrite
  <2>2. /\ pc' \in [Clients -> Places] /\ on' \in [Clients -> AllStages \cup {None}]
        /\ name' \in [Clients -> Files \cup {None}] /\ id' \in [Clients -> Writes \cup {None}]
        /\ writes' \in 0 .. MaxWrites
    BY <1>1, <1>2 DEF BeginWrite, Goto, TypeOK
  <2>3. born' \in [Writes -> 0 .. MaxDrops \cup {None}]
    BY <1>2 DEF BeginWrite, TypeOK
  <2> QED
    BY <2>1, <2>2, <2>3 DEF BeginWrite, TypeOK, copyVars
<1>4. /\ pc'[c] = l /\ on'[c] = s /\ name'[c] = f /\ id'[c] = writes + 1
      /\ writes' = writes + 1 /\ Others(c)
  BY DEF BeginWrite, Goto, TypeOK, Others
<1>5. JobAt(c)'
  BY <1>1, <1>2, <1>4, Bounds DEF JobAt, Active, Open
<1> QED
  BY <1>2, <1>3, <1>4, <1>5, JobFrame

(* A statement that writes ends. *)
LEMMA AnswerTypes ==
    ASSUME TypeOK, JobInv, NEW c \in Clients, Answer(c), UNCHANGED <<todo, writes>>
    PROVE  /\ pc' \in [Clients -> Places] /\ on' \in [Clients -> AllStages \cup {None}]
           /\ name' \in [Clients -> Files \cup {None}] /\ id' \in [Clients -> Writes \cup {None}]
           /\ fd' \in [Clients -> Writes \cup {None}]
           /\ JobInv'
<1>1. /\ pc' \in [Clients -> Places] /\ on' \in [Clients -> AllStages \cup {None}]
      /\ name' \in [Clients -> Files \cup {None}] /\ id' \in [Clients -> Writes \cup {None}]
      /\ fd' \in [Clients -> Writes \cup {None}]
  BY DEF Answer, Goto, TypeOK, Places
<1>2. pc'[c] = "idle" /\ id'[c] = None /\ Others(c)
  BY DEF Answer, Goto, TypeOK, Others
<1>3. JobAt(c)'
  BY <1>2 DEF JobAt, Active, Open, Writing, Visiting
<1>4. writes' \in Nat /\ writes <= writes'
  BY Bounds DEF TypeOK
<1> QED
  BY <1>1, <1>2, <1>3, <1>4, JobFrame

(* The next place of a write under way. *)
LEMMA WriteOnTypes ==
    ASSUME TypeOK, JobInv, NEW c \in Clients, pc[c] \in Writing, NEW l \in Writing, Goto(c, l),
           UNCHANGED <<on, name, id, todo, writes>>,
           fd' \in [Clients -> Writes \cup {None}],
           \A d \in Clients \ {c} : fd'[d] = fd[d],
           l = "copy" => fd'[c] \in Writes /\ fd'[c] <= writes
    PROVE  pc' \in [Clients -> Places] /\ JobInv'
<1>1. pc' \in [Clients -> Places]
  BY DEF Goto, TypeOK, Places, Writing
<1>2. pc'[c] = l /\ Others(c)
  BY DEF Goto, TypeOK, Others
<1>3. JobAt(c)
  BY DEF JobInv
<1>4. JobAt(c)'
  BY <1>2, <1>3 DEF JobAt, Active, Open, Writing, Visiting
<1>5. writes' \in Nat /\ writes <= writes'
  BY Bounds DEF TypeOK
<1> QED
  BY <1>1, <1>2, <1>4, <1>5, JobFrame

(* A statement that visits files starts, and goes to the next file. *)
LEMMA BeginVisitTypes ==
    ASSUME TypeOK, JobInv, NEW c \in Clients, NEW s \in AllStages, NEW m,
           NEW l \in {"remove", "get", "load"}, BeginVisit(c, s, m, l)
    PROVE  /\ stages' \subseteq AllStages /\ dirs' \subseteq AllStages
           /\ pc' \in [Clients -> Places] /\ on' \in [Clients -> AllStages \cup {None}]
           /\ todo' \in [Clients -> Seq(Files)] /\ JobInv'
<1>1. stages' \subseteq AllStages /\ dirs' \subseteq AllStages
  BY ResolveTypes DEF BeginVisit
<1>2. pc' \in [Clients -> Places] /\ on' \in [Clients -> AllStages \cup {None}]
  BY DEF BeginVisit, Goto, TypeOK, Places
<1>3. todo' \in [Clients -> Seq(Files)]
  BY ListedFiles DEF BeginVisit, TypeOK
<1>4. /\ pc[c] = "idle" /\ pc'[c] = l /\ on'[c] = s /\ id'[c] = id[c]
      /\ todo'[c] = ListMetaFiles(s, m) /\ todo'[c] # << >> /\ Others(c) /\ writes' = writes
  BY DEF BeginVisit, Goto, TypeOK, Others
<1>5. JobAt(c)
  BY DEF JobInv
<1>6. JobAt(c)'
  BY <1>4, <1>5 DEF JobAt, Active, Open, Writing, Visiting
<1>7. writes' \in Nat /\ writes <= writes'
  BY <1>4, Bounds DEF TypeOK
<1> QED
  BY <1>1, <1>2, <1>3, <1>4, <1>6, <1>7, JobFrame

LEMMA VisitedTypes ==
    ASSUME TypeOK, JobInv, NEW c \in Clients, pc[c] \in Visiting,
           NEW l \in Visiting, Visited(c, l),
           UNCHANGED <<name, id, fd, writes>>
    PROVE  /\ pc' \in [Clients -> Places] /\ on' \in [Clients -> AllStages \cup {None}]
           /\ todo' \in [Clients -> Seq(Files)] /\ JobInv'
<1>1. JobAt(c) /\ on[c] \in AllStages /\ todo[c] \in Seq(Files) /\ todo[c] # << >>
  BY DEF JobInv, JobAt, TypeOK
<1>2. Tail(todo[c]) \in Seq(Files) /\ Len(Tail(todo[c])) = Len(todo[c]) - 1 /\ Len(todo[c]) \in Nat
  BY <1>1
<1>3. pc' \in [Clients -> Places] /\ on' \in [Clients -> AllStages \cup {None}]
  BY DEF Visited, Goto, TypeOK, Places, Visiting
<1>4. todo' \in [Clients -> Seq(Files)]
  BY <1>2 DEF Visited, TypeOK
<1>5. Others(c)
  BY DEF Visited, Goto, TypeOK, Others
<1>6. ASSUME Len(todo[c]) > 1 PROVE JobAt(c)'
  <2>1. pc'[c] = l /\ on'[c] = on[c] /\ todo'[c] = Tail(todo[c])
    BY <1>6 DEF Visited, Goto, TypeOK
  <2>2. Len(todo'[c]) > 0
    BY <2>1, <1>2, <1>6
  <2>3. todo'[c] # << >>
    BY <2>2, EmptySeq
  <2> QED
    BY <2>1, <2>3, <1>1 DEF JobAt, Active, Open, Writing, Visiting
<1>7. ASSUME ~(Len(todo[c]) > 1) PROVE JobAt(c)'
  <2>1. pc'[c] = "idle"
    BY <1>7 DEF Visited, Goto, TypeOK
  <2> QED
    BY <2>1, <1>1 DEF JobAt, Active, Open, Writing, Visiting
<1>8. writes' \in Nat /\ writes <= writes'
  BY Bounds DEF TypeOK
<1> QED
  BY <1>3, <1>4, <1>5, <1>6, <1>7, <1>8, JobFrame

(* Mkdir, Overwrite, os.Create, the copy and DuckDB's write. *)
LEMMA WriteTypes ==
    ASSUME IInv, NEW c \in Clients,
           \/ /\ UNCHANGED copyVars
              /\ \/ Mkdir(c, "mkdir", "create") \/ Mkdir(c, "submkdir", "write")
                 \/ Mkdir(c, "submkdir_over", "overwrite") \/ CopyDone(c) \/ CopyFails(c)
                 \/ \E l \in {"mkdir", "submkdir", "submkdir_over"} : MkdirFails(c, l)
           \/ CreateFile(c) \/ Overwrite(c) \/ UnloadWrite(c) \/ UnloadFailed(c)
    PROVE  TypeOK' /\ JobInv'
<1> USE DEF IInv
<1>0. /\ pc[c] \in Writing => on[c] \in AllStages /\ name[c] \in Files /\ id[c] \in Writes /\ id[c] <= writes
      /\ pc[c] = "copy" => fd[c] \in Writes
      /\ \A s \in AllStages, f \in Files : file[s][f] # None => 
            file[s][f] \in Inode /\ file[s][f].ino \in Writes /\ file[s][f].ino <= writes
  <2>1. \A s \in AllStages, f \in Files : file[s][f] # None => file[s][f] \in Inode
    BY DEF TypeOK
  <2>2. \A s \in AllStages, f \in Files : file[s][f] # None => 
            file[s][f].ino \in Writes /\ file[s][f].ino <= writes
    BY <2>1 DEF FileInv, NameInv, Points, Inode
  <2>3. pc[c] \in Writing => id[c] \in Writes
    BY DEF TypeOK, JobInv, JobAt, Active
  <2> QED
    BY <2>1, <2>2, <2>3 DEF JobInv, JobAt, Open
<1>a. fd \in [Clients -> Writes \cup {None}]
  BY DEF TypeOK
<1>1. ASSUME NEW here \in Writing, NEW next \in Writing \ {"copy"}, Mkdir(c, here, next),
             UNCHANGED copyVars
      PROVE  TypeOK' /\ JobInv'
  <2>1. pc[c] \in Writing /\ UNCHANGED <<on, name, id, fd, todo, writes>>
    BY <1>1 DEF Mkdir, jobVars
  <2>2. pc' \in [Clients -> Places] /\ JobInv'
    BY <1>1, <2>1, <1>a, WriteOnTypes DEF Mkdir
  <2>3. dirs' \subseteq AllStages
    BY <1>1, <2>1, <1>0 DEF Mkdir, TypeOK
  <2> QED
    BY <1>1, <2>1, <2>2, <2>3 DEF Mkdir, TypeOK, copyVars, histVars
<1>2. ASSUME CopyDone(c), UNCHANGED copyVars PROVE TypeOK' /\ JobInv'
  <2>1. pc[c] \in Writing /\ Answer(c) /\ UNCHANGED <<todo, writes>>
    BY <1>2 DEF CopyDone, Open, Writing
  <2>2. file' \in [AllStages -> [Files -> Inode \cup {None}]]
    <3>1. ASSUME file[on[c]][name[c]] # None,
                 file' = [file EXCEPT ![on[c]][name[c]].data = @ \cup {id[c]}]
          PROVE  file' \in [AllStages -> [Files -> Inode \cup {None}]]
      <4>1. file[on[c]][name[c]] \in Inode /\ id[c] \in Writes
        BY <1>0, <2>1, <3>1
      <4>2. [file[on[c]][name[c]] EXCEPT !.data = @ \cup {id[c]}] \in Inode
        BY <4>1 DEF Inode
      <4>3. file' = [file EXCEPT ![on[c]] = [file[on[c]] EXCEPT ![name[c]] =
                        [file[on[c]][name[c]] EXCEPT !.data = @ \cup {id[c]}]]]
        BY <3>1
      <4> HIDE DEF IInv
      <4> QED
        BY <4>2, <4>3, <1>0, <2>1 DEF TypeOK, IInv
    <3> QED
      BY <3>1, <1>2 DEF CopyDone, TypeOK
  <2>3. uploaded' \subseteq Writes
    BY <1>2, <1>0, <2>1 DEF CopyDone, TypeOK
  <2> QED
    BY <1>2, <2>1, <2>2, <2>3, AnswerTypes DEF CopyDone, TypeOK, copyVars
<1>3. ASSUME CopyFails(c), UNCHANGED copyVars PROVE TypeOK' /\ JobInv'
  <2>1. Answer(c) /\ UNCHANGED <<todo, writes>>
    BY <1>3 DEF CopyFails
  <2>2. spoiled' \subseteq Writes
    BY <1>3, <1>0 DEF CopyFails, TypeOK, Open
  <2> QED
    BY <1>3, <2>1, <2>2, AnswerTypes DEF CopyFails, TypeOK, copyVars
<1>4. ASSUME UnloadFailed(c) PROVE TypeOK' /\ JobInv'
  <2>1. Answer(c) /\ UNCHANGED <<todo, writes>>
    BY <1>4 DEF UnloadFailed
  <2> QED
    BY <1>4, <2>1, AnswerTypes DEF UnloadFailed, TypeOK, copyVars, stageVars, histVars
<1>m. ASSUME NEW l, MkdirFails(c, l), UNCHANGED copyVars PROVE TypeOK' /\ JobInv'
  <2>1. Answer(c) /\ UNCHANGED <<todo, writes>>
    BY <1>m DEF MkdirFails
  <2> QED
    BY <1>m, <2>1, AnswerTypes DEF MkdirFails, TypeOK, copyVars, stageVars, histVars
<1>5. ASSUME Overwrite(c) PROVE TypeOK' /\ JobInv'
  <2>1. pc[c] \in Writing /\ UNCHANGED <<on, name, id, fd, todo, writes>>
    BY <1>5 DEF Overwrite, jobVars, Writing
  <2>2. pc' \in [Clients -> Places] /\ JobInv'
    BY <1>5, <2>1, <1>a, WriteOnTypes DEF Overwrite, Writing
  <2>3. file' \in [AllStages -> [Files -> Inode \cup {None}]]
    BY <1>5, <2>1, <1>0, UnlinkTypes DEF Overwrite, Discard
  <2>4. discarded' \subseteq Writes
    BY <1>5, <2>1, <1>0, LostType DEF Overwrite, Discard, TypeOK
  <2> QED
    BY <1>5, <2>1, <2>2, <2>3, <2>4 DEF Overwrite, TypeOK, copyVars
<1>6. ASSUME NoteRace(c), pc[c] \in Writing PROVE raced' \subseteq Writes
  BY <1>6, <1>0 DEF NoteRace, TypeOK
<1>7. ASSUME NEW n \in Inode, pc[c] \in Writing, file' = [file EXCEPT ![on[c]][name[c]] = n]
      PROVE  file' \in [AllStages -> [Files -> Inode \cup {None}]]
  BY <1>7, <1>0 DEF TypeOK
<1>8. ASSUME CreateFile(c) PROVE TypeOK' /\ JobInv'
  <2> DEFINE old == file[on[c]][name[c]]
             i == IF old = None THEN id[c] ELSE old.ino
  <2>1. Create(c) /\ NoteRace(c) /\ UNCHANGED <<purge, abort, read, rows, spent>>
    BY <1>8 DEF CreateFile
  <2>2. pc[c] = "create" /\ pc[c] \in Writing
    BY <2>1 DEF Create, Writing
  <2>3. i \in Writes /\ i <= writes /\ (old # None => old.data \subseteq Writes)
    BY <2>2, <1>0 DEF Inode
  <2>4. raced' \subseteq Writes /\ UNCHANGED <<stages, dirs, todo, writes, epoch, born, late, uploaded>>
    BY <2>1, <2>2, <1>6 DEF Create
  <2>5. ASSUME file' = [file EXCEPT ![on[c]][name[c]] = [ino |-> i, data |-> {}]],
               fd' = [fd EXCEPT ![c] = i],
               discarded' = discarded \cup (IF old = None THEN {} ELSE old.data),
               spoiled' \subseteq spoiled \cup {i},
               Goto(c, "copy"), UNCHANGED <<on, name, id>>
        PROVE  TypeOK' /\ JobInv'
    <3> HIDE DEF i
    <3>1. file' \in [AllStages -> [Files -> Inode \cup {None}]]
      <4>1. [ino |-> i, data |-> {}] \in Inode
        BY <2>3 DEF Inode
      <4> QED
        BY <4>1, <2>5, <2>2, <1>7
    <3>2. fd' \in [Clients -> Writes \cup {None}] /\ fd'[c] = i /\ \A d \in Clients \ {c} : fd'[d] = fd[d]
      BY <2>5, <2>3, <1>a
    <3>3. pc' \in [Clients -> Places] /\ JobInv'
      BY <2>5, <2>2, <2>3, <2>4, <3>2, WriteOnTypes DEF Writing
    <3>4. spoiled' \subseteq Writes /\ discarded' \subseteq Writes
      BY <2>5, <2>3 DEF TypeOK
    <3> QED
      BY <2>1, <2>4, <2>5, <3>1, <3>2, <3>3, <3>4 DEF TypeOK
  <2>6. ASSUME Answer(c), UNCHANGED <<file, discarded, spoiled>> PROVE TypeOK' /\ JobInv'
    BY <2>1, <2>4, <2>6, AnswerTypes DEF TypeOK
  <2> QED
    BY <2>1, <2>5, <2>6 DEF Create
<1>9. ASSUME UnloadWrite(c) PROVE TypeOK' /\ JobInv'
  <2> DEFINE old == file[on[c]][name[c]]
  <2>2. pc[c] = "write" /\ pc[c] \in Writing
    BY <1>9 DEF UnloadWrite, Writing
  <2>4. /\ raced' \subseteq Writes 
        /\ UNCHANGED <<stages, dirs, todo, writes, epoch, born, late, spoiled, purge, abort, read, rows, spent>>
    BY <1>9, <2>2, <1>6 DEF UnloadWrite
  <2>5. CASE old = None
    <3>0. /\ file' = [file EXCEPT ![on[c]][name[c]] = [ino |-> id[c], data |-> {}]]
          /\ fd' = [fd EXCEPT ![c] = id[c]]
          /\ Goto(c, "copy")
          /\ UNCHANGED <<on, name, id, uploaded, discarded>>
      BY <1>9, <2>5 DEF UnloadWrite
    <3>1. file' \in [AllStages -> [Files -> Inode \cup {None}]]
      <4>1. [ino |-> id[c], data |-> {}] \in Inode
        BY <2>2, <1>0 DEF Inode
      <4> QED
        BY <4>1, <3>0, <2>2, <1>7
    <3>2. fd' \in [Clients -> Writes \cup {None}] /\ fd'[c] = id[c] /\ \A d \in Clients \ {c} : fd'[d] = fd[d]
      BY <3>0, <2>2, <1>0, <1>a
    <3>3. pc' \in [Clients -> Places] /\ JobInv'
      BY <3>0, <3>2, <2>2, <2>4, <1>0, WriteOnTypes DEF Writing
    <3> QED
      BY <2>4, <3>0, <3>1, <3>2, <3>3 DEF TypeOK
  <2>6. CASE old # None
    <3>0. /\ file' = [file EXCEPT ![on[c]][name[c]] = [ino |-> id[c], data |-> {id[c]}]]
          /\ discarded' = discarded \cup Lost(old)
          /\ uploaded' = uploaded \cup {id[c]}
          /\ Answer(c)
      BY <1>9, <2>6 DEF UnloadWrite
    <3>1. file' \in [AllStages -> [Files -> Inode \cup {None}]]
      <4>1. [ino |-> id[c], data |-> {id[c]}] \in Inode
        BY <2>2, <1>0 DEF Inode
      <4> QED
        BY <4>1, <3>0, <2>2, <1>7
    <3>2. discarded' \subseteq Writes /\ uploaded' \subseteq Writes
      BY <3>0, <2>2, <2>6, <1>0, LostType DEF TypeOK
    <3> QED
      BY <2>4, <3>0, <3>1, <3>2, AnswerTypes DEF TypeOK
  <2> QED
    BY <2>5, <2>6
<1> QED
  <2>1. {"mkdir", "create", "submkdir", "write", "submkdir_over", "overwrite"} \subseteq Writing \ {"copy"}
    BY DEF Writing
  <2> QED
    BY <2>1, <1>1, <1>2, <1>3, <1>4, <1>m, <1>5, <1>8, <1>9

(* LIST, REMOVE, GET and COPY INTO <table>. *)
LEMMA VisitTypes ==
    ASSUME TypeOK, JobInv, NEW c \in Clients,
           \/ /\ UNCHANGED copyVars
              /\ \/ \E s \in AllStages : List(c, s)
                 \/ \E s \in AllStages, m \in SUBSET Files : Remove(c, s, m) \/ Get(c, s, m)
                 \/ RemoveOne(c) \/ GetOne(c)
           \/ \E s \in AllStages, m \in SUBSET Files, p, a \in BOOLEAN : CopyLoad(c, s, m, p, a)
           \/ Loaded(c) \/ LoadFailed(c) \/ Purge(c)
    PROVE  TypeOK' /\ JobInv'
<1>0. /\ pc[c] \in Visiting =>
            on[c] \in AllStages /\ Head(todo[c]) \in Files /\ file[on[c]][Head(todo[c])] \in Inode \cup {None}
  <2> SUFFICES ASSUME pc[c] \in Visiting
               PROVE  on[c] \in AllStages /\ Head(todo[c]) \in Files
                      /\ file[on[c]][Head(todo[c])] \in Inode \cup {None}
    OBVIOUS
  <2>1. on[c] \in AllStages /\ todo[c] \in Seq(Files) /\ todo[c] # << >>
    BY DEF JobInv, JobAt, TypeOK
  <2>2. Head(todo[c]) \in Files
    BY <2>1
  <2> QED
    BY <2>1, <2>2 DEF TypeOK
<1>1. ASSUME NEW s \in AllStages, List(c, s), UNCHANGED copyVars PROVE TypeOK' /\ JobInv'
  <2>1. ResolveStage(s) /\ UNCHANGED <<file, pc>> /\ UNCHANGED jobVars /\ UNCHANGED histVars
    BY <1>1 DEF List
  <2>2. TypeOK'
    BY <1>1, <2>1, ResolveTypes DEF TypeOK, copyVars, jobVars, histVars
  <2>3. JobInv'
    BY <2>1 DEF JobInv, JobAt, jobVars, Active, Open
  <2> QED
    BY <2>2, <2>3
<1>2. ASSUME NEW s \in AllStages, NEW m, NEW l \in {"remove", "get", "load"}, BeginVisit(c, s, m, l),
             purge' \in [Clients -> BOOLEAN], abort' \in [Clients -> BOOLEAN],
             UNCHANGED <<read, rows, spent, raced>>
      PROVE  TypeOK' /\ JobInv'
  <2>1. UNCHANGED <<file, name, id, fd, writes>> /\ UNCHANGED histVars
    BY <1>2 DEF BeginVisit
  <2>2. /\ stages' \subseteq AllStages /\ dirs' \subseteq AllStages
        /\ pc' \in [Clients -> Places] /\ on' \in [Clients -> AllStages \cup {None}]
        /\ todo' \in [Clients -> Seq(Files)] /\ JobInv'
    BY <1>2, BeginVisitTypes
  <2> QED
    BY <1>2, <2>1, <2>2 DEF TypeOK, histVars
<1>3. ASSUME NEW s \in AllStages, NEW m \in SUBSET Files, Remove(c, s, m) \/ Get(c, s, m), UNCHANGED copyVars
      PROVE  TypeOK' /\ JobInv'
  <2>1. purge' \in [Clients -> BOOLEAN] /\ abort' \in [Clients -> BOOLEAN]
    BY <1>3 DEF copyVars, TypeOK
  <2>2. BeginVisit(c, s, m, "remove") \/ BeginVisit(c, s, m, "get")
    BY <1>3 DEF Remove, Get
  <2> QED
    BY <2>1, <2>2, <1>2, <1>3 DEF copyVars
<1>4. ASSUME NEW s \in AllStages, NEW m \in SUBSET Files, NEW p \in BOOLEAN, NEW a \in BOOLEAN,
             CopyLoad(c, s, m, p, a)
      PROVE  TypeOK' /\ JobInv'
  <2>1. purge' \in [Clients -> BOOLEAN] /\ abort' \in [Clients -> BOOLEAN]
    BY <1>4 DEF CopyLoad, TypeOK
  <2> QED
    BY <2>1, <1>2, <1>4 DEF CopyLoad
<1>5. ASSUME NextFile(c) PROVE purge' \in [Clients -> BOOLEAN] /\ abort' \in [Clients -> BOOLEAN]
  BY <1>5 DEF NextFile, TypeOK
<1>6. ASSUME RemoveOne(c), UNCHANGED copyVars PROVE TypeOK' /\ JobInv'
  <2>1. pc[c] \in Visiting /\ Visited(c, "remove") /\ UNCHANGED <<name, id, fd, writes>>
    BY <1>6 DEF RemoveOne, Visiting
  <2>2. file' \in [AllStages -> [Files -> Inode \cup {None}]]
    BY <1>6, <2>1, <1>0, UnlinkTypes DEF RemoveOne, Discard
  <2>3. discarded' \subseteq Writes
    BY <1>6, <2>1, <1>0, LostType DEF RemoveOne, Discard, TypeOK
  <2>4. "remove" \in Visiting
    BY DEF Visiting
  <2> QED
    BY <1>6, <2>1, <2>2, <2>3, <2>4, VisitedTypes DEF RemoveOne, TypeOK, copyVars
<1>7. ASSUME GetOne(c), UNCHANGED copyVars PROVE TypeOK' /\ JobInv'
  <2>1. pc[c] \in Visiting /\ Visited(c, "get") /\ "get" \in Visiting
    BY <1>7 DEF GetOne, Visiting
  <2> QED
    BY <1>7, <2>1, VisitedTypes DEF GetOne, TypeOK, copyVars, stageVars, histVars
<1>8. ASSUME Purge(c) PROVE TypeOK' /\ JobInv'
  <2>1. pc[c] \in Visiting /\ Visited(c, "load") /\ "load" \in Visiting /\ NextFile(c)
    BY <1>8 DEF Purge, NextFile, Visiting
  <2>2. file' \in [AllStages -> [Files -> Inode \cup {None}]]
    BY <1>8, <2>1, <1>0, UnlinkTypes DEF Purge
  <2>3. spent' \subseteq Writes /\ read' \in [Clients -> SUBSET Writes]
    BY <1>8 DEF Purge, TypeOK
  <2> QED
    BY <1>8, <2>1, <2>2, <2>3, <1>5, VisitedTypes DEF Purge, TypeOK, histVars
<1>9. ASSUME LoadFailed(c) PROVE TypeOK' /\ JobInv'
  <2>1. pc[c] \in Visiting /\ "load" \in Visiting /\ pc[c] = "load"
    BY <1>9 DEF LoadFailed, Visiting
  <2>2. CASE NextFile(c)
    BY <1>9, <2>1, <2>2, <1>5, VisitedTypes DEF LoadFailed, NextFile, TypeOK, stageVars, histVars
  <2>3. CASE ~NextFile(c)
    <3>1. /\ Goto(c, "idle")
          /\ on' = [on EXCEPT ![c] = None] /\ todo' = [todo EXCEPT ![c] = <<>>]
          /\ purge' = [purge EXCEPT ![c] = FALSE] /\ abort' = [abort EXCEPT ![c] = FALSE]
      BY <1>9, <2>3 DEF LoadFailed
    <3>2. /\ pc' \in [Clients -> Places] /\ on' \in [Clients -> AllStages \cup {None}]
          /\ todo' \in [Clients -> Seq(Files)]
          /\ purge' \in [Clients -> BOOLEAN] /\ abort' \in [Clients -> BOOLEAN]
      BY <3>1 DEF Goto, TypeOK, Places
    <3>3. pc'[c] = "idle" /\ Others(c) /\ id' = id /\ writes' = writes
      BY <1>9, <3>1 DEF LoadFailed, Goto, TypeOK, Others
    <3>4. JobAt(c)'
      BY <3>3, <2>1 DEF JobInv, JobAt, Active, Open, Writing, Visiting
    <3>5. writes' \in Nat /\ writes <= writes'
      BY <3>3, Bounds DEF TypeOK
    <3>6. JobInv'
      BY <3>3, <3>4, <3>5, JobFrame
    <3> QED
      BY <1>9, <3>2, <3>6 DEF LoadFailed, TypeOK, stageVars, histVars
  <2> QED
    BY <2>2, <2>3
<1>10. ASSUME Loaded(c) PROVE TypeOK' /\ JobInv'
  <2> DEFINE n == file[on[c]][Head(todo[c])]
  <2>1. pc[c] \in Visiting /\ "load" \in Visiting /\ pc[c] = "load"
    BY <1>10 DEF Loaded, Visiting
  <2>2. n \in Inode /\ n.ino \in Writes /\ n.data \subseteq Writes
    BY <1>10, <2>1, <1>0 DEF Loaded, Inode
  <2>3. rows' \in [Writes -> Nat]
    <3>1. rows' = [w \in Writes |-> IF w \in n.data THEN rows[w] + 1 ELSE rows[w]]
      BY <1>10 DEF Loaded
    <3>2. rows \in [Writes -> Nat]
      BY DEF TypeOK
    <3> HIDE DEF n
    <3> QED
      BY <3>1, <3>2
  <2>4. UNCHANGED stageVars /\ UNCHANGED histVars /\ UNCHANGED <<name, id, fd, writes, spent>>
    BY <1>10 DEF Loaded
  <2>5. CASE NextFile(c) /\ UNCHANGED <<read, raced>>
    BY <2>1, <2>3, <2>4, <2>5, <1>5, VisitedTypes DEF NextFile, TypeOK, stageVars, histVars
  <2>6. CASE ~(NextFile(c) /\ UNCHANGED <<read, raced>>)
    <3>1. /\ Goto(c, "purge") /\ read' = [read EXCEPT ![c] = n.data]
          /\ raced' = raced \cup Holders(n.ino)
          /\ UNCHANGED <<todo, on, purge, abort>>
      BY <1>10, <2>6 DEF Loaded
    <3>2. pc' \in [Clients -> Places] /\ read' \in [Clients -> SUBSET Writes]
      BY <3>1, <2>2 DEF Goto, TypeOK, Places
    <3>3. raced' \subseteq Writes
      BY <3>1, HoldersType DEF TypeOK
    <3>4. pc'[c] = "purge" /\ Others(c) /\ id' = id /\ writes' = writes
      BY <2>4, <3>1 DEF Goto, TypeOK, Others
    <3>5. JobAt(c)'
      BY <3>1, <3>4, <2>1 DEF JobInv, JobAt, Active, Open, Writing, Visiting
    <3>6. writes' \in Nat /\ writes <= writes'
      BY <3>4, Bounds DEF TypeOK
    <3>7. JobInv'
      BY <3>4, <3>5, <3>6, JobFrame
    <3> QED
      BY <2>3, <2>4, <3>1, <3>2, <3>3, <3>7 DEF TypeOK, stageVars, histVars
  <2> QED
    BY <2>5, <2>6
<1> QED
  BY <1>1, <1>3, <1>4, <1>6, <1>7, <1>8, <1>9, <1>10

(* A reset with the files of kept left behind. *)
LEMMA ResetTypes ==
    ASSUME TypeOK, JobInv, ResetAll
    PROVE  TypeOK' /\ JobInv'
<1>0. PICK kept \in [AllStages -> SUBSET Files], left \in SUBSET dirs :
         (\A s \in AllStages : kept[s] \subseteq Present(s)) /\ Reset(kept, left)
  BY DEF ResetAll
<1>1. discarded' \subseteq Writes
  <2>1. \A s \in AllStages : \A f \in Present(s) : Lost(file[s][f]) \subseteq Writes
    BY LostType DEF Present
  <2> QED
    BY <1>0, <2>1 DEF Reset, TypeOK
<1>2. epoch' \in [AllStages -> 0 .. MaxDrops]
  BY <1>0, Bounds DEF Reset, TypeOK
<1>3. late' \subseteq Writes
  <2>1. \A s \in AllStages : \A f \in kept[s] : file[s][f].data \subseteq Writes
    BY <1>0 DEF TypeOK, Present, Inode
  <2> QED
    BY <1>0, <2>1 DEF Reset, TypeOK
<1>4. file' \in [AllStages -> [Files -> Inode \cup {None}]]
  BY <1>0 DEF Reset, TypeOK
<1>5. stages' \subseteq AllStages /\ dirs' \subseteq AllStages
  BY <1>0 DEF Reset, TypeOK
<1>6. TypeOK'
  BY <1>0, <1>1, <1>2, <1>3, <1>4, <1>5 DEF ResetAll, Reset, TypeOK, jobVars, copyVars
<1>7. JobInv'
  BY <1>0 DEF Reset, JobInv, JobAt, jobVars, Active, Open
<1> QED
  BY <1>6, <1>7

LEMMA TypeStep ==
    ASSUME IInv, [Next]_vars
    PROVE  TypeOK' /\ JobInv'
<1> USE DEF IInv
<1>1. ASSUME NEW c \in Clients, StageStep(c) PROVE TypeOK' /\ JobInv'
  <2>1. ASSUME NEW s \in AllStages, NEW f \in Files, Put(c, s, f), UNCHANGED copyVars
        PROVE  TypeOK' /\ JobInv'
    BY <2>1, BeginWriteTypes DEF Put
  <2> QED
    BY <1>1, <2>1, DDLTypes, WriteTypes, VisitTypes DEF StageStep
<1>2. ASSUME NEW c \in Clients, CopyStep(c) PROVE TypeOK' /\ JobInv'
  <2>1. ASSUME NEW s \in AllStages, NEW f \in Files, NEW l \in UnloadStarts, CopyUnload(c, s, f, l)
        PROVE  TypeOK' /\ JobInv'
    BY <2>1, BeginWriteTypes DEF CopyUnload
  <2> QED
    BY <1>2, <2>1, WriteTypes, VisitTypes DEF CopyStep
<1>3. CASE UNCHANGED vars
  BY <1>3 DEF vars, TypeOK, JobInv, JobAt, Active, Open
<1> QED
  BY <1>1, <1>2, <1>3, ResetTypes DEF Next

----------------------------------------------------------------------------
(* A step that opens no file and ends no write: names may go away, if what  *)
(* they led to is loaded, discarded or raced.                               *)
Gone(s, f) ==
    /\ \A w \in Writes : Stored(w, s, f) => rows'[w] > 0 \/ w \in discarded' \cup raced'
    /\ \A c \in Clients : Open(c) /\ Points(s, f, fd[c]) => id[c] \in discarded' \cup raced'

Shrinks ==
    /\ UNCHANGED <<id, fd, name, writes, born, uploaded, spoiled>>
    /\ \A c \in Clients : pc'[c] = "copy" <=> pc[c] = "copy"
    /\ \A c \in Clients : Active(c) => on'[c] = on[c]
    /\ \A s \in AllStages, f \in Files :
          file'[s][f] = file[s][f] \/ (file'[s][f] = None /\ Gone(s, f))
    /\ \A w \in Writes : rows'[w] >= rows[w]
    /\ discarded \subseteq discarded' /\ raced \subseteq raced' /\ late \subseteq late'
    /\ \A s \in AllStages : \/ epoch'[s] = epoch[s]
                            \/ /\ \A f \in Files, w \in Writes : Stored(w, s, f)' => w \in late'
                               /\ \A c \in Clients : Active(c) /\ on[c] = s => id[c] \in late'
    /\ \A c \in Clients : pc'[c] = "purge" =>
          \/ PurgeAt(c)'
          \/ pc[c] = "purge" /\ on'[c] = on[c] /\ todo'[c] = todo[c] /\ read'[c] = read[c]
    /\ \A w \in spent' : \/ w \in spent
                         \/ Done(w) /\ \A s \in AllStages, f \in Files : ~Stored(w, s, f)'

LEMMA ShrinkStep ==
    ASSUME IInv, TypeOK', JobInv', Shrinks
    PROVE  FileInv'
<1> USE DEF IInv, FileInv
<1>1. /\ \A c \in Clients : Active(c)' <=> Active(c)
      /\ \A c \in Clients : Open(c)' <=> Open(c)
      /\ \A w : Done(w)' <=> Done(w)
      /\ \A c \in Clients : Open(c) => Active(c)
  BY DEF Shrinks, Active, Open, Done, JobInv, JobAt, Writing
<1>2. /\ \A s \in AllStages, f \in Files, w \in Writes :
            Stored(w, s, f)' => Stored(w, s, f) /\ file'[s][f] = file[s][f]
      /\ \A s \in AllStages, f \in Files, i \in Writes :
            Points(s, f, i)' => Points(s, f, i) /\ file'[s][f] = file[s][f]
  BY DEF Shrinks, Stored, Points
<1>3. \A w \in Writes : Kept(w) => Kept(w)'
  BY DEF Shrinks, Kept, TypeOK
<1>4. /\ \A c \in Clients : Active(c) => id[c] \in Writes /\ on[c] \in AllStages /\ name[c] \in Files
      /\ \A c \in Clients : Open(c) => fd[c] \in Writes
  BY DEF TypeOK, JobInv, JobAt, Active
<1>5. NameInv'
  BY <1>1, <1>2, <1>4 DEF NameInv, Shrinks
<1>6. HolderInv'
  <2>1. ASSUME NEW c \in Clients, Open(c)
        PROVE  /\ on'[c] = on[c] /\ name'[c] = name[c] /\ fd'[c] = fd[c] /\ id'[c] = id[c]
               /\ fd[c] \in Writes /\ on[c] \in AllStages /\ name[c] \in Files
    BY <2>1, <1>1, <1>4 DEF Shrinks
  <2>2. ASSUME NEW c \in Clients, NEW s \in AllStages, NEW f \in Files, Open(c)', Points(s, f, fd[c])'
        PROVE  s = on'[c] /\ f = name'[c]
    BY <2>1, <2>2, <1>1, <1>2 DEF HolderInv
  <2>3. ASSUME NEW c \in Clients, NEW d \in Clients, Open(c)', Open(d)', fd'[c] = fd'[d]
        PROVE  c = d \/ fd'[c] \in spoiled'
    BY <2>1, <2>3, <1>1 DEF HolderInv, Shrinks
  <2>4. ASSUME NEW c \in Clients, Open(c)', Linked(c)'
        PROVE  fd'[c] \in spoiled' \/ file'[on'[c]][name'[c]].data = {}
    <3>1. Open(c) /\ spoiled' = spoiled
      BY <2>4, <1>1 DEF Shrinks
    <3>2. Points(on[c], name[c], fd[c])'
      BY <2>1, <2>4, <3>1 DEF Linked
    <3>3. Linked(c) /\ file'[on[c]][name[c]] = file[on[c]][name[c]]
      BY <2>1, <3>1, <3>2, <1>2 DEF Linked
    <3> QED
      BY <2>1, <3>1, <3>3 DEF HolderInv
  <2>5. ASSUME NEW c \in Clients, Open(c)', ~Linked(c)'
        PROVE  id'[c] \in discarded' \cup raced'
    <3>1. CASE Linked(c)
      BY <3>1, <2>1, <2>5, <1>1 DEF Shrinks, Linked, Gone, Points
    <3>2. CASE ~Linked(c)
      BY <3>2, <2>1, <2>5, <1>1 DEF HolderInv, Shrinks
    <3> QED
      BY <3>1, <3>2
  <2> QED
    BY <2>2, <2>3, <2>4, <2>5 DEF HolderInv
<1>7. PurgeInv'
  <2> SUFFICES ASSUME NEW c \in Clients, pc[c] = "purge", PurgeAt(c), pc'[c] = "purge",
                      on'[c] = on[c], todo'[c] = todo[c], read'[c] = read[c]
               PROVE  PurgeAt(c)'
    BY DEF PurgeInv, Shrinks
  <2>1. on[c] \in AllStages /\ Head(todo[c]) \in Files
    <3>1. on[c] \in AllStages /\ todo[c] \in Seq(Files) /\ todo[c] # << >>
      BY DEF JobInv, JobAt, TypeOK, Visiting
    <3> QED
      BY <3>1
  <2>2. \A w \in read[c] : w \in Writes
    BY DEF TypeOK
  <2>3. \A w \in Writes : Stored(w, on[c], Head(todo[c]))' => Kept(w)'
    BY <2>1, <1>2, <1>3 DEF PurgeAt
  <2>4. \A d \in Clients : Open(d)' /\ Points(on[c], Head(todo[c]), fd[d])' => id'[d] \in raced'
    BY <2>1, <1>1, <1>2, <1>4 DEF PurgeAt, Shrinks
  <2>5. \A w \in read'[c] : /\ Done(w)'
                            /\ \A s \in AllStages, f \in Files :
                                  Stored(w, s, f)' => s = on'[c] /\ f = Head(todo'[c])
    BY <2>2, <1>1, <1>2 DEF PurgeAt
  <2> QED
    BY <2>3, <2>4, <2>5 DEF PurgeAt
<1>8. SpentInv'
  BY <1>1, <1>2 DEF SpentInv, Shrinks, TypeOK
<1>9. LateInv'
  <2>1. ASSUME NEW s \in AllStages, NEW f \in Files, NEW w \in Writes, Stored(w, s, f)'
        PROVE  born'[w] = epoch'[s] \/ w \in late'
    BY <2>1, <1>2 DEF LateInv, Shrinks, Stored
  <2>2. ASSUME NEW c \in Clients, Active(c)'
        PROVE  born'[id'[c]] = epoch'[on'[c]] \/ id'[c] \in late'
    BY <2>2, <1>1, <1>4 DEF LateInv, Shrinks
  <2> QED
    BY <2>1, <2>2 DEF LateInv
<1>10. UploadInv'
  <2> SUFFICES ASSUME NEW w \in uploaded, w \in Writes, ~Kept(w)'
               PROVE  \E s \in AllStages, f \in Files : Stored(w, s, f)'
    BY DEF UploadInv, Shrinks, TypeOK
  <2>1. PICK s \in AllStages, f \in Files : Stored(w, s, f)
    BY <1>3 DEF UploadInv
  <2>2. file'[s][f] = file[s][f]
    BY <2>1 DEF Shrinks, Gone, Kept
  <2> QED
    BY <2>1, <2>2 DEF Stored
<1>11. WholeInv'
  BY <1>1, <1>2 DEF WholeInv, Shrinks
<1> QED
  BY <1>5, <1>6, <1>7, <1>8, <1>9, <1>10, <1>11

(* What a client that visits files has listed. *)
LEMMA HeadListed ==
    ASSUME TypeOK, JobInv, NEW c \in Clients, pc[c] \in Visiting
    PROVE  on[c] \in AllStages /\ Head(todo[c]) \in Files /\ ~Active(c) /\ ~Open(c)
<1>1. on[c] \in AllStages /\ todo[c] \in Seq(Files) /\ todo[c] # << >>
  BY DEF JobInv, JobAt, TypeOK, Visiting
<1>2. ~Active(c) /\ ~Open(c)
  BY DEF JobInv, JobAt, Visiting, Writing, Open
<1> QED
  BY <1>1, <1>2

(* No name changes: CREATE STAGE, the steps of a write before it opens its  *)
(* file, the steps of a visit that remove nothing.                          *)
LEMMA QuietStep ==
    ASSUME IInv, TypeOK', JobInv', NEW c \in Clients, Others(c),
           UNCHANGED <<file, id, fd, name, writes>>, UNCHANGED histVars,
           UNCHANGED <<read, spent, raced>>, \A w \in Writes : rows'[w] >= rows[w],
           pc[c] # "copy", pc'[c] \notin {"copy", "purge"}, Active(c) => on'[c] = on[c]
    PROVE  FileInv'
<1>1. Shrinks
  BY DEF Shrinks, Others, histVars
<1> QED
  BY <1>1, ShrinkStep

LEMMA SameRows ==
    ASSUME TypeOK, rows' = rows
    PROVE  \A w \in Writes : rows'[w] >= rows[w]
  BY DEF TypeOK

(* Everything a statement that is meant to discard a file takes away is in  *)
(* discarded.                                                               *)
LEMMA LostGone ==
    ASSUME IInv, NEW s \in AllStages, NEW f \in Files,
           file[s][f] # None => Lost(file[s][f]) \subseteq discarded'
    PROVE  Gone(s, f)
  BY DEF Gone, Lost, Holders, Stored, Points

LEMMA DiscardStep ==
    ASSUME IInv, TypeOK', JobInv', NEW c \in Clients, Others(c),
           NEW s \in AllStages, NEW f \in Files, Discard(s, f),
           UNCHANGED <<id, fd, name, writes, epoch, born, late, uploaded, spoiled>>,
           UNCHANGED copyVars,
           pc[c] # "copy", pc'[c] \notin {"copy", "purge"}, Active(c) => on'[c] = on[c]
    PROVE  FileInv'
<1>1. \A t \in AllStages, g \in Files : file'[t][g] = file[t][g] \/ (file'[t][g] = None /\ Gone(t, g))
  <2>1. CASE UNCHANGED <<file, discarded>>
    BY <2>1
  <2>2. CASE /\ Unlink(s, f)
             /\ discarded' = discarded \cup (IF file[s][f] = None THEN {} ELSE Lost(file[s][f]))
    <3>1. Gone(s, f)
      BY <2>2, LostGone
    <3>2. file'[s][f] = None /\ \A t \in AllStages, g \in Files : t # s \/ g # f => file'[t][g] = file[t][g]
      BY <2>2 DEF Unlink, IInv, TypeOK
    <3> QED
      BY <3>1, <3>2
  <2> QED
    BY <2>1, <2>2 DEF Discard
<1>2. discarded \subseteq discarded'
  BY DEF Discard
<1>3. \A w \in Writes : rows'[w] >= rows[w]
  BY SameRows DEF IInv, copyVars
<1>4. Shrinks
  BY <1>1, <1>2, <1>3 DEF Shrinks, Others, copyVars
<1> QED
  BY <1>4, ShrinkStep

(* A file that os.RemoveAll leaves behind is in late, and so are the writes *)
(* under way.                                                               *)
LEMMA RemoveStageStep ==
    ASSUME IInv, TypeOK', JobInv', NEW c \in Clients, Others(c), ~Active(c),
           NEW s \in AllStages, RemoveSome(s),
           UNCHANGED <<id, fd, name, writes>>, UNCHANGED copyVars,
           pc[c] # "copy", pc'[c] \notin {"copy", "purge"}
    PROVE  FileInv'
<1>0. PICK kept \in SUBSET Present(s), stays \in BOOLEAN : RemoveStage(s, kept, stays)
  BY DEF RemoveSome
<1>1. /\ \A f \in Files : IF f \in kept THEN file'[s][f] = file[s][f] ELSE file'[s][f] = None
      /\ \A t \in AllStages, g \in Files : t # s => file'[t][g] = file[t][g]
  BY <1>0 DEF RemoveStage, IInv, TypeOK
<1>2. \A f \in Files \ kept : Gone(s, f)
  <2> SUFFICES ASSUME NEW f \in Files \ kept, file[s][f] # None
               PROVE  Lost(file[s][f]) \subseteq discarded'
    BY LostGone
  <2> QED
    BY <1>0 DEF RemoveStage, Present
<1>3. \A t \in AllStages, g \in Files : file'[t][g] = file[t][g] \/ (file'[t][g] = None /\ Gone(t, g))
  BY <1>1, <1>2
<1>4. discarded \subseteq discarded' /\ late \subseteq late'
  BY <1>0 DEF RemoveStage
<1>5. \A w \in Writes : rows'[w] >= rows[w]
  BY SameRows DEF IInv, copyVars
<1>6. \A f \in Files, w \in Writes : Stored(w, s, f)' => w \in late'
  <2> SUFFICES ASSUME NEW f \in Files, NEW w \in Writes, file'[s][f] # None, w \in file'[s][f].data
               PROVE  w \in late'
    BY DEF Stored
  <2>1. f \in kept /\ w \in file[s][f].data
    BY <1>1
  <2> QED
    BY <1>0, <2>1 DEF RemoveStage
<1>7. \A t \in AllStages :
         \/ epoch'[t] = epoch[t]
         \/ /\ \A f \in Files, w \in Writes : Stored(w, t, f)' => w \in late'
            /\ \A d \in Clients : Active(d) /\ on[d] = t => id[d] \in late'
  <2>1. \A t \in AllStages : t # s => epoch'[t] = epoch[t]
    BY <1>0 DEF RemoveStage, IInv, TypeOK
  <2>2. \A d \in Clients : Active(d) /\ on[d] = s => id[d] \in late'
    BY <1>0 DEF RemoveStage, Active
  <2> QED
    BY <1>6, <2>1, <2>2
<1>8. UNCHANGED <<born, uploaded, spoiled>>
  BY <1>0 DEF RemoveStage
<1>9. Shrinks
  BY <1>3, <1>4, <1>5, <1>7, <1>8 DEF Shrinks, Others, copyVars
<1> QED
  BY <1>9, ShrinkStep

LEMMA ResetStep ==
    ASSUME IInv, TypeOK', JobInv', ResetAll
    PROVE  FileInv'
<1>0. PICK kept \in [AllStages -> SUBSET Files], left \in SUBSET dirs :
         (\A s \in AllStages : kept[s] \subseteq Present(s)) /\ Reset(kept, left)
  BY DEF ResetAll
<1>1. \A s \in AllStages, f \in Files :
         IF f \in kept[s] THEN file'[s][f] = file[s][f] ELSE file'[s][f] = None
  BY <1>0 DEF Reset
<1>2. \A s \in AllStages, f \in Files : f \notin kept[s] => Gone(s, f)
  <2> SUFFICES ASSUME NEW s \in AllStages, NEW f \in Files \ kept[s], file[s][f] # None
               PROVE  Lost(file[s][f]) \subseteq discarded'
    BY LostGone
  <2> QED
    BY <1>0 DEF Reset, Present
<1>3. \A c \in Clients : pc[c] = "idle" /\ pc'[c] = "idle" /\ ~Active(c)
  BY <1>0 DEF Reset, IInv, JobInv, JobAt, Writing
<1>4. \A w \in Writes : rows'[w] >= rows[w]
  BY SameRows DEF IInv, ResetAll, copyVars
<1>5. /\ UNCHANGED <<born, uploaded, spoiled>> /\ UNCHANGED jobVars /\ UNCHANGED copyVars
      /\ discarded \subseteq discarded' /\ late \subseteq late'
  BY <1>0 DEF ResetAll, Reset
<1>6. \A s \in AllStages, f \in Files, w \in Writes : Stored(w, s, f)' => w \in late'
  <2> SUFFICES ASSUME NEW s \in AllStages, NEW f \in Files, NEW w \in Writes,
                      file'[s][f] # None, w \in file'[s][f].data
               PROVE  w \in late'
    BY DEF Stored
  <2>1. f \in kept[s] /\ w \in file[s][f].data
    BY <1>1
  <2> QED
    BY <1>0, <2>1 DEF Reset
<1>7. \A s \in AllStages, f \in Files : file'[s][f] = file[s][f] \/ (file'[s][f] = None /\ Gone(s, f))
  BY <1>1, <1>2
<1>8. Shrinks
  BY <1>3, <1>4, <1>5, <1>6, <1>7 DEF Shrinks, jobVars, copyVars
<1> QED
  BY <1>8, ShrinkStep

(* COPY with PURGE: the INSERT, and the os.Remove that follows. *)
LEMMA LoadedStep ==
    ASSUME IInv, TypeOK', JobInv', NEW c \in Clients, Loaded(c)
    PROVE  FileInv'
<1> DEFINE s == on[c]
           f == Head(todo[c])
           n == file[s][f]
<1>1. pc[c] = "load" /\ n # None /\ s \in AllStages /\ f \in Files /\ ~Active(c)
  BY HeadListed DEF Loaded, Visiting, IInv
<1>2. n \in Inode /\ n.data \subseteq Writes
  BY <1>1 DEF IInv, TypeOK, Inode
<1>3. /\ \A w \in Writes : rows'[w] >= rows[w]
      /\ \A w \in n.data : rows'[w] > 0
  <2>1. rows' = [w \in Writes |-> IF w \in n.data THEN rows[w] + 1 ELSE rows[w]]
    BY DEF Loaded
  <2>2. rows \in [Writes -> Nat]
    BY DEF IInv, TypeOK
  <2> HIDE DEF n
  <2> QED
    BY <1>2, <2>1, <2>2
<1>4. UNCHANGED stageVars /\ UNCHANGED histVars /\ UNCHANGED <<name, id, fd, writes, spent>>
  BY DEF Loaded
<1>5. CASE NextFile(c) /\ UNCHANGED <<read, raced>>
  <2>1. Others(c) /\ pc'[c] \in {"load", "idle"}
    BY <1>4, <1>5 DEF NextFile, Visited, Goto, IInv, TypeOK, Others
  <2> QED
    BY <1>1, <1>3, <1>4, <1>5, <2>1, QuietStep DEF stageVars
<1>6. CASE ~(NextFile(c) /\ UNCHANGED <<read, raced>>)
  <2>1. /\ Goto(c, "purge") /\ read' = [read EXCEPT ![c] = n.data]
        /\ raced' = raced \cup Holders(n.ino)
        /\ UNCHANGED <<todo, on>>
    BY <1>6 DEF Loaded
  <2>2. /\ pc'[c] = "purge" /\ read'[c] = n.data
        /\ \A d \in Clients \ {c} : pc'[d] = pc[d] /\ read'[d] = read[d]
    BY <2>1 DEF Goto, IInv, TypeOK
  <2>3. \A w \in Writes : Stored(w, s, f)' => Kept(w)'
    BY <1>3, <1>4, <2>1 DEF Stored, Kept, stageVars
  <2>4. \A d \in Clients : Open(d)' /\ Points(s, f, fd[d])' => id'[d] \in raced'
    BY <1>1, <1>4, <2>1, <2>2 DEF Points, Open, Holders, stageVars
  <2>5. \A w \in n.data : /\ Done(w)'
                          /\ \A t \in AllStages, g \in Files : Stored(w, t, g)' => t = s /\ g = f
    <3> SUFFICES ASSUME NEW w \in n.data
                 PROVE  /\ Done(w)
                        /\ \A t \in AllStages, g \in Files : Stored(w, t, g) => t = s /\ g = f
      BY <1>4 DEF Done, Stored, stageVars
    <3>1. Stored(w, s, f) /\ w \in Writes
      BY <1>1, <1>2 DEF Stored
    <3> HIDE DEF s, f
    <3> QED
      BY <3>1, <1>1 DEF IInv, FileInv, NameInv
  <2>6. PurgeAt(c)'
    BY <2>1, <2>2, <2>3, <2>4, <2>5 DEF PurgeAt
  <2>7. Shrinks
    BY <1>1, <1>3, <1>4, <2>1, <2>2, <2>6 DEF Shrinks, stageVars, histVars
  <2> QED
    BY <2>7, ShrinkStep
<1> QED
  BY <1>5, <1>6

LEMMA PurgeStep ==
    ASSUME IInv, TypeOK', JobInv', NEW c \in Clients, Purge(c)
    PROVE  FileInv'
<1> DEFINE s == on[c]
           f == Head(todo[c])
<1>1. pc[c] = "purge" /\ s \in AllStages /\ f \in Files /\ ~Active(c)
  BY HeadListed DEF Purge, Visiting, IInv
<1>2. \/ UNCHANGED <<file, spent>>
      \/ /\ file'[s][f] = None /\ spent' = spent \cup read[c]
         /\ \A t \in AllStages, g \in Files : t # s \/ g # f => file'[t][g] = file[t][g]
  BY <1>1 DEF Purge, Unlink, IInv, TypeOK
<1>3. UNCHANGED <<name, id, fd, writes, rows, raced>> /\ UNCHANGED histVars
  BY DEF Purge
<1>4. PurgeAt(c)
  BY <1>1 DEF IInv, FileInv, PurgeInv
<1>5. Gone(s, f)
  BY <1>3, <1>4 DEF PurgeAt, Gone, Kept, histVars
<1>6. \A t \in AllStages, g \in Files : file'[t][g] = file[t][g] \/ (file'[t][g] = None /\ Gone(t, g))
  BY <1>2, <1>5
<1>7. \A w \in spent' :
         \/ w \in spent
         \/ Done(w) /\ \A t \in AllStages, g \in Files : ~Stored(w, t, g)'
  BY <1>1, <1>2, <1>4 DEF PurgeAt, Stored
<1>9. Others(c) /\ pc'[c] \in {"load", "idle"} /\ \A d \in Clients \ {c} : read'[d] = read[d]
  BY <1>3 DEF Purge, NextFile, Visited, Goto, IInv, TypeOK, Others
<1>10. \A w \in Writes : rows'[w] >= rows[w]
  BY <1>3, SameRows DEF IInv
<1>11. Shrinks
  BY <1>1, <1>3, <1>6, <1>7, <1>9, <1>10 DEF Shrinks, Others, histVars
<1> QED
  BY <1>11, ShrinkStep

----------------------------------------------------------------------------
(* A write gets the next number, which is nobody's. *)
LEMMA BeginWriteStep ==
    ASSUME IInv, TypeOK', JobInv', NEW c \in Clients, NEW s \in AllStages, NEW f \in Files,
           NEW l \in {"mkdir"} \cup UnloadStarts, BeginWrite(c, s, f, l), UNCHANGED copyVars
    PROVE  FileInv'
<1> USE DEF IInv, FileInv
<1>1. /\ pc[c] = "idle" /\ writes' = writes + 1
      /\ UNCHANGED <<file, fd, todo, epoch, late, uploaded, discarded, spoiled>>
      /\ pc'[c] = l /\ on'[c] = s /\ name'[c] = f /\ id'[c] = writes + 1
      /\ Others(c)
  BY DEF BeginWrite, Goto, TypeOK, Others
<1>2. l \notin {"copy", "purge"}
  BY DEF UnloadStarts
<1>3. writes \in Nat /\ writes + 1 \in Writes /\ \A w \in Writes : w \in Nat
  BY Bounds DEF BeginWrite, TypeOK, Writes
<1>4. ~Active(c) /\ Active(c)' /\ \A d \in Clients \ {c} : Active(d)' <=> Active(d)
  BY <1>1, <1>3, Bounds DEF Active, JobInv, JobAt, Writing, Others
<1>5. \A d \in Clients : Open(d)' <=> Open(d)
  BY <1>1, <1>2 DEF Open, Others
<1>6. /\ \A d \in Clients : Active(d) => id[d] \in Writes /\ id[d] <= writes
      /\ \A d \in Clients : Open(d) => Active(d) /\ d # c /\ fd[d] \in Writes /\ fd[d] <= writes
  BY <1>1 DEF TypeOK, JobInv, JobAt, Active, Open, Writing
<1>7. \A w \in Writes : Done(w) => Done(w)' /\ w # writes + 1
  BY <1>1, <1>3 DEF Done, Others
<1>8. /\ \A t \in AllStages, g \in Files : \A i : Points(t, g, i)' <=> Points(t, g, i)
      /\ \A t \in AllStages, g \in Files : \A w : Stored(w, t, g)' <=> Stored(w, t, g)
      /\ \A w : Kept(w)' <=> Kept(w)
  BY <1>1 DEF Points, Stored, Kept, copyVars
<1>9. NameInv'
  <2>1. ASSUME NEW d \in Clients, NEW e \in Clients, Active(d)', id'[d] = id'[e] PROVE d = e
    <3>1. CASE d = c
      BY <3>1, <2>1, <1>1, <1>3, <1>6 DEF Others, Active
    <3>2. CASE d # c /\ e # c
      BY <3>2, <2>1, <1>1, <1>4 DEF Others, NameInv
    <3>3. CASE d # c /\ e = c
      BY <3>3, <2>1, <1>1, <1>3, <1>4, <1>6 DEF Others
    <3> QED
      BY <3>1, <3>2, <3>3
  <2>2. ASSUME NEW t \in AllStages, NEW g \in Files, NEW i \in Writes, Points(t, g, i)'
        PROVE  i <= writes'
    BY <2>2, <1>1, <1>3, <1>8 DEF NameInv
  <2>3. \A t \in AllStages, g \in Files, w \in Writes : Stored(w, t, g)' => Done(w)'
    BY <1>7, <1>8 DEF NameInv
  <2>4. ASSUME NEW d \in Clients, Active(d)', ~Open(d)'
        PROVE  /\ \A t \in AllStages, g \in Files : ~Points(t, g, id[d])'
               /\ \A e \in Clients : Open(e)' => fd'[e] # id'[d]
    <3>1. CASE d = c
      <4>1. \A t \in AllStages, g \in Files : ~Points(t, g, writes + 1)
        BY <1>3 DEF NameInv
      <4>2. \A e \in Clients : Open(e) => fd[e] # writes + 1
        BY <1>3, <1>6
      <4> QED
        BY <3>1, <4>1, <4>2, <1>1, <1>5 DEF Points
    <3>2. CASE d # c
      BY <3>2, <2>4, <1>1, <1>4, <1>5 DEF NameInv, Others, Points
    <3> QED
      BY <3>1, <3>2
  <2> QED
    BY <2>1, <2>2, <2>3, <2>4, <1>8 DEF NameInv
<1>10. \A d \in Clients : Open(d) => /\ on'[d] = on[d] /\ name'[d] = name[d]
                                     /\ id'[d] = id[d] /\ fd'[d] = fd[d]
  BY <1>1, <1>6 DEF Others
<1>11. HolderInv'
  BY <1>1, <1>5, <1>10 DEF HolderInv, Linked, Points, copyVars
<1>12. PurgeInv'
  <2> SUFFICES ASSUME NEW d \in Clients \ {c}, pc[d] = "purge", PurgeAt(d)
               PROVE  PurgeAt(d)'
    BY <1>1, <1>2 DEF PurgeInv, Others
  <2>1. on'[d] = on[d] /\ todo'[d] = todo[d] /\ read'[d] = read[d] /\ read[d] \subseteq Writes
    BY <1>1 DEF Others, copyVars, TypeOK
  <2>2. on[d] \in AllStages /\ Head(todo[d]) \in Files
    BY HeadListed DEF Visiting
  <2>3. \A w \in Writes : Stored(w, on[d], Head(todo[d]))' => Kept(w)'
    BY <2>1, <2>2, <1>8 DEF PurgeAt
  <2>4. \A e \in Clients : Open(e)' /\ Points(on[d], Head(todo[d]), fd[e])' => id'[e] \in raced'
    BY <2>1, <2>2, <1>5, <1>8, <1>10 DEF PurgeAt, copyVars
  <2>5. \A w \in read'[d] : /\ Done(w)'
                            /\ \A t \in AllStages, g \in Files :
                                  Stored(w, t, g)' => t = on'[d] /\ g = Head(todo'[d])
    BY <2>1, <1>7, <1>8 DEF PurgeAt
  <2> QED
    BY <2>3, <2>4, <2>5 DEF PurgeAt
<1>13. SpentInv'
  BY <1>7, <1>8 DEF SpentInv, TypeOK, copyVars
<1>14. LateInv'
  <2>1. born'[writes + 1] = epoch[s] /\ \A w \in Writes : w # writes + 1 => born'[w] = born[w]
    BY <1>3 DEF BeginWrite, TypeOK
  <2>2. ASSUME NEW t \in AllStages, NEW g \in Files, NEW w \in Writes, Stored(w, t, g)'
        PROVE  born'[w] = epoch'[t] \/ w \in late'
    <3>1. Stored(w, t, g) /\ w # writes + 1
      BY <2>2, <1>7, <1>8 DEF NameInv
    <3> QED
      BY <3>1, <2>1, <1>1 DEF LateInv
  <2>3. ASSUME NEW d \in Clients, Active(d)' PROVE born'[id'[d]] = epoch'[on'[d]] \/ id'[d] \in late'
    <3>1. CASE d = c
      BY <3>1, <2>1, <1>1
    <3>2. CASE d # c
      <4>1. Active(d) /\ id'[d] = id[d] /\ on'[d] = on[d] /\ id[d] # writes + 1 /\ id[d] \in Writes
        BY <3>2, <2>3, <1>1, <1>3, <1>4, <1>6 DEF Others
      <4> QED
        BY <4>1, <2>1, <1>1 DEF LateInv
    <3> QED
      BY <3>1, <3>2
  <2> QED
    BY <2>2, <2>3 DEF LateInv
<1>15. UploadInv'
  BY <1>1, <1>8 DEF UploadInv
<1>16. WholeInv'
  BY <1>1, <1>5, <1>8 DEF WholeInv
<1> QED
  BY <1>9, <1>11, <1>12, <1>13, <1>14, <1>15, <1>16

(* A write ends without a file: the directory was gone, or the copy failed  *)
(* and left a spoiled inode behind.                                         *)
LEMMA EndWriteStep ==
    ASSUME IInv, TypeOK', JobInv', NEW c \in Clients, pc[c] \in Writing, Answer(c),
           UNCHANGED <<file, todo, writes, epoch, born, late, uploaded, discarded>>,
           UNCHANGED <<read, rows, spent>>, raced \subseteq raced',
           spoiled \subseteq spoiled', Open(c) => fd[c] \in spoiled'
    PROVE  FileInv'
<1> USE DEF IInv, FileInv
<1>1. pc'[c] = "idle" /\ id'[c] = None /\ Others(c)
  BY DEF Answer, Goto, TypeOK, Others
<1>2. /\ \A d \in Clients : Open(d)' => Open(d) /\ d # c
      /\ \A d \in Clients : Active(d)' => Active(d) /\ d # c
      /\ \A d \in Clients \ {c} : Open(d)' <=> Open(d)
  BY <1>1 DEF Open, Active, Others
<1>3. \A w \in Writes : Done(w) => Done(w)'
  BY <1>1, Bounds DEF Done, Others
<1>4. /\ \A t \in AllStages, g \in Files : \A i : Points(t, g, i)' <=> Points(t, g, i)
      /\ \A t \in AllStages, g \in Files : \A w : Stored(w, t, g)' <=> Stored(w, t, g)
      /\ \A w : Kept(w) => Kept(w)'
  BY DEF Points, Stored, Kept
<1>5. NameInv'
  <2>1. \A d, e \in Clients : Active(d)' /\ id'[d] = id'[e] => d = e
    BY <1>1, <1>2 DEF NameInv, Others, Active
  <2>2. \A d \in Clients : Active(d)' /\ ~Open(d)' =>
          /\ \A t \in AllStages, g \in Files : ~Points(t, g, id[d])'
          /\ \A e \in Clients : Open(e)' => fd'[e] # id'[d]
    BY <1>1, <1>2 DEF NameInv, Others, Points
  <2> QED
    BY <2>1, <2>2, <1>3, <1>4 DEF NameInv
<1>6. HolderInv'
  <2>1. \A d \in Clients : Open(d)' =>
           /\ Open(d) /\ on'[d] = on[d] /\ name'[d] = name[d] /\ id'[d] = id[d] /\ fd'[d] = fd[d]
           /\ Linked(d)' <=> Linked(d)
    BY <1>1, <1>2 DEF Others, Linked, Points
  <2>2. \A d \in Clients, t \in AllStages, g \in Files :
           Open(d)' /\ Points(t, g, fd[d])' => t = on'[d] /\ g = name'[d]
    BY <2>1, <1>4 DEF HolderInv
  <2>3. \A d, e \in Clients :
           Open(d)' /\ Open(e)' /\ fd'[d] = fd'[e] => d = e \/ fd'[d] \in spoiled'
    BY <2>1 DEF HolderInv
  <2>4. \A d \in Clients : Open(d)' /\ Linked(d)' =>
           fd'[d] \in spoiled' \/ file'[on'[d]][name'[d]].data = {}
    BY <2>1 DEF HolderInv
  <2>5. \A d \in Clients : Open(d)' /\ ~Linked(d)' => id'[d] \in discarded' \cup raced'
    BY <2>1 DEF HolderInv
  <2> QED
    BY <2>1, <2>2, <2>3, <2>4, <2>5 DEF HolderInv
<1>7. PurgeInv'
  <2> SUFFICES ASSUME NEW d \in Clients \ {c}, pc[d] = "purge", PurgeAt(d)
               PROVE  PurgeAt(d)'
    BY <1>1 DEF PurgeInv, Others
  <2>1. on'[d] = on[d] /\ todo'[d] = todo[d] /\ read'[d] = read[d] /\ read[d] \subseteq Writes
    BY <1>1 DEF Others, TypeOK
  <2>2. on[d] \in AllStages /\ Head(todo[d]) \in Files
    BY HeadListed DEF Visiting
  <2>3. \A w \in Writes : Stored(w, on[d], Head(todo[d]))' => Kept(w)'
    BY <2>1, <2>2, <1>4 DEF PurgeAt
  <2>4. \A e \in Clients : Open(e)' /\ Points(on[d], Head(todo[d]), fd[e])' => id'[e] \in raced'
    BY <2>1, <2>2, <1>1, <1>2 DEF PurgeAt, Others, Points
  <2>5. \A w \in read'[d] : /\ Done(w)'
                            /\ \A t \in AllStages, g \in Files :
                                  Stored(w, t, g)' => t = on'[d] /\ g = Head(todo'[d])
    BY <2>1, <1>3, <1>4 DEF PurgeAt
  <2> QED
    BY <2>3, <2>4, <2>5 DEF PurgeAt
<1>8. SpentInv'
  BY <1>3, <1>4 DEF SpentInv, TypeOK
<1>9. LateInv'
  BY <1>1, <1>2, <1>4 DEF LateInv, Others
<1>10. UploadInv'
  BY <1>4 DEF UploadInv
<1>11. WholeInv'
  BY <1>1, <1>2, <1>4 DEF WholeInv, Others
<1> QED
  BY <1>5, <1>6, <1>7, <1>8, <1>9, <1>10, <1>11

(* A write opens its file: a new inode under a free name, or the old inode, *)
(* truncated.                                                               *)
Opens(c, s, f, i) ==
    /\ pc[c] \in Writing \ {"copy"} /\ s = on[c] /\ f = name[c]
    /\ i = IF file[s][f] = None THEN id[c] ELSE file[s][f].ino
    /\ file' = [file EXCEPT ![s][f] = [ino |-> i, data |-> {}]]
    /\ fd' = [fd EXCEPT ![c] = i]
    /\ discarded \subseteq discarded'
    /\ file[s][f] # None => file[s][f].data \subseteq discarded'
    /\ spoiled \ {i} \subseteq spoiled' /\ (Holders(i) # {} => i \in spoiled')
    /\ Goto(c, "copy") /\ NoteRace(c)
    /\ UNCHANGED <<on, name, id, todo, writes, epoch, born, late, uploaded>>
    /\ UNCHANGED <<read, rows, spent>>

LEMMA OpenStep ==
    ASSUME IInv, TypeOK', JobInv', NEW c \in Clients, NEW s \in AllStages, NEW f \in Files,
           NEW i \in Writes, Opens(c, s, f, i)
    PROVE  FileInv'
<1> USE DEF IInv, FileInv
<1>0. UNCHANGED <<on, name, id, todo, writes, epoch, born, late, uploaded, read, rows, spent>>
  BY DEF Opens
<1>1. /\ pc'[c] = "copy" /\ fd'[c] = i
      /\ \A d \in Clients \ {c} : pc'[d] = pc[d] /\ fd'[d] = fd[d]
  <2>1. pc' = [pc EXCEPT ![c] = "copy"] /\ fd' = [fd EXCEPT ![c] = i]
    BY DEF Opens, Goto
  <2>2. DOMAIN pc = Clients /\ DOMAIN fd = Clients
    BY DEF TypeOK
  <2> QED
    BY <2>1, <2>2
<1>2. /\ Active(c) /\ id[c] \in Writes /\ ~Open(c) /\ id[c] <= writes
      /\ s = on[c] /\ f = name[c] /\ pc[c] # "purge"
  <2>1. pc[c] \in Writing \ {"copy"} /\ s = on[c] /\ f = name[c]
    BY DEF Opens
  <2>2. JobAt(c)
    BY DEF JobInv
  <2>3. Active(c) /\ id[c] \in Writes /\ id[c] <= writes
    <3>1. Active(c) /\ id[c] \in Writes \cup {None}
      BY <2>1, <2>2 DEF JobAt, TypeOK
    <3> QED
      BY <2>2, <3>1 DEF JobAt, Active
  <2>4. ~Open(c) /\ pc[c] # "purge"
    BY <2>1 DEF Open, Writing
  <2> QED
    BY <2>1, <2>3, <2>4
<1>3. /\ file'[s][f] = [ino |-> i, data |-> {}]
      /\ \A t \in AllStages, g \in Files : t # s \/ g # f => file'[t][g] = file[t][g]
  <2>1. file \in [AllStages -> [Files -> Inode \cup {None}]]
    BY DEF TypeOK
  <2>2. file' = [file EXCEPT ![s][f] = [ino |-> i, data |-> {}]]
    BY DEF Opens
  <2> QED
    BY <2>1, <2>2
<1>4. file'[s][f] # None /\ file'[s][f].ino = i /\ file'[s][f].data = {}
  <2>1. [ino |-> i, data |-> {}] \in Inode
    BY DEF Inode
  <2>2. file'[s][f] # None
    BY <2>1, <1>3, Bounds
  <2>3. file'[s][f].ino = i /\ file'[s][f].data = {}
    BY <1>3
  <2> QED
    BY <2>2, <2>3
<1>5. Points(s, f, i) \/ (file[s][f] = None /\ i = id[c])
  BY DEF Points, Opens
<1>6. /\ \A t \in AllStages, g \in Files : \A w : Stored(w, t, g)' => Stored(w, t, g) /\ (t # s \/ g # f)
      /\ \A t \in AllStages, g \in Files : \A w : Stored(w, t, g) /\ (t # s \/ g # f) => Stored(w, t, g)'
  BY <1>3, <1>4 DEF Stored
<1>7. /\ \A j : Points(s, f, j)' <=> j = i
      /\ \A t \in AllStages, g \in Files : \A j : t # s \/ g # f => (Points(t, g, j)' <=> Points(t, g, j))
  BY <1>3, <1>4 DEF Points
<1>8. \A j : Points(s, f, j) => j = i
  BY <1>5 DEF Points
<1>9. /\ \A d \in Clients : Active(d)' <=> Active(d)
      /\ \A d \in Clients : Open(d)' <=> Open(d) \/ d = c
      /\ \A w : Done(w)' <=> Done(w)
      /\ raced \subseteq raced' /\ discarded \subseteq discarded'
      /\ \A w : Kept(w) => Kept(w)'
  BY <1>0, <1>1 DEF Active, Open, Done, Opens, NoteRace, Kept
<1>10. /\ \A d \in Clients : Open(d) => Active(d) /\ fd[d] \in Writes /\ on[d] \in AllStages /\ name[d] \in Files
       /\ \A d \in Clients : Active(d) => id[d] \in Writes
  BY DEF JobInv, JobAt, TypeOK, Active, Open, Writing
<1>11. \A d \in Clients : Active(d) /\ ~Open(d) /\ d # c => i # id[d]
  BY <1>2, <1>5 DEF NameInv
<1>12. \A d \in Clients : Open(d) /\ i = fd[d] => Points(s, f, i)
  BY <1>2, <1>5 DEF NameInv
<1>13. \A t \in AllStages, g \in Files : Points(t, g, i) => t = s /\ g = f
  BY <1>2, <1>5 DEF NameInv
<1>14. /\ \A d \in Clients : Open(d) /\ fd[d] = i => i \in spoiled'
       /\ \A j \in spoiled : j # i => j \in spoiled'
  BY DEF Holders, Opens
<1>15. NameInv'
  <2>1. \A t \in AllStages, g \in Files, j \in Writes : Points(t, g, j)' => j <= writes
    BY <1>0, <1>2, <1>5, <1>7 DEF NameInv
  <2>2. \A t, u \in AllStages, g, h \in Files, j \in Writes :
          Points(t, g, j)' /\ Points(u, h, j)' => t = u /\ g = h
    BY <1>0, <1>2, <1>7, <1>13 DEF NameInv
  <2>3. ASSUME NEW d \in Clients, Active(d)', ~Open(d)'
        PROVE  /\ \A t \in AllStages, g \in Files : ~Points(t, g, id[d])'
               /\ \A e \in Clients : Open(e)' => fd'[e] # id'[d]
    <3>1. Active(d) /\ ~Open(d) /\ d # c /\ i # id[d]
      BY <1>0, <2>3, <1>9, <1>11
    <3>2. \A t \in AllStages, g \in Files : ~Points(t, g, id[d])'
      BY <1>0, <3>1, <1>7 DEF NameInv
    <3>3. \A e \in Clients : Open(e)' => fd'[e] # id'[d]
      BY <1>0, <3>1, <1>1, <1>9 DEF NameInv
    <3> QED
      BY <1>0, <3>2, <3>3
  <2>4. \A t \in AllStages, g \in Files, w \in Writes : Stored(w, t, g)' => Done(w)'
    BY <1>0, <1>6, <1>9 DEF NameInv
  <2>5. \A t, u \in AllStages, g, h \in Files, w \in Writes :
          Stored(w, t, g)' /\ Stored(w, u, h)' => t = u /\ g = h
    BY <1>0, <1>6 DEF NameInv
  <2>6. \A d, e \in Clients : Active(d)' /\ id'[d] = id'[e] => d = e
    BY <1>0, <1>9 DEF NameInv
  <2> QED
    BY <1>0, <2>1, <2>2, <2>3, <2>4, <2>5, <2>6 DEF NameInv
<1>16. HolderInv'
  <2>1. ASSUME NEW d \in Clients, NEW t \in AllStages, NEW g \in Files, Open(d)', Points(t, g, fd[d])'
        PROVE  t = on'[d] /\ g = name'[d]
    <3>1. CASE d = c
      BY <1>0, <3>1, <2>1, <1>1, <1>2, <1>7, <1>13 
    <3>2. CASE d # c
      BY <1>0, <3>2, <2>1, <1>1, <1>7, <1>9, <1>12, <1>10 DEF HolderInv
    <3> QED
      BY <1>0, <3>1, <3>2
  <2>2. ASSUME NEW d \in Clients, NEW e \in Clients, Open(d)', Open(e)', fd'[d] = fd'[e]
        PROVE  d = e \/ fd'[d] \in spoiled'
    <3>1. CASE fd'[d] = i
      BY <3>1, <2>2, <1>1, <1>9, <1>14
    <3>2. CASE fd'[d] # i
      BY <3>2, <2>2, <1>1, <1>9, <1>14 DEF HolderInv
    <3> QED
      BY <3>1, <3>2
  <2>3. ASSUME NEW d \in Clients, Open(d)', Linked(d)'
        PROVE  fd'[d] \in spoiled' \/ file'[on'[d]][name'[d]].data = {}
    <3>1. CASE on[d] = s /\ name[d] = f
      BY <1>0, <3>1, <1>4
    <3>2. CASE ~(on[d] = s /\ name[d] = f)
      <4>1. d # c /\ Open(d) /\ fd'[d] = fd[d] /\ Linked(d) /\ file'[on[d]][name[d]] = file[on[d]][name[d]]
        <5>1. d # c /\ Open(d) /\ fd'[d] = fd[d] /\ on[d] \in AllStages /\ name[d] \in Files
          BY <3>2, <2>3, <1>1, <1>2, <1>9, <1>10
        <5>2. file'[on[d]][name[d]] = file[on[d]][name[d]]
          BY <5>1, <3>2, <1>3
        <5> QED
          BY <5>1, <5>2, <2>3, <1>0 DEF Linked, Points
      <4>2. fd[d] # i
        BY <1>0, <4>1, <3>2, <1>10, <1>13 DEF Linked
      <4> QED
        BY <1>0, <4>1, <4>2, <1>14 DEF HolderInv
    <3> QED
      BY <1>0, <3>1, <3>2
  <2>4. ASSUME NEW d \in Clients, Open(d)', ~Linked(d)'
        PROVE  id'[d] \in discarded' \cup raced'
    <3>1. d # c
      BY <1>0, <2>4, <1>1, <1>2, <1>4 DEF Linked, Points
    <3>2. Open(d) /\ fd'[d] = fd[d] /\ ~Linked(d)
      BY <1>0, <3>1, <2>4, <1>1, <1>7, <1>8, <1>9, <1>10 DEF Linked, Points
    <3> QED
      BY <1>0, <3>2, <1>9 DEF HolderInv
  <2> QED
    BY <1>0, <2>1, <2>2, <2>3, <2>4 DEF HolderInv
<1>17. PurgeInv'
  <2> SUFFICES ASSUME NEW d \in Clients \ {c}, pc[d] = "purge", PurgeAt(d)
               PROVE  PurgeAt(d)'
    BY <1>0, <1>1 DEF PurgeInv
  <2>2. on[d] \in AllStages /\ Head(todo[d]) \in Files /\ read[d] \subseteq Writes
    BY HeadListed DEF Visiting, TypeOK
  <2>3. \A w \in Writes : Stored(w, on[d], Head(todo[d]))' => Kept(w)'
    BY <1>0, <2>2, <1>6, <1>9 DEF PurgeAt
  <2>4. ASSUME NEW e \in Clients, Open(e)', Points(on[d], Head(todo[d]), fd[e])' PROVE id'[e] \in raced'
    <3>1. CASE e = c
      <4>1. on[d] = s /\ Head(todo[d]) = f
        BY <1>0, <3>1, <2>4, <2>2, <1>1, <1>7, <1>13
      <4> QED
        BY <1>0, <3>1, <4>1, <1>0, <1>2 DEF NoteRace, Opens
    <3>2. CASE e # c
      <4>1. Open(e) /\ fd'[e] = fd[e]
        BY <1>0, <3>2, <2>4, <1>1, <1>9
      <4>2. Points(on[d], Head(todo[d]), fd[e])
        BY <1>0, <4>1, <2>4, <2>2, <1>7, <1>12
      <4> QED
        BY <1>0, <4>1, <4>2, <1>9 DEF PurgeAt
    <3> QED
      BY <1>0, <3>1, <3>2
  <2>5. \A w \in read'[d] : /\ Done(w)'
                            /\ \A t \in AllStages, g \in Files :
                                  Stored(w, t, g)' => t = on'[d] /\ g = Head(todo'[d])
    BY <1>0, <1>6, <1>9 DEF PurgeAt
  <2> QED
    BY <1>0, <2>3, <2>4, <2>5 DEF PurgeAt
<1>18. SpentInv'
  BY <1>0, <1>6, <1>9 DEF SpentInv
<1>19. LateInv'
  BY <1>0, <1>6, <1>9 DEF LateInv
<1>20. UploadInv'
  <2> SUFFICES ASSUME NEW w \in uploaded, ~Kept(w)'
               PROVE  \E t \in AllStages, g \in Files : Stored(w, t, g)'
    BY <1>0 DEF UploadInv
  <2>1. PICK t \in AllStages, g \in Files : Stored(w, t, g)
    BY <1>0, <1>9 DEF UploadInv
  <2>2. t # s \/ g # f
    BY <1>0, <2>1 DEF Stored, Kept, Opens
  <2> QED
    BY <1>0, <2>1, <2>2, <1>6
<1>21. WholeInv'
  <2> SUFFICES ASSUME NEW t \in AllStages, NEW g \in Files, NEW j \in Writes, Points(t, g, j)'
               PROVE  \/ \E w \in Writes : file'[t][g].data = {w}
                      \/ \E d \in Clients : Open(d)' /\ fd'[d] = j
                      \/ j \in spoiled'
    BY DEF WholeInv
  <2>1. CASE t = s /\ g = f
    BY <1>0, <2>1, <1>1, <1>7, <1>9
  <2>2. CASE t # s \/ g # f
    <3>1. Points(t, g, j) /\ file'[t][g] = file[t][g] /\ j # i
      BY <1>0, <2>2, <1>3, <1>7, <1>13
    <3>2. \A d \in Clients : Open(d) => Open(d)' /\ fd'[d] = fd[d]
      BY <1>0, <1>1, <1>2, <1>9
    <3> QED
      BY <3>1, <3>2, <1>14 DEF WholeInv
  <2> QED
    BY <1>0, <2>1, <2>2
<1> QED
  BY <1>15, <1>16, <1>17, <1>18, <1>19, <1>20, <1>21

(* DuckDB replaces an old file by the whole new one: the name gets a new    *)
(* inode, and what the old one held is discarded.                           *)
Replaces(c, s, f, v) ==
    /\ pc[c] \in Writing \ {"copy"} /\ s = on[c] /\ f = name[c] /\ v = id[c]
    /\ file[s][f] # None
    /\ file' = [file EXCEPT ![s][f] = [ino |-> v, data |-> {v}]]
    /\ discarded' = discarded \cup Lost(file[s][f])
    /\ uploaded' = uploaded \cup {v}
    /\ Answer(c) /\ NoteRace(c)
    /\ UNCHANGED <<todo, writes, epoch, born, late, spoiled, read, rows, spent>>

LEMMA ReplaceStep ==
    ASSUME IInv, TypeOK', JobInv', NEW c \in Clients, NEW s \in AllStages, NEW f \in Files,
           NEW v \in Writes, Replaces(c, s, f, v)
    PROVE  FileInv'
<1> USE DEF IInv, FileInv
<1>0. UNCHANGED <<todo, writes, epoch, born, late, spoiled, read, rows, spent>>
  BY DEF Replaces
<1>1. pc'[c] = "idle" /\ id'[c] = None /\ Others(c)
  BY DEF Replaces, Answer, Goto, TypeOK, Others
<1>2. /\ Active(c) /\ ~Open(c) /\ pc[c] # "purge" /\ v <= writes /\ file[s][f] # None
      /\ s = on[c] /\ f = name[c] /\ v = id[c]
  BY DEF Replaces, JobInv, JobAt, TypeOK, Active, Open, Writing
<1>3. /\ file'[s][f] = [ino |-> v, data |-> {v}]
      /\ \A t \in AllStages, g \in Files : t # s \/ g # f => file'[t][g] = file[t][g]
  BY DEF Replaces, TypeOK
<1>4. file'[s][f] # None /\ file'[s][f].ino = v /\ file'[s][f].data = {v}
  <2>1. [ino |-> v, data |-> {v}] \in Inode
    BY DEF Inode
  <2>2. file'[s][f] # None
    BY <2>1, <1>3, Bounds
  <2>3. file'[s][f].ino = v /\ file'[s][f].data = {v}
    BY <1>3
  <2> QED
    BY <2>2, <2>3
<1>5. /\ \A w : Stored(w, s, f)' <=> w = v
      /\ \A j : Points(s, f, j)' <=> j = v
      /\ \A t \in AllStages, g \in Files : t # s \/ g # f =>
            /\ \A w : Stored(w, t, g)' <=> Stored(w, t, g)
            /\ \A j : Points(t, g, j)' <=> Points(t, g, j)
  BY <1>3, <1>4 DEF Stored, Points
<1>6. /\ \A d \in Clients \ {c} : (Active(d)' <=> Active(d)) /\ (Open(d)' <=> Open(d))
      /\ ~Active(c)' /\ ~Open(c)'
  BY <1>1 DEF Active, Open, Others
<1>7. /\ \A w : Done(w) => w # v
      /\ \A w \in Writes : Done(w) => Done(w)'
      /\ Done(v)'
  <2>1. \A d \in Clients : id'[d] # v
    BY <1>1, <1>2, Bounds DEF Others, NameInv
  <2> QED
    BY <2>1, <1>0, <1>1, <1>2, Bounds DEF Done, Others
<1>8. /\ raced \subseteq raced' /\ discarded \subseteq discarded'
      /\ \A w : Kept(w) => Kept(w)'
  BY <1>0 DEF Replaces, NoteRace, Kept
<1>9. /\ \A d \in Clients : Open(d) => /\ Active(d) /\ fd[d] \in Writes /\ fd[d] # v
                                       /\ on[d] \in AllStages /\ name[d] \in Files
      /\ \A d \in Clients : Active(d) => id[d] \in Writes
  BY <1>2 DEF JobInv, JobAt, TypeOK, Active, Open, Writing, NameInv
<1>10. \A t \in AllStages, g \in Files : ~Points(t, g, v) /\ ~Stored(v, t, g)
  BY <1>2, <1>7 DEF NameInv
<1>11. /\ \A w \in file[s][f].data : w \in discarded'
       /\ \A d \in Clients : Open(d) /\ Points(s, f, fd[d]) => id[d] \in discarded'
  BY DEF Replaces, Lost, Holders, Points
<1>12. NameInv'
  <2>1. \A d, e \in Clients : Active(d)' /\ id'[d] = id'[e] => d = e
    BY <1>1, <1>6 DEF NameInv, Others, Active
  <2>2. \A t \in AllStages, g \in Files, j \in Writes : Points(t, g, j)' => j <= writes'
    BY <1>0, <1>2, <1>5 DEF NameInv
  <2>3. \A t \in AllStages, g \in Files, w \in Writes : Stored(w, t, g)' => Done(w)'
    BY <1>5, <1>7 DEF NameInv
  <2>4. \A t, u \in AllStages, g, h \in Files, j \in Writes :
          Points(t, g, j)' /\ Points(u, h, j)' => t = u /\ g = h
    BY <1>5, <1>10 DEF NameInv
  <2>5. \A t, u \in AllStages, g, h \in Files, w \in Writes :
          Stored(w, t, g)' /\ Stored(w, u, h)' => t = u /\ g = h
    BY <1>5, <1>10 DEF NameInv
  <2>6. ASSUME NEW d \in Clients, Active(d)', ~Open(d)'
        PROVE  /\ \A t \in AllStages, g \in Files : ~Points(t, g, id[d])'
               /\ \A e \in Clients : Open(e)' => fd'[e] # id'[d]
    <3>1. d # c /\ Active(d) /\ ~Open(d) /\ id'[d] = id[d] /\ id[d] # v
      BY <2>6, <1>1, <1>2, <1>6 DEF Others, NameInv
    <3>2. \A t \in AllStages, g \in Files : ~Points(t, g, id[d])'
      BY <3>1, <1>5 DEF NameInv
    <3>3. \A e \in Clients : Open(e)' => fd'[e] # id'[d]
      BY <3>1, <1>1, <1>6 DEF NameInv, Others
    <3> QED
      BY <3>2, <3>3
  <2> QED
    BY <2>1, <2>2, <2>3, <2>4, <2>5, <2>6 DEF NameInv
<1>13. \A d \in Clients : Open(d)' =>
          /\ Open(d) /\ d # c /\ fd[d] # v /\ fd[d] \in Writes
          /\ on[d] \in AllStages /\ name[d] \in Files
          /\ on'[d] = on[d] /\ name'[d] = name[d] /\ id'[d] = id[d] /\ fd'[d] = fd[d]
  BY <1>1, <1>6, <1>9 DEF Others
<1>14. HolderInv'
  <2>1. ASSUME NEW d \in Clients, NEW t \in AllStages, NEW g \in Files, Open(d)', Points(t, g, fd[d])'
        PROVE  t = on'[d] /\ g = name'[d]
    BY <2>1, <1>5, <1>13 DEF HolderInv
  <2>2. ASSUME NEW d \in Clients, NEW e \in Clients, Open(d)', Open(e)', fd'[d] = fd'[e]
        PROVE  d = e \/ fd'[d] \in spoiled'
    BY <2>2, <1>0, <1>13 DEF HolderInv
  <2>3. ASSUME NEW d \in Clients, Open(d)', Linked(d)'
        PROVE  fd'[d] \in spoiled' \/ file'[on'[d]][name'[d]].data = {}
    <3>1. Points(on[d], name[d], fd[d])'
      BY <2>3, <1>13 DEF Linked, Points
    <3>2. on[d] # s \/ name[d] # f
      BY <3>1, <2>3, <1>4, <1>13 DEF Points
    <3>3. file'[on[d]][name[d]] = file[on[d]][name[d]]
      BY <3>2, <2>3, <1>3, <1>13
    <3>4. Linked(d)
      BY <3>3, <2>3, <1>13 DEF Linked, Points
    <3> QED
      BY <3>3, <3>4, <2>3, <1>0, <1>13 DEF HolderInv
  <2>4. ASSUME NEW d \in Clients, Open(d)', ~Linked(d)'
        PROVE  id'[d] \in discarded' \cup raced'
    <3>1. CASE Linked(d)
      <4>1. on[d] = s /\ name[d] = f
        BY <3>1, <2>4, <1>3, <1>13 DEF Linked, Points
      <4> QED
        BY <4>1, <3>1, <2>4, <1>11, <1>13 DEF Linked
    <3>2. CASE ~Linked(d)
      BY <3>2, <2>4, <1>8, <1>13 DEF HolderInv
    <3> QED
      BY <3>1, <3>2
  <2> QED
    BY <2>1, <2>2, <2>3, <2>4 DEF HolderInv
<1>15. PurgeInv'
  <2> SUFFICES ASSUME NEW d \in Clients \ {c}, pc[d] = "purge", PurgeAt(d)
               PROVE  PurgeAt(d)'
    BY <1>1 DEF PurgeInv, Others
  <2>1. on'[d] = on[d] /\ todo'[d] = todo[d] /\ read'[d] = read[d] /\ read[d] \subseteq Writes
    BY <1>0, <1>1 DEF Others, TypeOK
  <2>2. on[d] \in AllStages /\ Head(todo[d]) \in Files
    BY HeadListed DEF Visiting
  <2>3. ASSUME NEW w \in Writes, Stored(w, on[d], Head(todo[d]))' PROVE Kept(w)'
    <3>0. file'[on[d]][Head(todo[d])] # None /\ w \in file'[on[d]][Head(todo[d])].data
      BY <2>1, <2>3 DEF Stored
    <3>1. CASE on[d] = s /\ Head(todo[d]) = f
      BY <3>0, <3>1, <1>2, <1>4 DEF Replaces, NoteRace, Kept
    <3>2. CASE on[d] # s \/ Head(todo[d]) # f
      BY <3>0, <3>2, <2>2, <1>3, <1>8 DEF PurgeAt, Stored
    <3> QED
      BY <3>1, <3>2
  <2>4. ASSUME NEW e \in Clients, Open(e)', Points(on[d], Head(todo[d]), fd[e])' PROVE id'[e] \in raced'
    <3>1. file'[on[d]][Head(todo[d])] # None /\ file'[on[d]][Head(todo[d])].ino = fd[e] /\ fd[e] # v
      BY <2>1, <2>4, <1>13 DEF Points
    <3>2. on[d] # s \/ Head(todo[d]) # f
      BY <3>1, <1>4
    <3> QED
      BY <3>1, <3>2, <2>2, <2>4, <1>3, <1>8, <1>13 DEF PurgeAt, Points
  <2>5. \A w \in read'[d] : /\ Done(w)'
                            /\ \A t \in AllStages, g \in Files :
                                  Stored(w, t, g)' => t = on'[d] /\ g = Head(todo'[d])
    BY <2>1, <1>5, <1>7 DEF PurgeAt
  <2> QED
    BY <2>3, <2>4, <2>5 DEF PurgeAt
<1>16. SpentInv'
  <2> SUFFICES ASSUME NEW w \in spent, w \in Writes, NEW t \in AllStages, NEW g \in Files
               PROVE  Done(w)' /\ ~Stored(w, t, g)'
    BY <1>0 DEF SpentInv, TypeOK
  <2>1. Done(w) /\ ~Stored(w, t, g)
    BY DEF SpentInv
  <2> QED
    BY <2>1, <1>5, <1>7
<1>17. LateInv'
  <2>1. \A t \in AllStages, g \in Files, w \in Writes : Stored(w, t, g)' => born'[w] = epoch'[t] \/ w \in late'
    BY <1>0, <1>2, <1>5 DEF LateInv
  <2>2. \A d \in Clients : Active(d)' => born'[id'[d]] = epoch'[on'[d]] \/ id'[d] \in late'
    BY <1>0, <1>1, <1>6 DEF LateInv, Others
  <2> QED
    BY <2>1, <2>2 DEF LateInv
<1>18. UploadInv'
  <2> SUFFICES ASSUME NEW w \in uploaded, w # v, ~Kept(w)'
               PROVE  \E t \in AllStages, g \in Files : Stored(w, t, g)'
    BY <1>5 DEF UploadInv, Replaces
  <2>1. PICK t \in AllStages, g \in Files : Stored(w, t, g)
    BY <1>8 DEF UploadInv
  <2>2. t # s \/ g # f
    BY <2>1, <1>11 DEF Stored, Kept
  <2> QED
    BY <2>1, <2>2, <1>5
<1>19. WholeInv'
  <2> SUFFICES ASSUME NEW t \in AllStages, NEW g \in Files, NEW j \in Writes, Points(t, g, j)'
               PROVE  \/ \E w \in Writes : file'[t][g].data = {w}
                      \/ \E d \in Clients : Open(d)' /\ fd'[d] = j
                      \/ j \in spoiled'
    BY DEF WholeInv
  <2>1. CASE t = s /\ g = f
    BY <2>1, <1>4
  <2>2. CASE t # s \/ g # f
    <3>1. Points(t, g, j) /\ file'[t][g] = file[t][g]
      BY <2>2, <1>3, <1>5
    <3>2. \A d \in Clients : Open(d) => Open(d)' /\ fd'[d] = fd[d]
      BY <1>1, <1>2, <1>6 DEF Others
    <3> QED
      BY <3>1, <3>2, <1>0 DEF WholeInv
  <2> QED
    BY <2>1, <2>2
<1> QED
  BY <1>12, <1>14, <1>15, <1>16, <1>17, <1>18, <1>19

(* io.Copy is done: the data are in the inode, and can be read if a name    *)
(* still points to it.                                                      *)
Finishes(c, s, f, v) ==
    /\ s = on[c] /\ f = name[c] /\ v = id[c] /\ Open(c)
    /\ file' = IF Linked(c) THEN [file EXCEPT ![s][f].data = @ \cup {v}] ELSE file
    /\ uploaded' = uploaded \cup {v}
    /\ Answer(c)
    /\ UNCHANGED <<todo, writes, epoch, born, late, discarded, spoiled>> /\ UNCHANGED copyVars

LEMMA FinishStep ==
    ASSUME IInv, TypeOK', JobInv', NEW c \in Clients, NEW s \in AllStages, NEW f \in Files,
           NEW v \in Writes, Finishes(c, s, f, v)
    PROVE  FileInv'
<1> USE DEF IInv, FileInv
<1>0. UNCHANGED <<todo, writes, epoch, born, late, discarded, spoiled, read, rows, spent, raced>>
  BY DEF Finishes, copyVars
<1>1. pc'[c] = "idle" /\ id'[c] = None /\ Others(c)
  BY DEF Finishes, Answer, Goto, TypeOK, Others
<1>2. /\ Active(c) /\ Open(c) /\ pc[c] # "purge" /\ v <= writes /\ fd[c] \in Writes
      /\ s = on[c] /\ f = name[c] /\ v = id[c]
  BY DEF Finishes, JobInv, JobAt, TypeOK, Active, Open, Writing
<1>3. /\ \A t \in AllStages, g \in Files : t # s \/ g # f => file'[t][g] = file[t][g]
      /\ ~Linked(c) => file'[s][f] = file[s][f]
      /\ Linked(c) => file'[s][f] = [file[s][f] EXCEPT !.data = @ \cup {v}]
  <2>1. CASE Linked(c)
    <3>1. file' = [file EXCEPT ![s] = [file[s] EXCEPT ![f] = [file[s][f] EXCEPT !.data = @ \cup {v}]]]
      BY <2>1 DEF Finishes
    <3> QED
      BY <2>1, <3>1 DEF TypeOK
  <2>2. CASE ~Linked(c)
    BY <2>2 DEF Finishes
  <2> QED
    BY <2>1, <2>2
<1>4. Linked(c) => /\ file'[s][f] # None /\ file[s][f] # None /\ file'[s][f].ino = file[s][f].ino
                   /\ file'[s][f].data = file[s][f].data \cup {v}
  <2> SUFFICES ASSUME Linked(c)
               PROVE  /\ file'[s][f] # None /\ file[s][f] # None /\ file'[s][f].ino = file[s][f].ino
                      /\ file'[s][f].data = file[s][f].data \cup {v}
    OBVIOUS
  <2>1. file[s][f] \in Inode /\ file[s][f] # None
    BY <1>2 DEF Linked, Points, TypeOK
  <2>2. [file[s][f] EXCEPT !.data = @ \cup {v}] \in Inode
    BY <2>1 DEF Inode
  <2>3. file'[s][f] # None
    BY <2>2, <1>3, Bounds
  <2>4. file'[s][f].ino = file[s][f].ino /\ file'[s][f].data = file[s][f].data \cup {v}
    BY <2>1, <1>3 DEF Inode
  <2> QED
    BY <2>1, <2>3, <2>4
<1>5. /\ \A t \in AllStages, g \in Files : \A j : Points(t, g, j)' <=> Points(t, g, j)
      /\ \A t \in AllStages, g \in Files : \A w : Stored(w, t, g) => Stored(w, t, g)'
      /\ \A t \in AllStages, g \in Files : \A w : Stored(w, t, g)' =>
            Stored(w, t, g) \/ (w = v /\ t = s /\ g = f /\ Linked(c))
      /\ Linked(c) => Stored(v, s, f)'
  BY <1>3, <1>4 DEF Points, Stored
<1>6. /\ \A d \in Clients \ {c} : (Active(d)' <=> Active(d)) /\ (Open(d)' <=> Open(d))
      /\ ~Active(c)' /\ ~Open(c)'
  BY <1>1 DEF Active, Open, Others
<1>7. /\ \A w : Done(w) => w # v
      /\ \A w \in Writes : Done(w) => Done(w)'
      /\ Done(v)'
  <2>1. \A d \in Clients : id'[d] # v
    BY <1>1, <1>2, Bounds DEF Others, NameInv
  <2> QED
    BY <2>1, <1>0, <1>1, <1>2, Bounds DEF Done, Others
<1>8. \A w : Kept(w)' <=> Kept(w)
  BY <1>0 DEF Kept
<1>9. \A d \in Clients : Open(d)' =>
          /\ Open(d) /\ d # c /\ fd[d] \in Writes
          /\ on[d] \in AllStages /\ name[d] \in Files
          /\ on'[d] = on[d] /\ name'[d] = name[d] /\ id'[d] = id[d] /\ fd'[d] = fd[d]
  BY <1>1, <1>6 DEF Others, JobInv, JobAt, TypeOK, Active, Open, Writing
<1>10. NameInv'
  <2>1. \A d, e \in Clients : Active(d)' /\ id'[d] = id'[e] => d = e
    BY <1>1, <1>6 DEF NameInv, Others, Active
  <2>2. \A t \in AllStages, g \in Files, w \in Writes : Stored(w, t, g)' => Done(w)'
    BY <1>5, <1>7 DEF NameInv
  <2>3. \A t, u \in AllStages, g, h \in Files, w \in Writes :
          Stored(w, t, g)' /\ Stored(w, u, h)' => t = u /\ g = h
    BY <1>5, <1>7 DEF NameInv
  <2>4. \A d \in Clients : Active(d)' /\ ~Open(d)' =>
          /\ \A t \in AllStages, g \in Files : ~Points(t, g, id[d])'
          /\ \A e \in Clients : Open(e)' => fd'[e] # id'[d]
    <3> SUFFICES ASSUME NEW d \in Clients, Active(d)', ~Open(d)'
                 PROVE  /\ \A t \in AllStages, g \in Files : ~Points(t, g, id[d])'
                        /\ \A e \in Clients : Open(e)' => fd'[e] # id'[d]
      OBVIOUS
    <3>1. d # c /\ Active(d) /\ ~Open(d) /\ id'[d] = id[d]
      BY <1>1, <1>6 DEF Others
    <3>2. \A t \in AllStages, g \in Files : ~Points(t, g, id[d])'
      BY <3>1, <1>5 DEF NameInv
    <3>3. \A e \in Clients : Open(e)' => fd'[e] # id'[d]
      BY <3>1, <1>9 DEF NameInv
    <3> QED
      BY <3>2, <3>3
  <2> QED
    BY <2>1, <2>2, <2>3, <2>4, <1>0, <1>5 DEF NameInv
<1>11. HolderInv'
  <2>1. ASSUME NEW d \in Clients, NEW t \in AllStages, NEW g \in Files, Open(d)', Points(t, g, fd[d])'
        PROVE  t = on'[d] /\ g = name'[d]
    BY <2>1, <1>5, <1>9 DEF HolderInv
  <2>2. ASSUME NEW d \in Clients, NEW e \in Clients, Open(d)', Open(e)', fd'[d] = fd'[e]
        PROVE  d = e \/ fd'[d] \in spoiled'
    BY <2>2, <1>0, <1>9 DEF HolderInv
  <2>3. ASSUME NEW d \in Clients, Open(d)'
        PROVE  Linked(d)' <=> Linked(d)
    <3>1. Linked(d)' <=> Points(on[d], name[d], fd[d])'
      BY <2>3, <1>9 DEF Linked, Points
    <3>2. file'[on[d]][name[d]] # None <=> file[on[d]][name[d]] # None
      BY <2>3, <1>2, <1>3, <1>4, <1>9
    <3>3. file[on[d]][name[d]] # None => file'[on[d]][name[d]].ino = file[on[d]][name[d]].ino
      BY <2>3, <1>2, <1>3, <1>4, <1>9
    <3> QED
      BY <3>2, <3>3, <2>3, <1>9 DEF Linked, Points
  <2>4. ASSUME NEW d \in Clients, Open(d)', Linked(d)'
        PROVE  fd'[d] \in spoiled' \/ file'[on'[d]][name'[d]].data = {}
    <3>1. Linked(d) /\ Open(d) /\ d # c
      BY <2>3, <2>4, <1>9
    <3>2. CASE on[d] = s /\ name[d] = f /\ Linked(c)
      <4>1. fd[d] = fd[c]
        BY <3>1, <3>2, <1>2 DEF Linked, Points
      <4> QED
        BY <4>1, <3>1, <2>4, <1>0, <1>2, <1>9 DEF HolderInv
    <3>3. CASE ~(on[d] = s /\ name[d] = f /\ Linked(c))
      <4>1. file'[on[d]][name[d]] = file[on[d]][name[d]]
        BY <3>3, <2>4, <1>3, <1>9
      <4> QED
        BY <4>1, <3>1, <2>4, <1>0, <1>9 DEF HolderInv
    <3> QED
      BY <3>2, <3>3
  <2>5. ASSUME NEW d \in Clients, Open(d)', ~Linked(d)'
        PROVE  id'[d] \in discarded' \cup raced'
    BY <2>3, <2>5, <1>0, <1>9 DEF HolderInv
  <2> QED
    BY <2>1, <2>2, <2>4, <2>5 DEF HolderInv
<1>12. PurgeInv'
  <2> SUFFICES ASSUME NEW d \in Clients \ {c}, pc[d] = "purge", PurgeAt(d)
               PROVE  PurgeAt(d)'
    BY <1>1 DEF PurgeInv, Others
  <2>1. on'[d] = on[d] /\ todo'[d] = todo[d] /\ read'[d] = read[d] /\ read[d] \subseteq Writes
    BY <1>0, <1>1 DEF Others, TypeOK
  <2>2. on[d] \in AllStages /\ Head(todo[d]) \in Files
    BY HeadListed DEF Visiting
  <2>3. ASSUME NEW t \in AllStages, NEW g \in Files, t = on[d], g = Head(todo[d]),
               NEW w \in Writes, Stored(w, t, g)'
        PROVE  Kept(w)'
    <3>1. CASE Stored(w, t, g)
      BY <3>1, <2>3, <1>8 DEF PurgeAt
    <3>2. CASE w = v /\ t = s /\ g = f /\ Linked(c)
      <4>1. Points(on[d], Head(todo[d]), fd[c])
        BY <3>2, <2>3, <1>2 DEF Linked
      <4>2. v \in raced
        BY <4>1, <1>2 DEF PurgeAt
      <4> QED
        BY <4>2, <3>2, <1>0 DEF Kept
    <3> QED
      BY <3>1, <3>2, <2>3, <1>5
  <2>4. ASSUME NEW t \in AllStages, NEW g \in Files, t = on[d], g = Head(todo[d]),
               NEW e \in Clients, Open(e)', Points(t, g, fd[e])'
        PROVE  id'[e] \in raced'
    <3>1. Points(t, g, fd[e])
      <4>1. PICK j \in Writes : j = fd[e]
        BY <2>4, <1>9
      <4>2. Points(t, g, j)'
        BY <4>1, <2>4, <1>9 DEF Points
      <4> QED
        BY <4>1, <4>2, <1>5
    <3> QED
      BY <3>1, <2>4, <1>0, <1>9 DEF PurgeAt
  <2>5. \A w \in read'[d] : /\ Done(w)'
                            /\ \A t \in AllStages, g \in Files :
                                  Stored(w, t, g)' => t = on'[d] /\ g = Head(todo'[d])
    BY <2>1, <1>5, <1>7 DEF PurgeAt
  <2>6. \A w \in Writes : Stored(w, on[d], Head(todo[d]))' => Kept(w)'
    BY <2>1, <2>2, <2>3 DEF Stored
  <2>7. \A e \in Clients : Open(e)' /\ Points(on[d], Head(todo[d]), fd[e])' => id'[e] \in raced'
    BY <2>1, <2>2, <2>4 DEF Points
  <2> QED
    BY <2>5, <2>6, <2>7 DEF PurgeAt
<1>13. SpentInv'
  <2> SUFFICES ASSUME NEW w \in spent, w \in Writes, NEW t \in AllStages, NEW g \in Files
               PROVE  Done(w)' /\ ~Stored(w, t, g)'
    BY <1>0 DEF SpentInv, TypeOK
  <2>1. Done(w) /\ ~Stored(w, t, g)
    BY DEF SpentInv
  <2> QED
    BY <2>1, <1>5, <1>7
<1>14. LateInv'
  <2>1. \A t \in AllStages, g \in Files, w \in Writes : Stored(w, t, g)' => born'[w] = epoch'[t] \/ w \in late'
    BY <1>0, <1>2, <1>5 DEF LateInv
  <2>2. \A d \in Clients : Active(d)' => born'[id'[d]] = epoch'[on'[d]] \/ id'[d] \in late'
    BY <1>0, <1>1, <1>6 DEF LateInv, Others
  <2> QED
    BY <2>1, <2>2 DEF LateInv
<1>15. UploadInv'
  <2>1. Kept(v)' \/ Stored(v, s, f)'
    BY <1>2, <1>5, <1>8 DEF HolderInv, Kept
  <2>2. \A w \in uploaded : Kept(w)' \/ \E t \in AllStages, g \in Files : Stored(w, t, g)'
    BY <1>5, <1>8 DEF UploadInv
  <2> QED
    BY <2>1, <2>2 DEF UploadInv, Finishes
<1>16. WholeInv'
  <2> SUFFICES ASSUME NEW t \in AllStages, NEW g \in Files, NEW j \in Writes, Points(t, g, j)'
               PROVE  \/ \E w \in Writes : file'[t][g].data = {w}
                      \/ \E d \in Clients : Open(d)' /\ fd'[d] = j
                      \/ j \in spoiled'
    BY DEF WholeInv
  <2>1. Points(t, g, j)
    BY <1>5
  <2>2. CASE t = s /\ g = f /\ Linked(c)
    <3>1. fd[c] = j /\ (j \in spoiled \/ file[s][f].data = {})
      BY <2>1, <2>2, <1>2 DEF Linked, Points, HolderInv
    <3>2. file[s][f].data = {} => file'[t][g].data = {v}
      BY <2>2, <1>4
    <3> QED
      BY <3>1, <3>2, <1>0
  <2>3. CASE ~(t = s /\ g = f /\ Linked(c))
    <3>1. file'[t][g] = file[t][g]
      BY <2>3, <1>3
    <3>2. fd[c] # j
      BY <2>1, <2>3, <1>2 DEF HolderInv, Linked
    <3>3. \A d \in Clients : Open(d) /\ d # c => Open(d)' /\ fd'[d] = fd[d]
      BY <1>1, <1>6 DEF Others
    <3> QED
      BY <3>1, <3>2, <3>3, <2>1, <1>0 DEF WholeInv
  <2> QED
    BY <2>2, <2>3
<1> QED
  BY <1>10, <1>11, <1>12, <1>13, <1>14, <1>15, <1>16

----------------------------------------------------------------------------
(* Every action is one of these steps. *)
LEMMA DDLStep ==
    ASSUME IInv, TypeOK', JobInv', NEW c \in Clients, UNCHANGED copyVars,
           \/ \E s \in Named : CreateStage(c, s) \/ DropStage(c, s) \/ ReplaceStage(c, s)
           \/ ReplaceCreate(c)
    PROVE  FileInv'
<1>0. /\ pc[c] \in {"idle", "replace"} /\ ~Active(c) /\ \A w \in Writes : rows'[w] >= rows[w]
      /\ UNCHANGED <<read, rows, spent, raced>>
  BY SameRows DEF CreateStage, DropStage, ReplaceStage, ReplaceCreate, IInv, JobInv, JobAt, Writing, copyVars
<1>1. CASE \E s \in Named : CreateStage(c, s)
  <2>1. UNCHANGED <<file, pc, on, name, id, fd, todo, writes>> /\ UNCHANGED histVars
    BY <1>1 DEF CreateStage, jobVars
  <2> QED
    BY <2>1, <1>0, QuietStep DEF Others
<1>2. CASE \E s \in Named : DropStage(c, s)
  <2>1. PICK s \in Named : DropStage(c, s)
    BY <1>2
  <2>2. UNCHANGED <<pc, on, name, id, fd, todo, writes>> /\ RemoveSome(s) /\ s \in AllStages
    BY <2>1 DEF DropStage, jobVars, AllStages
  <2> QED
    BY <2>2, <1>0, RemoveStageStep DEF Others
<1>3. CASE \E s \in Named : ReplaceStage(c, s)
  <2>1. PICK s \in Named : ReplaceStage(c, s)
    BY <1>3
  <2>2. /\ UNCHANGED <<name, id, fd, todo, writes>> /\ Others(c) /\ pc'[c] = "replace"
        /\ s \in AllStages
    BY <2>1 DEF ReplaceStage, Goto, IInv, TypeOK, Others, AllStages
  <2>3. CASE RemoveSome(s)
    BY <2>2, <2>3, <1>0, RemoveStageStep
  <2>4. CASE UNCHANGED stageVars /\ UNCHANGED histVars
    BY <2>2, <2>4, <1>0, QuietStep DEF stageVars
  <2> QED
    BY <2>1, <2>3, <2>4 DEF ReplaceStage
<1>4. CASE ReplaceCreate(c)
  <2>1. UNCHANGED <<file, name, id, fd, todo, writes>> /\ UNCHANGED histVars
    BY <1>4 DEF ReplaceCreate
  <2>2. Others(c) /\ pc'[c] = "idle"
    BY <1>4 DEF ReplaceCreate, Goto, IInv, TypeOK, Others
  <2> QED
    BY <2>1, <2>2, <1>0, QuietStep
<1> QED
  BY <1>1, <1>2, <1>3, <1>4

LEMMA WriteStep ==
    ASSUME IInv, TypeOK', JobInv', NEW c \in Clients,
           \/ /\ UNCHANGED copyVars
              /\ \/ Mkdir(c, "mkdir", "create") \/ Mkdir(c, "submkdir", "write")
                 \/ Mkdir(c, "submkdir_over", "overwrite") \/ CopyDone(c) \/ CopyFails(c)
                 \/ \E l \in {"mkdir", "submkdir", "submkdir_over"} : MkdirFails(c, l)
           \/ CreateFile(c) \/ Overwrite(c) \/ UnloadWrite(c) \/ UnloadFailed(c)
    PROVE  FileInv'
<1>0. ASSUME pc[c] \in Writing
      PROVE  on[c] \in AllStages /\ name[c] \in Files /\ id[c] \in Writes
  BY <1>0 DEF IInv, TypeOK, JobInv, JobAt, Active
<1>1. ASSUME NEW here, NEW next \in Writing \ {"copy"}, Mkdir(c, here, next), here # "copy", UNCHANGED copyVars
      PROVE  FileInv'
  <2>1. UNCHANGED <<file, on, name, id, fd, todo, writes>> /\ UNCHANGED histVars
    BY <1>1 DEF Mkdir, jobVars
  <2>2. Others(c) /\ pc[c] # "copy" /\ pc'[c] = next
    BY <1>1, <2>1 DEF Mkdir, Goto, IInv, TypeOK, Others
  <2>3. next \notin {"copy", "purge"}
    BY DEF Writing
  <2>4. UNCHANGED <<read, rows, spent, raced>> /\ \A w \in Writes : rows'[w] >= rows[w]
    BY <1>1, SameRows DEF IInv, copyVars
  <2> QED
    BY <2>1, <2>2, <2>3, <2>4, QuietStep
<1>2. ASSUME CopyDone(c), UNCHANGED copyVars PROVE FileInv'
  <2>1. pc[c] \in Writing
    BY <1>2 DEF CopyDone, Open, Writing
  <2>2. Finishes(c, on[c], name[c], id[c])
    BY <1>2 DEF CopyDone, Finishes, Linked, Points
  <2> QED
    BY <2>1, <2>2, <1>0, FinishStep
<1>3. ASSUME CopyFails(c), UNCHANGED copyVars PROVE FileInv'
  <2>1. pc[c] \in Writing /\ Answer(c)
    BY <1>3 DEF CopyFails, Open, Writing
  <2>2. /\ UNCHANGED <<file, todo, writes, epoch, born, late, uploaded, discarded>>
        /\ spoiled \subseteq spoiled' /\ fd[c] \in spoiled'
    BY <1>3 DEF CopyFails
  <2> QED
    BY <1>3, <2>1, <2>2, EndWriteStep DEF copyVars
<1>4. ASSUME UnloadFailed(c) PROVE FileInv'
  <2>1. pc[c] \in Writing /\ ~Open(c) /\ Answer(c)
    BY <1>4 DEF UnloadFailed, Open, Writing
  <2>2. /\ UNCHANGED <<file, todo, writes, epoch, born, late, uploaded, discarded, spoiled>>
        /\ UNCHANGED <<read, rows, spent, raced>>
    BY <1>4 DEF UnloadFailed, stageVars, histVars, copyVars
  <2> QED
    BY <2>1, <2>2, EndWriteStep
<1>m. ASSUME NEW l \in {"mkdir", "submkdir", "submkdir_over"}, MkdirFails(c, l),
             UNCHANGED copyVars
      PROVE  FileInv'
  <2>1. pc[c] \in Writing /\ ~Open(c) /\ Answer(c)
    BY <1>m DEF MkdirFails, Open, Writing
  <2>2. /\ UNCHANGED <<file, todo, writes, epoch, born, late, uploaded, discarded, spoiled>>
        /\ UNCHANGED <<read, rows, spent, raced>>
    BY <1>m DEF MkdirFails, stageVars, histVars, copyVars
  <2> QED
    BY <2>1, <2>2, EndWriteStep
<1>5. ASSUME Overwrite(c) PROVE FileInv'
  <2>1. pc[c] \in Writing /\ pc[c] # "copy" /\ Discard(on[c], name[c])
    BY <1>5 DEF Overwrite, Writing
  <2>2. /\ UNCHANGED <<on, name, id, fd, todo, writes, epoch, born, late, uploaded, spoiled>>
        /\ UNCHANGED copyVars
    BY <1>5 DEF Overwrite, jobVars
  <2>3. Others(c) /\ pc'[c] = "write"
    BY <1>5, <2>2 DEF Overwrite, Goto, IInv, TypeOK, Others
  <2> QED
    BY <2>1, <2>2, <2>3, <1>0, DiscardStep
<1>6. ASSUME CreateFile(c) PROVE FileInv'
  <2> DEFINE old == file[on[c]][name[c]]
             i == IF old = None THEN id[c] ELSE old.ino
  <2>1. Create(c) /\ NoteRace(c) /\ UNCHANGED <<read, rows, spent>>
    BY <1>6 DEF CreateFile
  <2>2. /\ pc[c] = "create" /\ pc[c] \in Writing \ {"copy"} /\ ~Open(c)
        /\ UNCHANGED <<todo, writes, epoch, born, late, uploaded>>
    BY <2>1 DEF Create, Writing, Open
  <2>3. i \in Writes
    BY <2>2, <1>0 DEF IInv, TypeOK, Inode
  <2>4. ASSUME file' = [file EXCEPT ![on[c]][name[c]] = [ino |-> i, data |-> {}]],
               fd' = [fd EXCEPT ![c] = i],
               discarded' = discarded \cup (IF old = None THEN {} ELSE old.data),
               spoiled' = IF Holders(i) # {} THEN spoiled \cup {i} ELSE spoiled \ {i},
               Goto(c, "copy"), UNCHANGED <<on, name, id>>
        PROVE  FileInv'
    <3>1. Opens(c, on[c], name[c], i)
      BY <2>1, <2>2, <2>4 DEF Opens
    <3> HIDE DEF i
    <3> QED
      BY <3>1, <2>2, <2>3, <1>0, OpenStep
  <2>5. ASSUME Answer(c), UNCHANGED <<file, discarded, spoiled>> PROVE FileInv'
    <3>1. raced \subseteq raced'
      BY <2>1 DEF NoteRace
    <3> QED
      BY <2>1, <2>2, <2>5, <3>1, EndWriteStep
  <2> QED
    BY <2>1, <2>4, <2>5 DEF Create
<1>7. ASSUME UnloadWrite(c) PROVE FileInv'
  <2>1. /\ pc[c] \in Writing \ {"copy"} /\ NoteRace(c)
        /\ UNCHANGED <<todo, writes, epoch, born, late, spoiled, read, rows, spent>>
    BY <1>7 DEF UnloadWrite, Writing
  <2>2. CASE file[on[c]][name[c]] = None
    <3>1. Holders(id[c]) = {}
      BY <2>1, <1>0 DEF IInv, FileInv, NameInv, JobInv, JobAt, Holders, Open
    <3>2. Opens(c, on[c], name[c], id[c])
      BY <1>7, <2>1, <2>2, <3>1 DEF UnloadWrite, Opens
    <3> QED
      BY <3>2, <2>1, <1>0, OpenStep
  <2>3. CASE file[on[c]][name[c]] # None
    <3>1. Replaces(c, on[c], name[c], id[c])
      BY <1>7, <2>1, <2>3 DEF UnloadWrite, Replaces
    <3> QED
      BY <3>1, <2>1, <1>0, ReplaceStep
  <2> QED
    BY <2>2, <2>3
<1> QED
  <2>1. {"create", "write", "overwrite"} \subseteq Writing \ {"copy"}
    BY DEF Writing
  <2> QED
    BY <2>1, <1>1, <1>2, <1>3, <1>4, <1>m, <1>5, <1>6, <1>7

LEMMA VisitStep ==
    ASSUME IInv, TypeOK', JobInv', NEW c \in Clients,
           \/ /\ UNCHANGED copyVars
              /\ \/ \E s \in AllStages : List(c, s)
                 \/ \E s \in AllStages, m \in SUBSET Files : Remove(c, s, m) \/ Get(c, s, m)
                 \/ RemoveOne(c) \/ GetOne(c)
           \/ \E s \in AllStages, m \in SUBSET Files, p, a \in BOOLEAN : CopyLoad(c, s, m, p, a)
           \/ Loaded(c) \/ LoadFailed(c) \/ Purge(c)
    PROVE  FileInv'
<1>1. ASSUME NEW s \in AllStages, NEW m, NEW l \in {"remove", "get", "load"}, BeginVisit(c, s, m, l),
             UNCHANGED <<read, rows, spent, raced>>
      PROVE  FileInv'
  <2>1. /\ pc[c] = "idle" /\ pc'[c] = l /\ Others(c)
        /\ UNCHANGED <<file, name, id, fd, writes>> /\ UNCHANGED histVars
    BY <1>1 DEF BeginVisit, Goto, IInv, TypeOK, Others
  <2>2. ~Active(c)
    BY <2>1 DEF IInv, JobInv, JobAt, Writing
  <2>3. \A w \in Writes : rows'[w] >= rows[w]
    BY <1>1, SameRows DEF IInv
  <2> QED
    BY <1>1, <2>1, <2>2, <2>3, QuietStep
<1>2. ASSUME UNCHANGED copyVars, \E s \in AllStages : List(c, s) PROVE FileInv'
  <2>1. pc[c] = "idle" /\ UNCHANGED <<file, pc, on, name, id, fd, todo, writes>> /\ UNCHANGED histVars
    BY <1>2 DEF List, jobVars
  <2>2. UNCHANGED <<read, rows, spent, raced>> /\ \A w \in Writes : rows'[w] >= rows[w]
    BY <1>2, SameRows DEF IInv, copyVars
  <2> QED
    BY <2>1, <2>2, QuietStep DEF Others
<1>3. ASSUME UNCHANGED copyVars,
             \E s \in AllStages, m \in SUBSET Files : Remove(c, s, m) \/ Get(c, s, m)
      PROVE  FileInv'
  BY <1>1, <1>3 DEF Remove, Get, copyVars
<1>4. ASSUME UNCHANGED copyVars, RemoveOne(c) PROVE FileInv'
  <2>1. /\ pc[c] \in Visiting /\ pc[c] = "remove" /\ Discard(on[c], Head(todo[c]))
        /\ UNCHANGED <<name, id, fd, writes, epoch, born, late, uploaded, spoiled>>
    BY <1>4 DEF RemoveOne, Visiting
  <2>2. Others(c) /\ pc'[c] \in {"remove", "idle"}
    BY <1>4, <2>1 DEF RemoveOne, Visited, Goto, IInv, TypeOK, Others
  <2>3. on[c] \in AllStages /\ Head(todo[c]) \in Files /\ ~Active(c)
    BY <2>1, HeadListed DEF IInv
  <2> QED
    BY <1>4, <2>1, <2>2, <2>3, DiscardStep
<1>5. ASSUME UNCHANGED copyVars, GetOne(c) PROVE FileInv'
  <2>1. /\ pc[c] \in Visiting /\ pc[c] = "get"
        /\ UNCHANGED <<file, name, id, fd, writes>> /\ UNCHANGED histVars
    BY <1>5 DEF GetOne, Visiting, stageVars
  <2>2. Others(c) /\ pc'[c] \in {"get", "idle"}
    BY <1>5, <2>1 DEF GetOne, Visited, Goto, IInv, TypeOK, Others
  <2>3. ~Active(c)
    BY <2>1, HeadListed DEF IInv
  <2>4. UNCHANGED <<read, rows, spent, raced>> /\ \A w \in Writes : rows'[w] >= rows[w]
    BY <1>5, SameRows DEF IInv, copyVars
  <2> QED
    BY <2>1, <2>2, <2>3, <2>4, QuietStep
<1>6. ASSUME \E s \in AllStages, m \in SUBSET Files, p, a \in BOOLEAN : CopyLoad(c, s, m, p, a)
      PROVE  FileInv'
  <2>1. PICK s \in AllStages, m \in SUBSET Files :
           BeginVisit(c, s, m, "load") /\ UNCHANGED <<read, rows, spent, raced>>
    BY <1>6 DEF CopyLoad
  <2> QED
    BY <2>1, <1>1
<1>7. ASSUME LoadFailed(c) PROVE FileInv'
  <2>1. /\ pc[c] \in Visiting /\ pc[c] = "load"
        /\ UNCHANGED <<file, name, id, fd, writes>> /\ UNCHANGED histVars
        /\ UNCHANGED <<read, rows, spent, raced>>
    BY <1>7 DEF LoadFailed, Visiting, stageVars
  <2>2. Others(c) /\ pc'[c] \in {"load", "idle"}
    BY <1>7, <2>1 DEF LoadFailed, NextFile, Visited, Goto, IInv, TypeOK, Others
  <2>3. ~Active(c)
    BY <2>1, HeadListed DEF IInv
  <2>4. \A w \in Writes : rows'[w] >= rows[w]
    BY <2>1, SameRows DEF IInv
  <2> QED
    BY <2>1, <2>2, <2>3, <2>4, QuietStep
<1> QED
  BY <1>2, <1>3, <1>4, <1>5, <1>6, <1>7, LoadedStep, PurgeStep

LEMMA StepInv == IInv /\ [Next]_vars => IInv'
<1> SUFFICES ASSUME IInv, [Next]_vars PROVE IInv'
  OBVIOUS
<1>0. TypeOK' /\ JobInv'
  BY TypeStep
<1>1. ASSUME NEW c \in Clients, StageStep(c) PROVE FileInv'
  <2>1. ASSUME NEW s \in AllStages, NEW f \in Files, Put(c, s, f), UNCHANGED copyVars
        PROVE  FileInv'
    BY <2>1, <1>0, BeginWriteStep DEF Put
  <2> QED
    BY <1>0, <1>1, <2>1, DDLStep, WriteStep, VisitStep DEF StageStep
<1>2. ASSUME NEW c \in Clients, CopyStep(c) PROVE FileInv'
  <2>1. ASSUME NEW s \in AllStages, NEW f \in Files, NEW l \in UnloadStarts, CopyUnload(c, s, f, l)
        PROVE  FileInv'
    BY <2>1, <1>0, BeginWriteStep DEF CopyUnload
  <2> QED
    BY <1>0, <1>2, <2>1, WriteStep, VisitStep DEF CopyStep
<1>3. ASSUME ResetAll PROVE FileInv'
  BY <1>0, <1>3, ResetStep
<1>4. ASSUME UNCHANGED vars PROVE FileInv'
  <2>1. Shrinks
    <3>1. \A w \in Writes : rows'[w] >= rows[w]
      BY <1>4, SameRows DEF IInv, vars
    <3> QED
      BY <1>4, <3>1 DEF vars, Shrinks
  <2> QED
    BY <1>0, <2>1, ShrinkStep
<1>5. FileInv'
  BY <1>1, <1>2, <1>3, <1>4 DEF Next
<1> QED
  BY <1>0, <1>5 DEF IInv

LEMMA Inductive == Spec => []IInv
  BY InitInv, StepInv, PTL DEF Spec

----------------------------------------------------------------------------
(* Every client, stage, file and write keeps its type, and a statement is   *)
(* at one of its places: what PUT, GET, REMOVE, COPY and stage DDL do to    *)
(* the stage directories, interleaved in any way.                           *)
THEOREM TypeCorrect == Spec => []TypeOK
<1>1. IInv => TypeOK
  BY DEF IInv
<1> QED
  BY <1>1, Inductive, PTL

(* copyFile reports success although the name may be gone by then, and      *)
(* ExecuteLoad removes by name what it has loaded by name: an upload that   *)
(* was answered is still in the stage or in the table, was replaced by a    *)
(* later write or removed by a statement meant to, or overlapped a COPY's   *)
(* purge of the same name.                                                  *)
THEOREM UploadsKept == Spec => []NoUploadLost
<1>1. IInv => NoUploadLost
  <2> SUFFICES ASSUME IInv, NEW w \in uploaded, ~Kept(w) PROVE StoredIn(w) # {}
    BY DEF NoUploadLost, Kept
  <2>1. PICK s \in AllStages, f \in Files : Stored(w, s, f)
    BY DEF IInv, FileInv, UploadInv
  <2>2. <<s, f>> \in StoredIn(w)
    BY <2>1 DEF StoredIn, Stored
  <2> QED
    BY <2>2
<1> QED
  BY <1>1, Inductive, PTL

(* What LIST, GET and COPY find under a name is one whole write of the      *)
(* present stage, unless the write outlived its stage (it was under way, or *)
(* its file could not be removed), failed, or shared its inode with another *)
(* write.                                                                   *)
THEOREM FilesAccounted == Spec => []FilesExplained
<1>1. IInv => FreshUnlessLate
  <2> SUFFICES ASSUME IInv, NEW s \in AllStages, NEW f \in Files, file[s][f] # None,
                      NEW w \in file[s][f].data
               PROVE  born[w] = epoch[s] \/ w \in late
    BY DEF FreshUnlessLate
  <2>1. file[s][f] \in Inode
    BY DEF IInv, TypeOK
  <2>2. w \in Writes /\ Stored(w, s, f)
    BY <2>1 DEF Inode, Stored
  <2> QED
    BY <2>2 DEF IInv, FileInv, LateInv
<1>2. IInv => WholeUnlessDisturbed
  <2> SUFFICES ASSUME IInv, NEW s \in AllStages, NEW f \in Files, file[s][f] # None
               PROVE  \/ Cardinality(file[s][f].data) = 1
                      \/ Holders(file[s][f].ino) # {}
                      \/ file[s][f].ino \in spoiled
    BY DEF WholeUnlessDisturbed
  <2>1. file[s][f] \in Inode
    BY DEF IInv, TypeOK
  <2>2. file[s][f].ino \in Writes /\ Points(s, f, file[s][f].ino)
    BY <2>1 DEF Inode, Points
  <2>3. CASE \E w \in Writes : file[s][f].data = {w}
    BY <2>3, FS_Singleton
  <2>4. CASE \E c \in Clients : Open(c) /\ fd[c] = file[s][f].ino
    BY <2>4 DEF Holders
  <2> QED
    BY <2>2, <2>3, <2>4 DEF IInv, FileInv, WholeInv
<1> QED
  BY <1>1, <1>2, Inductive, PTL DEF FilesExplained

(* ExecuteLoad with PURGE: what a COPY has loaded and then removed is never *)
(* inserted again, because its data were under that one name, which is      *)
(* gone, and no write copies them anywhere else.                            *)
THEOREM PurgedOnce == Spec => PurgedNotReloaded
<1>1. ASSUME IInv, [Next]_vars PROVE \A w \in spent : rows'[w] = rows[w]
  <2>1. ASSUME NEW c \in Clients, Loaded(c), NEW w \in spent PROVE rows'[w] = rows[w]
    <3>1. pc[c] \in Visiting /\ file[on[c]][Head(todo[c])] # None
      BY <2>1 DEF Loaded, Visiting
    <3>2. on[c] \in AllStages /\ Head(todo[c]) \in Files /\ w \in Writes
      BY <3>1, <1>1, HeadListed DEF IInv, TypeOK
    <3>3. w \notin file[on[c]][Head(todo[c])].data
      BY <3>1, <3>2, <1>1 DEF IInv, FileInv, SpentInv, Stored
    <3> QED
      BY <2>1, <3>2, <3>3 DEF Loaded
  <2>2. ASSUME ~\E c \in Clients : Loaded(c) PROVE rows' = rows
    BY <1>1, <2>2 DEF Next, ResetAll, StageStep, CopyStep, CopyLoad, LoadFailed, Purge, CopyUnload,
          CreateFile, Overwrite, UnloadWrite, UnloadFailed, copyVars, vars
  <2> QED
    BY <2>1, <2>2
<1>2. IInv /\ [Next]_vars => [\A w \in spent : rows'[w] = rows[w]]_vars
  BY <1>1
<1> QED
  BY <1>2, Inductive, PTL DEF Spec, PurgedNotReloaded
=============================================================================
