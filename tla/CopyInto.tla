------------------------------ MODULE CopyInto ------------------------------
(***************************************************************************)
(* internal/copyinto/copyinto.go over the stages: COPY INTO <table> loads  *)
(* the files of a stage one INSERT at a time, and removes each one after   *)
(* its INSERT when PURGE is set; COPY INTO @stage writes one file.  Both   *)
(* run beside PUT, GET, REMOVE and stage DDL of the other sessions.        *)
(***************************************************************************)
EXTENDS Stages

CONSTANT MaxLoads    \* no COPY starts once a write was loaded this often

ASSUME MaxLoadsAssumption == MaxLoads \in Nat

VARIABLES
    purge, abort,  \* the options of each client's COPY
    read,          \* the data of the file it is about to purge, as its INSERT read it
    rows,          \* rows[w]: how often the rows of write w were inserted
    \* history variables
    spent,         \* writes loaded by a COPY that then removed their file
    raced          \* writes that had a file open between its INSERT and its purge

copyVars == <<purge, abort, read, rows, spent, raced>>
vars == <<stages, dirs, file, pc, on, name, id, fd, todo, writes,
          epoch, born, late, uploaded, discarded, spoiled,
          purge, abort, read, rows, spent, raced>>

Places == {"idle", "replace", "mkdir", "create", "copy", "remove", "get",
           "load", "purge", "submkdir", "submkdir_over", "overwrite", "write"}

Init ==
    /\ StagesInit
    /\ purge = [c \in Clients |-> FALSE] /\ abort = [c \in Clients |-> FALSE]
    /\ read = [c \in Clients |-> {}]
    /\ rows = [w \in Writes |-> 0]
    /\ spent = {} /\ raced = {}

----------------------------------------------------------------------------
(* ExecuteLoad: list, then one INSERT for every file of the list. *)
CopyLoad(c, s, matching, p, a) ==
    /\ \A w \in Writes : rows[w] < MaxLoads
    /\ BeginVisit(c, s, matching, "load")
    /\ purge' = [purge EXCEPT ![c] = p] /\ abort' = [abort EXCEPT ![c] = a]
    /\ UNCHANGED <<read, rows, spent, raced>>

(* The statement goes on to the next file, or ends. *)
NextFile(c) ==
    /\ Visited(c, "load")
    /\ IF Len(todo[c]) > 1 THEN UNCHANGED <<purge, abort>>
       ELSE purge' = [purge EXCEPT ![c] = FALSE] /\ abort' = [abort EXCEPT ![c] = FALSE]

(* The INSERT reads what the name points to now. *)
Loaded(c) ==
    LET n == file[on[c]][Head(todo[c])]
    IN  /\ pc[c] = "load" /\ n # None
        /\ rows' = [w \in Writes |-> IF w \in n.data THEN rows[w] + 1 ELSE rows[w]]
        /\ \/ /\ purge[c]
              /\ Goto(c, "purge") /\ read' = [read EXCEPT ![c] = n.data]
              /\ raced' = raced \cup Holders(n.ino)
              /\ UNCHANGED <<todo, on, purge, abort>>
           \/ /\ ~purge[c]
              /\ NextFile(c) /\ UNCHANGED <<read, raced>>
        /\ UNCHANGED stageVars /\ UNCHANGED histVars
        /\ UNCHANGED <<name, id, fd, writes, spent>>

(* Faulty variant: a file that could not be loaded is purged like the       *)
(* others.                                                                  *)
LoadFailedPurging(c) ==
    /\ pc[c] = "load" /\ purge[c]
    /\ Goto(c, "purge")
    /\ UNCHANGED stageVars /\ UNCHANGED histVars /\ UNCHANGED jobVars /\ UNCHANGED copyVars

(* The file is gone, its format is not supported or DuckDB rejects it:     *)
(* ABORT_STATEMENT answers the error at once, and what the earlier files   *)
(* brought stays in the table; otherwise the next file is tried.           *)
LoadFailed(c) ==
    /\ pc[c] = "load"
    /\ \/ /\ abort[c]
          /\ Goto(c, "idle")
          /\ on' = [on EXCEPT ![c] = None] /\ todo' = [todo EXCEPT ![c] = <<>>]
          /\ purge' = [purge EXCEPT ![c] = FALSE] /\ abort' = [abort EXCEPT ![c] = FALSE]
       \/ ~abort[c] /\ NextFile(c)
    /\ UNCHANGED stageVars /\ UNCHANGED histVars
    /\ UNCHANGED <<name, id, fd, writes, read, rows, spent, raced>>

(* Faulty variant: the removal stands behind the loop over the files, and   *)
(* so reaches the last one only.                                            *)
PurgeLast(c) ==
    /\ pc[c] = "purge"
    /\ IF Len(todo[c]) > 1 THEN UNCHANGED file ELSE Unlink(on[c], Head(todo[c]))
    /\ spent' = spent \cup read[c]
    /\ read' = [read EXCEPT ![c] = {}]
    /\ NextFile(c)
    /\ UNCHANGED <<stages, dirs, name, id, fd, writes, rows, raced>>
    /\ UNCHANGED histVars

(* RemoveMetaFile removes whatever has the name by now.  If it cannot, the  *)
(* error is ignored, the file stays, and the next COPY loads it again.      *)
Purge(c) ==
    LET s == on[c]
        f == Head(todo[c])
    IN  /\ pc[c] = "purge"
        /\ \/ Unlink(s, f) /\ spent' = spent \cup read[c]
           \/ UNCHANGED <<file, spent>>
        /\ read' = [read EXCEPT ![c] = {}]
        /\ NextFile(c)
        /\ UNCHANGED <<stages, dirs, name, id, fd, writes, rows, raced>>
        /\ UNCHANGED histVars

(* A write of client c opens a file that some COPY has loaded and is about to purge. *)
NoteRace(c) ==
    raced' = IF \E d \in Clients : pc[d] = "purge" /\ on[d] = on[c] /\ Head(todo[d]) = name[c]
             THEN raced \cup {id[c]} ELSE raced

CreateFile(c) == Create(c) /\ NoteRace(c) /\ UNCHANGED <<purge, abort, read, rows, spent>>

----------------------------------------------------------------------------
(* ExecuteUnload makes the subdirectory if the reference has one, removes  *)
(* the old file if OVERWRITE is set, ignoring the error, and lets DuckDB   *)
(* write.  DuckDB writes a new file in place, and replaces an old one when *)
(* it is done.                                                             *)
UnloadStarts == {"submkdir", "submkdir_over", "overwrite", "write"}

CopyUnload(c, s, f, start) == BeginWrite(c, s, f, start) /\ UNCHANGED copyVars

Overwrite(c) ==
    /\ pc[c] = "overwrite"
    /\ Discard(on[c], name[c])
    /\ Goto(c, "write")
    /\ UNCHANGED <<stages, dirs, epoch, born, late, uploaded, spoiled>>
    /\ UNCHANGED jobVars /\ UNCHANGED copyVars

UnloadWrite(c) ==
    LET s == on[c]
        f == name[c]
        old == file[s][f]
    IN  /\ pc[c] = "write" /\ s \in dirs
        /\ \/ /\ old = None
              /\ file' = [file EXCEPT ![s][f] = [ino |-> id[c], data |-> {}]]
              /\ fd' = [fd EXCEPT ![c] = id[c]]
              /\ Goto(c, "copy")
              /\ UNCHANGED <<on, name, id, uploaded, discarded>>
           \/ /\ old # None
              /\ file' = [file EXCEPT ![s][f] = [ino |-> id[c], data |-> {id[c]}]]
              /\ discarded' = discarded \cup Lost(old)
              /\ uploaded' = uploaded \cup {id[c]}
              /\ Answer(c)
        /\ NoteRace(c)
        /\ UNCHANGED <<stages, dirs, todo, writes, epoch, born, late, spoiled>>
        /\ UNCHANGED <<purge, abort, read, rows, spent>>

(* The stage's directory is gone or the table cannot be read. *)
UnloadFailed(c) ==
    /\ pc[c] = "write"
    /\ Answer(c)
    /\ UNCHANGED stageVars /\ UNCHANGED histVars /\ UNCHANGED copyVars
    /\ UNCHANGED <<todo, writes>>

ResetAll ==
    /\ \E kept \in [AllStages -> SUBSET Files], left \in SUBSET dirs :
          (\A s \in AllStages : kept[s] \subseteq Present(s)) /\ Reset(kept, left)
    /\ UNCHANGED copyVars

----------------------------------------------------------------------------
StageStep(c) ==
    /\ \/ \E s \in Named : CreateStage(c, s) \/ DropStage(c, s) \/ ReplaceStage(c, s)
       \/ ReplaceCreate(c)
       \/ \E s \in AllStages, f \in Files : Put(c, s, f)
       \/ \E s \in AllStages : List(c, s)
       \/ Mkdir(c, "mkdir", "create")
       \/ Mkdir(c, "submkdir", "write") \/ Mkdir(c, "submkdir_over", "overwrite")
       \/ \E l \in {"mkdir", "submkdir", "submkdir_over"} : MkdirFails(c, l)
       \/ CopyDone(c) \/ CopyFails(c)
       \/ \E s \in AllStages, m \in SUBSET Files : Remove(c, s, m) \/ Get(c, s, m)
       \/ RemoveOne(c) \/ GetOne(c)
    /\ UNCHANGED copyVars

CopyStep(c) ==
    \/ \E s \in AllStages, m \in SUBSET Files, p, a \in BOOLEAN : CopyLoad(c, s, m, p, a)
    \/ Loaded(c) \/ LoadFailed(c) \/ Purge(c)
    \/ \E s \in AllStages, f \in Files, start \in UnloadStarts : CopyUnload(c, s, f, start)
    \/ CreateFile(c) \/ Overwrite(c) \/ UnloadWrite(c) \/ UnloadFailed(c)

Next == ResetAll \/ \E c \in Clients : StageStep(c) \/ CopyStep(c)

Spec == Init /\ [][Next]_vars

----------------------------------------------------------------------------
(* A name points to an inode that some write made, and a statement is at    *)
(* one of its places.                                                       *)
TypeOK ==
    /\ stages \subseteq AllStages /\ dirs \subseteq AllStages
    /\ file \in [AllStages -> [Files -> Inode \cup {None}]]
    /\ pc \in [Clients -> Places]
    /\ on \in [Clients -> AllStages \cup {None}] /\ name \in [Clients -> Files \cup {None}]
    /\ id \in [Clients -> Writes \cup {None}] /\ fd \in [Clients -> Writes \cup {None}]
    /\ todo \in [Clients -> Seq(Files)] /\ writes \in 0 .. MaxWrites
    /\ epoch \in [AllStages -> 0 .. MaxDrops] /\ born \in [Writes -> 0 .. MaxDrops \cup {None}]
    /\ late \subseteq Writes /\ uploaded \subseteq Writes /\ discarded \subseteq Writes
    /\ spoiled \subseteq Writes
    /\ purge \in [Clients -> BOOLEAN] /\ abort \in [Clients -> BOOLEAN]
    /\ read \in [Clients -> SUBSET Writes] /\ rows \in [Writes -> Nat]
    /\ spent \subseteq Writes /\ raced \subseteq Writes

StoredIn(w) == {p \in AllStages \X Files :
                  file[p[1]][p[2]] # None /\ w \in file[p[1]][p[2]].data}

(* No upload is lost: a write that was answered with success is in its      *)
(* stage or in the table, or a later write replaced it or a statement that  *)
(* is meant to remove it did, or it had the file open between the INSERT of *)
(* a COPY with PURGE and the os.Remove that follows (copyinto.go:232),      *)
(* which then deletes a file whose rows nobody loaded.                      *)
NoUploadLost ==
    \A w \in uploaded :
        StoredIn(w) # {} \/ rows[w] > 0 \/ w \in discarded \/ w \in raced

(* A write that was under way when its stage was dropped, replaced or       *)
(* reset, or whose file could not be removed then, is the only one to leave *)
(* a file in the new stage of that name (orchestrator.go:621 says OR        *)
(* REPLACE discards the files).                                             *)
FreshUnlessLate ==
    \A s \in AllStages, f \in Files :
        file[s][f] # None =>
            \A w \in file[s][f].data : born[w] = epoch[s] \/ w \in late

(* A file holds one whole write, unless a write has it open, failed on it   *)
(* or overlapped with another one: what COPY and GET read is then torn.     *)
WholeUnlessDisturbed ==
    \A s \in AllStages, f \in Files :
        file[s][f] # None =>
            \/ Cardinality(file[s][f].data) = 1
            \/ Holders(file[s][f].ino) # {}
            \/ file[s][f].ino \in spoiled

(* What LIST, GET and COPY find under a name is one whole write of the      *)
(* present stage, but for these exceptions (stage.go:108, :414).            *)
FilesExplained == FreshUnlessLate /\ WholeUnlessDisturbed

(* Once a COPY with PURGE has removed a file, what it loaded from it is     *)
(* never inserted again, by whatever COPY.                                  *)
PurgedNotReloaded ==
    [][\A w \in spent : rows'[w] = rows[w]]_vars
=============================================================================
