------------------------------- MODULE Stages -------------------------------
(***************************************************************************)
(* internal/stage/stage.go and the statements that use it directly         *)
(* (orchestrator: putget.go, stageref.go, CREATE / DROP STAGE, REMOVE).    *)
(*                                                                         *)
(* Manager.mu protects the map of registered stages and nothing else: the  *)
(* files are read, written and removed with no lock held, by any number of *)
(* requests at a time, and a stage's directory depends on its name only,   *)
(* so a statement that has resolved a stage goes on using the directory    *)
(* after the stage was dropped or replaced.  Any call of the file system   *)
(* may fail, and several of the errors are ignored.                        *)
(*                                                                         *)
(* A file is a name in a stage that points to an inode; an inode is named  *)
(* after the write that made it.  Its data are the writes (PUTs, unloads)  *)
(* that finished copying into it since it was last truncated: one is a     *)
(* whole file, none a file still or only partly written, two a mixture.    *)
(***************************************************************************)
EXTENDS Integers, Sequences, FiniteSets

CONSTANTS
    Clients,     \* sessions, each running one statement at a time
    Named,       \* stages made by CREATE STAGE
    Implicit,    \* user stages @~ and table stages @%t, made when first used
    NFiles,      \* file names of a stage, numbered as WalkDir lists them
    MaxWrites,   \* bound on the PUTs and unloads
    MaxDrops,    \* bound on the times a stage's directory is removed
    None         \* no file

ASSUME StageAssumption ==
    /\ Named \cap Implicit = {}
    /\ {NFiles, MaxWrites, MaxDrops} \subseteq Nat
    /\ None \notin Nat /\ None \notin [ino : Nat, data : SUBSET Nat]

AllStages == Named \cup Implicit
Files  == 1 .. NFiles
Writes == 1 .. MaxWrites
Inode  == [ino : Writes, data : SUBSET Writes]

VARIABLES
    stages,    \* the registered stages
    dirs,      \* the stages whose directory exists
    file,      \* file[s][f]: the inode that name f of stage s points to
    pc,        \* what each client is doing
    on, name,  \* the stage it resolved and the file it is writing
    id, fd,    \* the number of its write, the inode it has open
    todo,      \* the files it listed and has not visited yet
    writes,    \* writes so far
    \* history variables
    epoch,     \* times the directory of each stage was removed
    born,      \* epoch of the stage when a write resolved it
    late,      \* writes that outlived a removal of their stage: they were under
               \* way, or in a file that os.RemoveAll failed to remove
    uploaded,  \* writes that were answered with success
    discarded, \* writes overwritten (a PUT or an unload replaces the file of that
               \* name, OVERWRITE or not), removed, or dropped with their stage
    spoiled    \* inodes a write failed on, or two writes had open at once

stageVars == <<stages, dirs, file>>
jobVars   == <<on, name, id, fd, todo, writes>>
histVars  == <<epoch, born, late, uploaded, discarded, spoiled>>

Goto(c, l)  == pc' = [pc EXCEPT ![c] = l]
Present(s)  == {f \in Files : file[s][f] # None}
Open(c)     == pc[c] = "copy"
(* Writes that hold inode i open. *)
Holders(i)  == {id[c] : c \in {d \in Clients : Open(d) /\ fd[d] = i}}
(* Everything that is lost to readers when the name of inode n goes away. *)
Lost(n)     == n.data \cup Holders(n.ino)

StagesInit ==
    /\ stages = {} /\ dirs = {}
    /\ file = [s \in AllStages |-> [f \in Files |-> None]]
    /\ pc = [c \in Clients |-> "idle"]
    /\ on = [c \in Clients |-> None] /\ name = [c \in Clients |-> None]
    /\ id = [c \in Clients |-> None] /\ fd = [c \in Clients |-> None]
    /\ todo = [c \in Clients |-> <<>>]
    /\ writes = 0
    /\ epoch = [s \in AllStages |-> 0] /\ born = [w \in Writes |-> None]
    /\ late = {} /\ uploaded = {} /\ discarded = {} /\ spoiled = {}

----------------------------------------------------------------------------
(* A named stage has to be registered; a user or table stage is registered *)
(* and gets its directory on first use, once, whoever comes first.  (That  *)
(* the directory could not be made goes unnoticed: PUT makes it again, and *)
(* an unload may fail in any case, UnloadFailed.)                          *)
ResolveStage(s) ==
    /\ s \in Named => s \in stages
    /\ stages' = stages \cup {s}
    /\ dirs' = IF s \in stages THEN dirs ELSE dirs \cup {s}

(* The files of the stage in the order of the walk, filtered by the prefix *)
(* or the pattern that the statement gives.                                *)
ListMetaFiles(s, matching) ==
    LET present == Present(s) \cap matching
    IN  [i \in 1 .. Cardinality(present) |->
            CHOOSE f \in present : Cardinality({g \in present : g < f}) = i - 1]

Unlink(s, f) == file' = [file EXCEPT ![s][f] = None]

CreateStage(c, s) ==
    /\ pc[c] = "idle" /\ s \in Named \ stages
    /\ stages' = stages \cup {s} /\ dirs' = dirs \cup {s}
    /\ UNCHANGED <<file, pc>> /\ UNCHANGED jobVars /\ UNCHANGED histVars

(* Faulty variant: the entry and not the files. *)
RemoveEntryOnly(s, kept, stays) ==
    /\ kept = {} /\ stays
    /\ epoch[s] < MaxDrops
    /\ stages' = stages \ {s}
    /\ epoch' = [epoch EXCEPT ![s] = @ + 1]
    /\ UNCHANGED <<dirs, file, born, late, uploaded, discarded, spoiled>>

(* DropStage, under the lock: the directory with its files, then the       *)
(* entry, which goes even if os.RemoveAll fails and leaves the files in    *)
(* kept, or the empty directory, behind.                                   *)
RemoveStage(s, kept, stays) ==
    /\ epoch[s] < MaxDrops
    /\ stages' = stages \ {s}
    /\ dirs' = IF stays \/ kept # {} THEN dirs ELSE dirs \ {s}
    /\ file' = [file EXCEPT ![s] = [f \in Files |-> IF f \in kept THEN @[f] ELSE None]]
    /\ epoch' = [epoch EXCEPT ![s] = @ + 1]
    /\ late' = late \cup {id[c] : c \in {d \in Clients : on[d] = s /\ id[d] # None}}
                   \cup UNION {file[s][f].data : f \in kept}
    /\ discarded' = discarded \cup UNION {Lost(file[s][f]) : f \in Present(s) \ kept}
    /\ UNCHANGED <<born, uploaded, spoiled>>

RemoveSome(s) == \E kept \in SUBSET Present(s), stays \in BOOLEAN : RemoveStage(s, kept, stays)

DropStage(c, s) ==
    /\ pc[c] = "idle" /\ s \in Named \cap stages
    /\ RemoveSome(s)
    /\ UNCHANGED pc /\ UNCHANGED jobVars

(* CREATE OR REPLACE STAGE takes the lock twice: it drops the stage if     *)
(* there is one, and then creates it unless somebody else did meanwhile or *)
(* its directory cannot be made.                                           *)
ReplaceStage(c, s) ==
    /\ pc[c] = "idle" /\ s \in Named
    /\ IF s \in stages THEN RemoveSome(s)
                       ELSE UNCHANGED stageVars /\ UNCHANGED histVars
    /\ Goto(c, "replace") /\ on' = [on EXCEPT ![c] = s]
    /\ UNCHANGED <<name, id, fd, todo, writes>>

ReplaceCreate(c) ==
    /\ pc[c] = "replace"
    /\ \/ on[c] \notin stages
          /\ stages' = stages \cup {on[c]} /\ dirs' = dirs \cup {on[c]}
       \/ UNCHANGED <<stages, dirs>>
    /\ Goto(c, "idle") /\ on' = [on EXCEPT ![c] = None]
    /\ UNCHANGED <<file, name, id, fd, todo, writes>> /\ UNCHANGED histVars

----------------------------------------------------------------------------
(* A statement that writes a file resolves the stage and then goes through *)
(* the steps at place l.                                                   *)
BeginWrite(c, s, f, l) ==
    /\ pc[c] = "idle" /\ writes < MaxWrites
    /\ ResolveStage(s)
    /\ writes' = writes + 1
    /\ on' = [on EXCEPT ![c] = s] /\ name' = [name EXCEPT ![c] = f]
    /\ id' = [id EXCEPT ![c] = writes + 1]
    /\ born' = [born EXCEPT ![writes + 1] = epoch[s]]
    /\ Goto(c, l)
    /\ UNCHANGED <<file, fd, todo, epoch, late, uploaded, discarded, spoiled>>

Put(c, s, f) == BeginWrite(c, s, f, "mkdir")

(* The end of a statement. *)
Answer(c) ==
    /\ Goto(c, "idle")
    /\ on' = [on EXCEPT ![c] = None] /\ name' = [name EXCEPT ![c] = None]
    /\ id' = [id EXCEPT ![c] = None] /\ fd' = [fd EXCEPT ![c] = None]

(* The directory the file goes to is made, even if a DROP STAGE took it away. *)
Mkdir(c, here, next) ==
    /\ pc[c] = here
    /\ dirs' = dirs \cup {on[c]}
    /\ Goto(c, next)
    /\ UNCHANGED <<stages, file>> /\ UNCHANGED jobVars /\ UNCHANGED histVars

MkdirFails(c, here) ==
    /\ pc[c] = here
    /\ Answer(c)
    /\ UNCHANGED stageVars /\ UNCHANGED <<todo, writes>> /\ UNCHANGED histVars

(* copyFile: os.Create makes the file, or truncates the one that is there; *)
(* it fails when the directory was removed since, or for another reason.   *)
Create(c) ==
    LET s == on[c]
        f == name[c]
        old == file[s][f]
        i == IF old = None THEN id[c] ELSE old.ino
    IN  /\ pc[c] = "create"
        /\ \/ /\ s \in dirs
              /\ file' = [file EXCEPT ![s][f] = [ino |-> i, data |-> {}]]
              /\ fd' = [fd EXCEPT ![c] = i]
              /\ discarded' = discarded \cup (IF old = None THEN {} ELSE old.data)
              /\ spoiled' = IF Holders(i) # {} THEN spoiled \cup {i}
                            ELSE spoiled \ {i}
              /\ Goto(c, "copy")
              /\ UNCHANGED <<on, name, id>>
           \/ Answer(c) /\ UNCHANGED <<file, discarded, spoiled>>
        /\ UNCHANGED <<stages, dirs, todo, writes, epoch, born, late, uploaded>>

(* io.Copy goes to the open inode, whether or not a name still points to   *)
(* it, and reports success either way; it may also fail half way.          *)
CopyDone(c) ==
    LET s == on[c]
        f == name[c]
    IN  /\ Open(c)
        /\ file' = IF file[s][f] # None /\ file[s][f].ino = fd[c]
                   THEN [file EXCEPT ![s][f].data = @ \cup {id[c]}]
                   ELSE file
        /\ uploaded' = uploaded \cup {id[c]}
        /\ Answer(c)
        /\ UNCHANGED <<stages, dirs, todo, writes, epoch, born, late, discarded, spoiled>>

CopyFails(c) ==
    /\ Open(c)
    /\ spoiled' = spoiled \cup {fd[c]}
    /\ Answer(c)
    /\ UNCHANGED <<stages, dirs, file, todo, writes, epoch, born, late, uploaded, discarded>>

----------------------------------------------------------------------------
(* LIST, and every other statement that finds no file: the stage is resolved. *)
List(c, s) ==
    /\ pc[c] = "idle"
    /\ ResolveStage(s)
    /\ UNCHANGED <<file, pc>> /\ UNCHANGED jobVars /\ UNCHANGED histVars

(* REMOVE and GET list the stage and then visit the files one by one; a    *)
(* file that is gone by then or that cannot be removed is reported as an   *)
(* error, and the statement goes on.                                       *)
BeginVisit(c, s, matching, l) ==
    /\ pc[c] = "idle"
    /\ ResolveStage(s)
    /\ ListMetaFiles(s, matching) # <<>>
    /\ todo' = [todo EXCEPT ![c] = ListMetaFiles(s, matching)]
    /\ on' = [on EXCEPT ![c] = s]
    /\ Goto(c, l)
    /\ UNCHANGED <<file, name, id, fd, writes>> /\ UNCHANGED histVars

(* The visit of the first listed file ends; the statement ends with the last. *)
Visited(c, l) ==
    /\ todo' = [todo EXCEPT ![c] = Tail(@)]
    /\ IF Len(todo[c]) > 1 THEN Goto(c, l) /\ UNCHANGED on
       ELSE Goto(c, "idle") /\ on' = [on EXCEPT ![c] = None]

Remove(c, s, matching) == BeginVisit(c, s, matching, "remove")
Get(c, s, matching)    == BeginVisit(c, s, matching, "get")

(* os.Remove by a statement that is meant to discard the file. *)
Discard(s, f) ==
    \/ /\ Unlink(s, f)
       /\ discarded' = discarded \cup (IF file[s][f] = None THEN {} ELSE Lost(file[s][f]))
    \/ UNCHANGED <<file, discarded>>

RemoveOne(c) ==
    /\ pc[c] = "remove"
    /\ Discard(on[c], Head(todo[c]))
    /\ Visited(c, "remove")
    /\ UNCHANGED <<stages, dirs, name, id, fd, writes, epoch, born, late, uploaded, spoiled>>

GetOne(c) ==
    /\ pc[c] = "get"
    /\ Visited(c, "get")
    /\ UNCHANGED stageVars /\ UNCHANGED <<name, id, fd, writes>> /\ UNCHANGED histVars

(* Manager.Reset, which the server runs with every request shut out.  The  *)
(* map is empty even if os.RemoveAll fails, and the files in kept and the  *)
(* directories in left stay on disk.                                       *)
Reset(kept, left) ==
    /\ \A c \in Clients : pc[c] = "idle"
    /\ \A s \in AllStages : epoch[s] < MaxDrops
    /\ stages' = {}
    /\ dirs' = left \cup {s \in AllStages : kept[s] # {}}
    /\ file' = [s \in AllStages |-> [f \in Files |-> IF f \in kept[s] THEN file[s][f] ELSE None]]
    /\ epoch' = [s \in AllStages |-> epoch[s] + 1]
    /\ late' = late \cup UNION {UNION {file[s][f].data : f \in kept[s]} : s \in AllStages}
    /\ discarded' = discarded \cup
         UNION {UNION {Lost(file[s][f]) : f \in Present(s) \ kept[s]} : s \in AllStages}
    /\ UNCHANGED <<pc, born, uploaded, spoiled>> /\ UNCHANGED jobVars
=============================================================================
