-------------------------------- MODULE Pipes --------------------------------
(***************************************************************************)
(* internal/snowpipe/snowpipe.go: pipes and what they loaded.  Engine.mu   *)
(* protects the two maps.  InsertFiles looks the pipe up under it, runs    *)
(* the COPY statement for every file with no lock held, and takes the lock *)
(* again to append the results to the history kept under the same key,     *)
(* whatever became of the pipe meanwhile.                                  *)
(*                                                                         *)
(* One key: pipes of two keys never meet.  A pipe is named after the       *)
(* CREATE PIPE that made it, a result after its pipe, call and file.       *)
(***************************************************************************)
EXTENDS Integers, Sequences, FiniteSets

CONSTANTS
    Callers,     \* requests to the insertFiles endpoint
    MaxPipes,    \* bound on CREATE PIPE
    MaxCalls,    \* bound on the calls of InsertFiles
    MaxFiles     \* files of a call

ASSUME PipeAssumption == {MaxPipes, MaxCalls, MaxFiles} \subseteq Nat

Gens         == 1 .. MaxPipes
NoPipe       == 0
PipeStates   == {"RUNNING", "PAUSED"}
LoadStatuses == {"LOADED", "LOAD_FAILED"}
FileStatus   == [gen : Gens, call : 1 .. MaxCalls, file : 1 .. MaxFiles, status : LoadStatuses]

VARIABLES
    pipe, pipeState,    \* the pipe of the key and its state
    history,            \* history[key]
    pipePc,             \* what each caller is doing
    plan, files,        \* the pipe whose COPY statement it runs, and for how many files
    call, statuses,     \* the number of its call and the results so far
    pipesMade, calls,   \* pipes and calls so far
    \* history variables
    inserted,           \* the files whose COPY succeeded
    strayCalls          \* calls that were running when their pipe was dropped

callVars == <<pipePc, plan, files, call, statuses, calls>>
pipeVars == <<pipe, pipeState, history, pipePc, plan, files, call, statuses, pipesMade, calls,
              inserted, strayCalls>>

PipesInit ==
    /\ pipe = NoPipe /\ pipeState = "RUNNING" /\ history = <<>>
    /\ pipePc = [c \in Callers |-> "idle"] /\ plan = [c \in Callers |-> NoPipe]
    /\ files = [c \in Callers |-> 0] /\ call = [c \in Callers |-> 0]
    /\ statuses = [c \in Callers |-> <<>>]
    /\ pipesMade = 0 /\ calls = 0 /\ inserted = {} /\ strayCalls = {}

----------------------------------------------------------------------------
CreatePipe ==
    /\ pipe = NoPipe /\ pipesMade < MaxPipes
    /\ pipesMade' = pipesMade + 1
    /\ pipe' = pipesMade + 1 /\ pipeState' = "RUNNING" /\ history' = <<>>
    /\ UNCHANGED <<inserted, strayCalls>> /\ UNCHANGED callVars

(* Faulty variant: the history of the pipe is kept. *)
ForgetPipeOnly ==
    /\ pipe' = NoPipe /\ pipeState' = "RUNNING"
    /\ strayCalls' = strayCalls \cup {call[c] : c \in {d \in Callers : pipePc[d] # "idle"}}
    /\ UNCHANGED <<history, pipesMade, inserted>> /\ UNCHANGED callVars

(* The calls of the pipe that are still running become strays. *)
Forget ==
    /\ pipe' = NoPipe /\ history' = <<>> /\ pipeState' = "RUNNING"
    /\ strayCalls' = strayCalls \cup {call[c] : c \in {d \in Callers : pipePc[d] # "idle"}}
    /\ UNCHANGED <<pipesMade, inserted>> /\ UNCHANGED callVars

DropPipe == pipe # NoPipe /\ Forget

AlterPipe(s) ==
    /\ pipe # NoPipe /\ pipeState # s
    /\ pipeState' = s
    /\ UNCHANGED <<pipe, history, pipesMade, inserted, strayCalls>> /\ UNCHANGED callVars

(* The server resets with every request shut out. *)
ResetPipes == (\A c \in Callers : pipePc[c] = "idle") /\ Forget

----------------------------------------------------------------------------
(* The pipe has to exist and to be running; its statement is copied. *)
InsertFiles(c, n) ==
    /\ pipePc[c] = "idle" /\ pipe # NoPipe /\ pipeState = "RUNNING" /\ calls < MaxCalls
    /\ calls' = calls + 1 /\ call' = [call EXCEPT ![c] = calls + 1]
    /\ plan' = [plan EXCEPT ![c] = pipe] /\ files' = [files EXCEPT ![c] = n]
    /\ pipePc' = [pipePc EXCEPT ![c] = "exec"]
    /\ UNCHANGED <<pipe, pipeState, history, statuses, pipesMade, inserted, strayCalls>>

(* One file: the engine accepts the COPY statement or not, and the loop    *)
(* goes on either way.                                                     *)
ExecCopy(c, s) ==
    LET r == [gen |-> plan[c], call |-> call[c], file |-> Len(statuses[c]) + 1, status |-> s]
    IN  /\ pipePc[c] = "exec" /\ Len(statuses[c]) < files[c]
        /\ statuses' = [statuses EXCEPT ![c] = Append(@, r)]
        /\ inserted' = IF s = "LOADED" THEN inserted \cup {r} ELSE inserted
        /\ UNCHANGED <<pipe, pipeState, history, pipePc, plan, files, call, pipesMade, calls, strayCalls>>

Answered(c) ==
    /\ pipePc' = [pipePc EXCEPT ![c] = "idle"] /\ plan' = [plan EXCEPT ![c] = NoPipe]
    /\ files' = [files EXCEPT ![c] = 0] /\ call' = [call EXCEPT ![c] = 0]
    /\ statuses' = [statuses EXCEPT ![c] = <<>>]
    /\ UNCHANGED <<pipe, pipeState, pipesMade, calls, inserted, strayCalls>>

(* Faulty variant: the history is replaced by the results of this call. *)
RecordHistoryOver(c) ==
    /\ pipePc[c] = "exec" /\ Len(statuses[c]) = files[c]
    /\ history' = statuses[c]
    /\ Answered(c)

(* Faulty variant: a call none of whose files was loaded returns before it  *)
(* records them.                                                            *)
RecordHistoryIfLoaded(c) ==
    /\ pipePc[c] = "exec" /\ Len(statuses[c]) = files[c]
    /\ history' = IF \A i \in 1 .. files[c] : statuses[c][i].status = "LOAD_FAILED"
                  THEN history ELSE history \o statuses[c]
    /\ Answered(c)

(* The results are appended to what the key has now. *)
RecordHistory(c) ==
    /\ pipePc[c] = "exec" /\ Len(statuses[c]) = files[c]
    /\ history' = history \o statuses[c]
    /\ Answered(c)

InsertWork(c) == (\E s \in LoadStatuses : ExecCopy(c, s)) \/ RecordHistory(c)

PipesNext ==
    \/ CreatePipe \/ DropPipe \/ ResetPipes
    \/ \E s \in PipeStates : AlterPipe(s)
    \/ \E c \in Callers : InsertWork(c) \/ \E n \in 1 .. MaxFiles : InsertFiles(c, n)

PipesSpec == PipesInit /\ [][PipesNext]_pipeVars

(* A request that was accepted is carried on with. *)
PipesFairSpec == PipesSpec /\ \A c \in Callers : WF_pipeVars(InsertWork(c))

----------------------------------------------------------------------------
(* Every result is final and belongs to a pipe, a call and a file of it. *)
PipesTypeOK ==
    /\ pipe \in 0 .. MaxPipes /\ pipeState \in PipeStates /\ history \in Seq(FileStatus)
    /\ pipePc \in [Callers -> {"idle", "exec"}] /\ plan \in [Callers -> 0 .. MaxPipes]
    /\ files \in [Callers -> 0 .. MaxFiles] /\ call \in [Callers -> 0 .. MaxCalls]
    /\ statuses \in [Callers -> Seq(FileStatus)]
    /\ pipesMade \in 0 .. MaxPipes /\ calls \in 0 .. MaxCalls
    /\ inserted \subseteq FileStatus /\ strayCalls \subseteq 0 .. MaxCalls

Entries(s) == {s[i] : i \in 1 .. Len(s)}

(* Whatever the present pipe inserted is in its history or about to be put  *)
(* there, and the history claims no insert that did not happen, although    *)
(* the COPYs run unlocked and the history is shared by all calls.           *)
NothingUnrecorded ==
    LET known == Entries(history) \cup UNION {Entries(statuses[c]) : c \in Callers}
    IN  /\ {r \in inserted : r.gen = pipe} \subseteq known
        /\ {r \in known : r.status = "LOADED"} \subseteq inserted

(* The history holds results of another pipe than the present one only from *)
(* a call that was running when its pipe was dropped: snowpipe.go:185       *)
(* appends to the key without looking whether the pipe is still the same.   *)
OwnHistory ==
    \A r \in Entries(history) : r.gen = pipe \/ r.call \in strayCalls

(* A call that was accepted is recorded, whatever fails and whatever        *)
(* happens to the pipe.                                                     *)
CallRecorded ==
    \A k \in 1 .. MaxCalls :
        (\E c \in Callers : call[c] = k) ~> \E i \in 1 .. Len(history) : history[i].call = k
=============================================================================
