---------------------------- MODULE ScriptEngine -----------------------------
(***************************************************************************)
(* internal/executor/script_engine.go: the registry of engines and the     *)
(* execution of a script in a child process, whose output a goroutine of   *)
(* os/exec copies into a bounded writer until every holder of the pipe     *)
(* has closed it.  The process, its descendants and the copier are         *)
(* external.  stdout and stderr are one stream; bytes are counted.         *)
(***************************************************************************)
EXTENDS Integers, Sequences

CONSTANTS
    Runs,
    Builtin,    \* the types with a built-in engine
    Configured, \* the list of script_engines in the configuration
    MaxOutput,  \* bound: bytes a script writes
    MaxChunk    \* bound: bytes one read of the pipe returns

VARIABLES
    engines,   \* the registered engines by type
    loaded,    \* how many of Configured have been looked at
    run        \* run[r]: one execution

vars == <<engines, loaded, run>>

\* mode: inline, file, jar or one that is unknown; limit: max_output_bytes; found:
\* Validate finds the binary.
Types == Builtin \cup {Configured[i].type : i \in DOMAIN Configured}
Engine == [type : Types \cup {"none"}, mode : {"inline", "file", "jar", "bad"}, limit : Nat]
BuiltinEngine(t) == [type |-> t, mode |-> "inline", limit |-> 0]
None == [type |-> "none", mode |-> "bad", limit |-> 0]

NewRun == [at |-> "idle", engine |-> None, temp |-> FALSE, proc |-> "none", child |-> FALSE,
           sent |-> 0, pipe |-> 0, kept |-> 0, copier |-> "none", answer |-> "none"]

\* NewScriptEngineRegistry registers the built-in engines that Validate accepts.
Init ==
    /\ \E there \in SUBSET Builtin :
          engines = [t \in Types |-> IF t \in there THEN BuiltinEngine(t) ELSE None]
    /\ loaded = 0
    /\ run = [r \in Runs |-> NewRun]
-----------------------------------------------------------------------------
(* The registry *)

\* LoadFromConfig, before the executor serves: a disabled entry is skipped, one whose
\* binary is missing is not registered, any other replaces the engine of its type.
Load ==
    /\ loaded < Len(Configured) /\ loaded' = loaded + 1
    /\ LET c == Configured[loaded + 1] IN
         engines' = IF c.disabled \/ ~c.found THEN engines
                    ELSE [engines EXCEPT ![c.type] =
                             [type |-> c.type, mode |-> c.mode, limit |-> c.limit]]
    /\ UNCHANGED run
-----------------------------------------------------------------------------
(* One execution *)

\* What runScript makes of Execute's result; the deferred Remove deletes the temporary file.
Answer(r, a) == run' = [run EXCEPT ![r].at = "answered", ![r].answer = a, ![r].temp = FALSE]

\* runScript gets the engine of the type; Execute goes by its mode.
RunScript(r, t) ==
    /\ loaded = Len(Configured)
    /\ run[r].at = "idle"
    /\ CASE engines[t] = None -> Answer(r, "unsupported")
         [] engines[t] # None /\ engines[t].mode = "bad" -> Answer(r, "error")
         [] OTHER -> run' = [run EXCEPT ![r].engine = engines[t],
                                ![r].at = IF engines[t].mode = "file" THEN "write" ELSE "start"]
    /\ UNCHANGED <<engines, loaded>>

WriteTempFile(r) ==
    /\ run[r].at = "write"
    /\ \/ run' = [run EXCEPT ![r].at = "start", ![r].temp = TRUE]
       \/ Answer(r, "error")
    /\ UNCHANGED <<engines, loaded>>

\* cmd.Start fails without the binary, or when the context has expired.
StartProcess(r) ==
    /\ run[r].at = "start"
    /\ \/ run' = [run EXCEPT ![r].at = "running", ![r].proc = "running", ![r].copier = "copying"]
       \/ Answer(r, "error")
    /\ UNCHANGED <<engines, loaded>>

\* The process, or a descendant that outlives it, writes; once the copier has gone its
\* pipe is broken, and the process may die of it.
Output(r) ==
    /\ run[r].proc = "running" \/ run[r].child
    /\ run[r].pipe = 0
    /\ \/ run[r].copier = "copying" /\ \E n \in 1 .. MaxChunk :
             /\ run[r].sent + n <= MaxOutput
             /\ run' = [run EXCEPT ![r].pipe = n, ![r].sent = @ + n]
       \/ /\ run[r].copier = "short" /\ run[r].proc = "running"
          /\ run' = [run EXCEPT ![r].proc = "failed"]
    /\ UNCHANGED <<engines, loaded>>

\* Mutant of LimitedWrite: a writer that keeps what it should have cut.
LimitedWriteWhole(e) ==
    IF e.engine.limit > 0 /\ e.kept >= e.engine.limit
    THEN [e EXCEPT !.pipe = 0] ELSE [e EXCEPT !.pipe = 0, !.kept = @ + e.pipe]

\* limitedWriter.Write of what the copier has read.  A chunk that is cut returns the
\* length of what was kept, and the copier stops with ErrShortWrite.
LimitedWrite(e) ==
    LET left == e.engine.limit - e.kept IN
    CASE e.engine.limit = 0 \/ (left > 0 /\ e.pipe <= left) ->
            [e EXCEPT !.pipe = 0, !.kept = @ + e.pipe]
      [] e.engine.limit > 0 /\ left <= 0 -> [e EXCEPT !.pipe = 0]
      [] OTHER -> [e EXCEPT !.pipe = 0, !.kept = e.engine.limit, !.copier = "short"]

Copy(r) ==
    /\ run[r].copier = "copying" /\ run[r].pipe > 0
    /\ run' = [run EXCEPT ![r] = LimitedWrite(@)]
    /\ UNCHANGED <<engines, loaded>>

Fork(r) ==
    /\ run[r].proc = "running" /\ ~run[r].child
    /\ run' = [run EXCEPT ![r].child = TRUE]
    /\ UNCHANGED <<engines, loaded>>

\* The process exits, or the context expires and kills it (and it alone).
ProcessEnds(r, how) ==
    /\ run[r].proc = "running"
    /\ run' = [run EXCEPT ![r].proc = how]
    /\ UNCHANGED <<engines, loaded>>

ChildEnds(r) ==
    /\ run[r].child
    /\ run' = [run EXCEPT ![r].child = FALSE]
    /\ UNCHANGED <<engines, loaded>>

EndOfOutput(r) ==
    /\ run[r].copier = "copying" /\ run[r].pipe = 0
    /\ run[r].proc # "running" /\ ~run[r].child
    /\ run' = [run EXCEPT ![r].copier = "done"]
    /\ UNCHANGED <<engines, loaded>>

\* cmd.Run waits for the process and for the copier; the copier's error counts when the
\* exit code is 0.
Wait(r) ==
    /\ run[r].at = "running" /\ run[r].proc # "running" /\ run[r].copier # "copying"
    /\ Answer(r, IF run[r].proc = "exit0" /\ run[r].copier = "done" THEN "nil" ELSE "error")
    /\ UNCHANGED <<engines, loaded>>

Next ==
    \/ Load
    \/ \E r \in Runs :
         \/ \E t \in Types : RunScript(r, t)
         \/ WriteTempFile(r) \/ StartProcess(r) \/ Output(r) \/ Copy(r) \/ Fork(r)
         \/ \E how \in {"exit0", "failed", "killed"} : ProcessEnds(r, how)
         \/ ChildEnds(r) \/ EndOfOutput(r) \/ Wait(r)

Spec == Init /\ [][Next]_vars
-----------------------------------------------------------------------------
TypeOK ==
    /\ engines \in [Types -> Engine] /\ loaded \in 0 .. Len(Configured)
    /\ run \in [Runs -> [at : {"idle", "write", "start", "running", "answered"},
                         engine : Engine, temp : BOOLEAN, child : BOOLEAN,
                         proc : {"none", "running", "exit0", "failed", "killed"},
                         sent : 0 .. MaxOutput, pipe : 0 .. MaxChunk, kept : 0 .. MaxOutput,
                         copier : {"none", "copying", "short", "done"},
                         answer : {"none", "nil", "error", "unsupported"}]]

\* A nil answer means that the script exited with 0 and that its output is in the result,
\* all of it or, if it was longer, exactly the first max_output_bytes; and whatever the
\* answer, the result is never longer and no temporary file stays (runProcess, executeFile).
ScriptResultHolds ==
    \A r \in Runs :
        LET e == run[r] IN
        /\ e.answer = "nil" =>
              /\ e.proc = "exit0"
              /\ e.kept = IF e.engine.limit = 0 \/ e.sent < e.engine.limit THEN e.sent
                          ELSE e.engine.limit
        /\ e.engine.limit > 0 => e.kept <= e.engine.limit
        /\ e.at = "answered" => ~e.temp
=============================================================================
