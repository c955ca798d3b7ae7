------------------------------- MODULE Startup -------------------------------
(***************************************************************************)
(* How a component process starts: src/argument.rs classifies its one      *)
(* operand against the file system, src/process.rs selects the path of its *)
(* socket from a default or a runtime directory and an override in the     *)
(* environment, and checks the path again before anything is created.  A   *)
(* file may come or go at any moment.                                      *)
(***************************************************************************)
EXTENDS Integers, Sequences

CONSTANTS ArgumentLists,  \* what the command line may hold
          Operands,       \* the operands in them
          Pretty,         \* the flag --pretty
          DatomNamed,     \* operands whose extension is datom
          Parts,          \* what lies between the separators of a path
          Paths,          \* what configurations and the environment name
          Bad,            \* a part of a path that is not UTF-8
          Replacement,    \* what to_string_lossy makes of it
          Up,             \* the part ..
          Unset           \* the variable is not set

\* A path is whether it begins at the root, and its parts.
Path == [absolute : BOOLEAN, parts : Seq(Parts)]
NoPath == [absolute |-> FALSE, parts |-> <<>>]

ASSUME StartupAssumption ==
    /\ ArgumentLists \subseteq Seq(Operands \cup {Pretty}) /\ Pretty \notin Operands
    /\ DatomNamed \subseteq Operands
    /\ Paths \subseteq Path /\ Replacement \in Parts
    /\ Bad # Replacement /\ Up \notin {Bad, Replacement} /\ Unset \notin Paths

VARIABLES invocation,  \* arguments, environment and what the component asks for
          files,       \* operands that name a file now
          at,          \* how far the process has come
          argument,    \* the ComponentArgument it was given
          selection    \* its SocketPathSelection: path and source

startupVars == <<invocation, files, at, argument, selection>>

Invocations ==
    [arguments : ArgumentLists, entry : {"signal", "datom"}, base : {"default", "directory"},
     directory : Paths \cup {Unset}, inside : Paths, override : Paths \cup {Unset}]

Lossy(p) == [p EXCEPT !.parts = [i \in DOMAIN @ |-> IF @[i] = Bad THEN Replacement ELSE @[i]]]

\* Path::join: an absolute path replaces the one it is joined to.
Join(p, q) == IF q.absolute THEN q ELSE [p EXCEPT !.parts = @ \o q.parts]

NoSelection == [path |-> NoPath, source |-> "none"]
Named(kind, name) == [kind |-> kind, name |-> name]

StartupTypeOK ==
    /\ invocation \in Invocations /\ files \subseteq Operands
    /\ at \in {"starting", "parsed", "based", "selected", "prepared", "failed"}
    /\ argument \in {NoSelection} \cup [kind : {"inline", "datom file", "signal file"},
                                        name : Operands]
    /\ selection \in [path : Path, source : {"none", "default", "directory", "override"}]

StartupInit ==
    /\ invocation \in Invocations /\ files \in SUBSET Operands
    /\ at = "starting" /\ argument = NoSelection /\ selection = NoSelection

\* Another program makes or removes a file.
FileChanges(f) ==
    /\ files' = IF f \in files THEN files \ {f} ELSE files \cup {f}
    /\ UNCHANGED <<invocation, at, argument, selection>>

------------------------------------------------------------------------------
Positional(arguments) == SelectSeq(arguments, LAMBDA a : a # Pretty)

Fails == at' = "failed" /\ UNCHANGED <<argument, selection>>
Parsed(kind, name) ==
    /\ at' = "parsed" /\ argument' = Named(kind, name) /\ UNCHANGED selection

\* raw_argument, then datom_argument or signal_file_argument.  What names no file
\* at this moment is inline text.
Classify ==
    LET operands == Positional(invocation.arguments)
        name == operands[1]
    IN  /\ at = "starting"
        /\ IF Len(operands) # 1 THEN Fails
           ELSE IF invocation.entry = "datom"
           THEN Parsed(IF name \in files THEN "datom file" ELSE "inline", name)
           ELSE IF name \in files \ DatomNamed THEN Parsed("signal file", name) ELSE Fails
        /\ UNCHANGED <<invocation, files>>

\* Mutant: a path that begins at the root is not searched for "..".
BugNoTraversalCheck(p) == p.absolute

\* AbsoluteRuntimePath::try_new refuses empty and relative paths and any "..".
Valid(p) == p # NoPath /\ p.absolute /\ \A i \in DOMAIN p.parts : p.parts[i] # Up

Select(p, source, place) ==
    IF Valid(p)
    THEN at' = place /\ selection' = [path |-> p, source |-> source] /\ UNCHANGED argument
    ELSE Fails

\* from_default, or from_runtime_directory: an unset directory counts as empty.
SelectBase ==
    /\ at = "parsed"
    /\ IF invocation.base = "default" THEN Select(invocation.inside, "default", "based")
       ELSE IF invocation.directory \in {Unset, NoPath} THEN Fails
       ELSE Select(Join(Lossy(invocation.directory), invocation.inside), "directory", "based")
    /\ UNCHANGED <<invocation, files>>

\* Mutant: an override that is not valid leaves the default in force.
BugFallsBack ==
    /\ at = "based"
    /\ IF invocation.override # Unset /\ Valid(Lossy(invocation.override))
       THEN Select(Lossy(invocation.override), "override", "selected")
       ELSE at' = "selected" /\ UNCHANGED <<argument, selection>>
    /\ UNCHANGED <<invocation, files>>

\* from_environment_override and select_environment_override: set, it decides.
SelectOverride ==
    /\ at = "based"
    /\ IF invocation.override = Unset
       THEN at' = "selected" /\ UNCHANGED <<argument, selection>>
       ELSE Select(Lossy(invocation.override), "override", "selected")
    /\ UNCHANGED <<invocation, files>>

\* RuntimeSocketFile::prepare checks the path again and makes its directory.
Prepare ==
    /\ at = "selected"
    /\ \/ Valid(selection.path) /\ at' = "prepared" /\ UNCHANGED <<argument, selection>>
       \/ Fails
    /\ UNCHANGED <<invocation, files>>

StartupNext ==
    \/ \E f \in Operands : FileChanges(f)
    \/ Classify \/ SelectBase \/ SelectOverride \/ Prepare

StartupSpec == StartupInit /\ [][StartupNext]_startupVars

------------------------------------------------------------------------------
\* Where the kernel ends up: each ".." takes the part before it away.
Resolved(parts) ==
    LET upTo[i \in 0..Len(parts)] ==
          IF i = 0 THEN <<>>
          ELSE IF parts[i] = Up
          THEN SubSeq(upTo[i - 1], 1, IF upTo[i - 1] = <<>> THEN 0 ELSE Len(upTo[i - 1]) - 1)
          ELSE Append(upTo[i - 1], parts[i])
    IN  upTo[Len(parts)]

Begins(parts, start) == Len(start) <= Len(parts) /\ SubSeq(parts, 1, Len(start)) = start

Chosen == at \in {"selected", "prepared"}

\* A path taken from the runtime directory resolves to a place in that directory,
\* whatever the variable holds, when the component's part is relative
\* (from_runtime_directory, AbsoluteRuntimePath::try_new).
StaysInside ==
    Chosen /\ selection.source = "directory" /\ ~invocation.inside.absolute =>
        Begins(Resolved(selection.path.parts), Lossy(invocation.directory).parts)

\* A variable that is set decides: its value is the socket's path, or the process
\* fails; it never falls back in silence (select_environment_override).
OverrideDecides ==
    Chosen => IF invocation.override = Unset THEN selection.source = invocation.base
              ELSE /\ selection.source = "override"
                   /\ selection.path = Lossy(invocation.override)

SelectionSound == StaysInside /\ OverrideDecides
==============================================================================
