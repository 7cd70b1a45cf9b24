------------------------------ MODULE JsonGet ------------------------------
(***************************************************************************)
(* The argument loop of json_get (lib.rs):                                 *)
(*   JSON.GET <key> [INDENT s] [NEWLINE s] [SPACE s] [NOESCAPE]            *)
(*            [FORMAT f] [path ...]                                        *)
(* Each step of the loop takes the next argument.  An argument longer     *)
(* than JSONGET_SUBCOMMANDS_MAXSTRLEN, the longest subcommand name        *)
(* (max_strlen, evaluated at compile time), is a path at once; otherwise  *)
(* it is compared with each subcommand, ignoring case, and is a path if   *)
(* it is none of them.                                                     *)
(*                                                                         *)
(* An argument is a record [word, len]: word is the argument upper-cased  *)
(* if it spells a subcommand or "JSON", and "other" if not; len is its    *)
(* length in bytes.                                                        *)
(***************************************************************************)
EXTENDS Integers, Sequences, SequencesExt

CONSTANTS
  ArgLists,  \* the argument lists after <key> a client may send
  None       \* model value: no error

VARIABLES
  argv,      \* the arguments as sent
  args,      \* the arguments the loop has not taken yet
  paths, indent, newline, space, format,
  err,       \* the error the loop returned with, or None
  pc         \* "loop" while the loop runs, "done" once json_get goes on

vars == <<argv, args, paths, indent, newline, space, format, err, pc>>

\* The subcommand constants and their lengths.
CmdLen == [w \in {"NOESCAPE", "INDENT", "NEWLINE", "SPACE", "FORMAT"} |->
             CASE w = "NOESCAPE" -> 8 [] w = "INDENT" -> 6 [] w = "NEWLINE" -> 7
               [] w = "SPACE" -> 5 [] w = "FORMAT" -> 6]

\* max_strlen: the loop over the array, keeping the longest length seen.
max_strlen(arr) == FoldLeft(LAMBDA m, w : IF m < CmdLen[w] THEN CmdLen[w] ELSE m, 0, arr)

\* Variant: the array as it was before NOESCAPE was added to the options.
JSONGET_SUBCOMMANDS_MAXSTRLEN_stale == max_strlen(<<"INDENT", "NEWLINE", "SPACE", "FORMAT">>)

JSONGET_SUBCOMMANDS_MAXSTRLEN ==
  max_strlen(<<"NOESCAPE", "INDENT", "NEWLINE", "SPACE", "FORMAT">>)

\* JSON_ROOT_PATH, the path read when none is given.
RootPath == [word |-> "$", len |-> 1]

Init ==
  /\ argv \in ArgLists
  /\ args = argv
  /\ paths = <<>>
  /\ indent = None /\ newline = None /\ space = None
  /\ format = "JSON"
  /\ err = None
  /\ pc = "loop"

Running == pc = "loop" /\ args # <<>> /\ err = None

\* The next argument is a path: past the length test, or no subcommand.
TakePath ==
  /\ Running
  /\ Head(args).len > JSONGET_SUBCOMMANDS_MAXSTRLEN
     \/ Head(args).word \notin DOMAIN CmdLen
  /\ paths' = Append(paths, Head(args))
  /\ args' = Tail(args)
  /\ UNCHANGED <<argv, indent, newline, space, format, err, pc>>

\* A subcommand that takes a value: `args.next_string()?` returns
\* WrongArity if there is none.
TakeOption ==
  /\ Running
  /\ Head(args).len <= JSONGET_SUBCOMMANDS_MAXSTRLEN
  /\ Head(args).word \in {"INDENT", "NEWLINE", "SPACE", "FORMAT"}
  /\ LET w == Head(args).word
         rest == Tail(args)
     IN  IF rest = <<>> THEN err' = "WrongArity" /\ UNCHANGED <<args, indent, newline, space, format>>
         ELSE LET v == Head(rest)
              IN  /\ args' = Tail(rest)
                  /\ indent' = IF w = "INDENT" THEN v ELSE indent
                  /\ newline' = IF w = "NEWLINE" THEN v ELSE newline
                  /\ space' = IF w = "SPACE" THEN v ELSE space
                  \* Format::from_str knows only JSON
                  /\ IF w = "FORMAT" /\ v.word # "JSON"
                     THEN err' = "format" /\ UNCHANGED format
                     ELSE UNCHANGED err /\ format' = IF w = "FORMAT" THEN v.word ELSE format
  /\ UNCHANGED <<argv, paths, pc>>

\* NOESCAPE is accepted and ignored.
SkipNoEscape ==
  /\ Running
  /\ Head(args).len <= JSONGET_SUBCOMMANDS_MAXSTRLEN
  /\ Head(args).word = "NOESCAPE"
  /\ args' = Tail(args)
  /\ UNCHANGED <<argv, paths, indent, newline, space, format, err, pc>>

\* The loop has ended; with no path given, the root is read.
EndLoop ==
  /\ pc = "loop"
  /\ ~Running
  /\ paths' = IF paths = <<>> /\ err = None THEN <<RootPath>> ELSE paths
  /\ pc' = "done"
  /\ UNCHANGED <<argv, args, indent, newline, space, format, err>>

\* json_get has parsed its arguments; what it does next is not modelled here.
Finished == pc = "done" /\ UNCHANGED vars

Next == TakePath \/ TakeOption \/ SkipNoEscape \/ EndLoop \/ Finished

Spec == Init /\ [][Next]_vars

-----------------------------------------------------------------------------
(***************************************************************************)
(* The documented syntax, read without the length shortcut: an argument  *)
(* spelling a subcommand (in any case) is that subcommand.                *)
(***************************************************************************)
RECURSIVE Documented(_, _)
Documented(as, st) ==
  IF as = <<>> THEN [st EXCEPT !.paths = IF @ = <<>> THEN <<RootPath>> ELSE @]
  ELSE LET a == Head(as) IN
  CASE a.word = "NOESCAPE" -> Documented(Tail(as), st)
    [] a.word \in {"INDENT", "NEWLINE", "SPACE", "FORMAT"} ->
         IF Tail(as) = <<>> THEN [st EXCEPT !.err = "WrongArity"]
         ELSE IF a.word = "FORMAT" /\ Head(Tail(as)).word # "JSON" THEN [st EXCEPT !.err = "format"]
         ELSE Documented(Tail(Tail(as)),
                [st EXCEPT !.opts[a.word] = IF a.word = "FORMAT" THEN Head(Tail(as)).word
                                            ELSE Head(Tail(as))])
    [] OTHER -> Documented(Tail(as), [st EXCEPT !.paths = Append(@, a)])

Parsed == [paths |-> paths, err |-> err,
           opts |-> [w \in {"INDENT", "NEWLINE", "SPACE", "FORMAT"} |->
                       CASE w = "INDENT" -> indent [] w = "NEWLINE" -> newline
                         [] w = "SPACE" -> space [] w = "FORMAT" -> format]]

(***************************************************************************)
(* The length shortcut of json_get (#390) never changes how an argument   *)
(* is read: once the loop is over, paths, options and error are those of  *)
(* the documented syntax.  It holds only while                            *)
(* JSONGET_SUBCOMMANDS_MAXSTRLEN covers every subcommand, which the       *)
(* comment above it asks of whoever adds one.                              *)
(***************************************************************************)
GetFastPathSound ==
  pc = "done" =>
     Parsed = Documented(argv, [paths |-> <<>>, err |-> None,
                                opts |-> [w \in {"INDENT", "NEWLINE", "SPACE", "FORMAT"} |->
                                            IF w = "FORMAT" THEN "JSON" ELSE None]])
=============================================================================
