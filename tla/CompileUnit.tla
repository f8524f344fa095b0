---------------------------- MODULE CompileUnit ----------------------------
(***************************************************************************)
(* The stages of the driver for one source file: parse_source, then        *)
(* typecheck_program, then code generation, each entered when the one      *)
(* before has recorded no error.                                           *)
(*                                                                         *)
(* The tree itself does not pass from Parser to TypeChecker, whose program *)
(* is any: what passes is the verdict.                                     *)
(***************************************************************************)
EXTENDS TypeChecker

CONSTANTS Sources, Mistyped, Slips

VARIABLES
    stage,     \* "parse", "check", "generate", or "rejected"
    source, tokens, position, syntaxErrors, calls, node, mode, decls    \* of Parser

parserVars == <<source, tokens, position, syntaxErrors, calls, node, mode, decls>>
unitVars   == <<stage, parserVars, vars>>

P == INSTANCE Parser WITH errors <- syntaxErrors

UnitInit ==
    /\ P!Init
    /\ Init
    /\ stage = "parse"

parse_source ==
    /\ stage = "parse"
    /\ P!Parsing
    /\ UNCHANGED <<stage, vars>>

\* The driver goes on with the tree when the parser has recorded nothing.
ParseVerdict == ~syntaxErrors

\* The parser is dropped with all it holds.
Parsed ==
    /\ stage = "parse"
    /\ mode = "done"
    /\ ParseVerdict
    /\ stage' = "check"
    /\ source' = <<>> /\ tokens' = <<>> /\ decls' = <<>> /\ calls' = <<>> /\ node' = P!None
    /\ position' = 1
    /\ mode' = "dropped"
    /\ UNCHANGED <<syntaxErrors, vars>>

ParseError ==
    /\ stage = "parse"
    /\ mode = "done"
    /\ ~ParseVerdict
    /\ stage' = "rejected"
    /\ UNCHANGED <<parserVars, vars>>

typecheck_program ==
    /\ stage = "check"
    /\ Next
    /\ UNCHANGED <<stage, parserVars>>

\* Mutant of CheckVerdict: the errors of one function are forgotten with its body.
LastVerdict == <<"function", function>> \notin errors

\* The driver goes on to code generation when the checker has recorded nothing.
CheckVerdict == errors = {}

Checked ==
    /\ stage = "check"
    /\ phase = "done"
    /\ stage' = IF CheckVerdict THEN "generate" ELSE "rejected"
    /\ UNCHANGED <<parserVars, vars>>

UnitNext == parse_source \/ Parsed \/ ParseError \/ typecheck_program \/ Checked

\* The compiler is one thread that does not wait for anything.
UnitSpec == UnitInit /\ [][UnitNext]_unitVars /\ WF_unitVars(UnitNext)

-----------------------------------------------------------------------------
(* Properties of the whole; those of TypeChecker hold of it too. *)

\* A program as C writes it gets past the parser, with the structure C gives it.
ReadsAsWritten == P!ReadsAsWritten

\* Whatever gets past the parser has been read from the first token to the last: after a
\* slip of one token either an error stops the driver or every token is in the tree.
NothingSkipped == P!NothingSkipped

\* Code is generated for nothing that a stage before has found an error in, or should have:
\* the parser has recorded none, every function is one that C, with the rules of the
\* dialect, allows by itself, and one that returns a value does so on every path, unless the
\* checker relied on the body of a loop or of a switch.
GeneratesLegalCode == stage = "generate" => ~syntaxErrors /\ wrong = {} /\ fallsOff = {}

\* Every compilation ends: recovery always moves on.
CompilationEnds == <>(stage \in {"generate", "rejected"})
=============================================================================
