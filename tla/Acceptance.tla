----------------------------- MODULE Acceptance -----------------------------
(***************************************************************************)
(* Which files main.c accepts: the verdict of Compiler next to the rules of    *)
(* Typing, of which the compiler knows nothing.                             *)
(***************************************************************************)
EXTENDS Compiler, Typing

\* A file that is lexed and parsed is accepted exactly if its tree is well typed,
\* by rules that know of no pass, hash table or order of checks.
AcceptedIfWellTyped ==
    phase = "ended" /\ parsing = "done" =>
       (checking = "done" <=> WellTyped(<<Prelude(Builtins)>>, "none", program.statements))
=============================================================================
