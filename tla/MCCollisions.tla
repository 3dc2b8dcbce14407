--------------------------- MODULE MCCollisions ----------------------------
(***************************************************************************)
(* Small programs whose identifiers share slots of the real hash function:   *)
(* x and iy, f and ig, print and ni, and cwx with the empty name.            *)
(***************************************************************************)
EXTENDS TypeChecker

MCBuiltins == <<[name |-> "print", type |-> "D_STRING"]>>

MCNames == {"", "input", "print", "ni", "f", "ig", "x", "iy", "cwx"}

\* The low bits of ht_hash_FNV_1a.
MCHash == [name \in MCNames |->
    CASE name \in {"", "cwx"} -> 453
      [] name = "input" -> 891
      [] name \in {"print", "ni"} -> 648
      [] name \in {"f", "ig"} -> 921
      [] name \in {"x", "iy"} -> 135]

IntLiteral == Literal("D_INTEGER")
Ident(name) == [node |-> "N_IDENT", name |-> name]

MCExprs == {IntLiteral, Ident("x"), Ident("iy"), Ident("ig"),
            [node |-> "N_CALL_EXPR", func_name |-> "f", args |-> <<IntLiteral>>],
            [node |-> "N_BINOP_EXPR", operator |-> "T_MUL",
             lhs |-> IntLiteral, rhs |-> Ident("iy")]}

Var(name) == [name |-> name, type |-> "D_INTEGER", struct_type |-> "", value |-> IntLiteral]
Param(name) == [name |-> name, type |-> "D_STRING", struct_type |-> ""]
Func(name, formals, type) ==
    [name |-> name, type |-> type, struct_type |-> "", formals |-> formals]

MCVarDecls == {Var(name) : name \in {"x", "iy", "ni", "cwx"}}

MCFuncDecls == {Func("f", <<Param("x")>>, "D_INTEGER"),
                Func("f", <<Param("ig"), Param("iy")>>, "D_INTEGER"),
                Func("iy", <<Param("cwx")>>, "D_VOID")}

MCStructDecls == {[name |-> "ig", members |-> <<Param("f"), Param("x"), Param("iy")>>]}
=============================================================================
