--------------------------- MODULE MCTypeChecker ---------------------------
(* Constants of the small programs TLC checks. *)
EXTENDS TypeChecker

MCBuiltins == <<[name |-> "print", type |-> "D_STRING"],
                [name |-> "println", type |-> "D_STRING"],
                [name |-> "printint", type |-> "D_INTEGER"],
                [name |-> "printfloat", type |-> "D_FLOAT"]>>

MCNames == {"", "input", "print", "println", "printint", "printfloat",
            "f", "x", "s"}

\* The low bits of ht_hash_FNV_1a.
MCHash == [name \in MCNames |->
    CASE name = "" -> 453 [] name = "input" -> 891
      [] name = "print" -> 648 [] name = "println" -> 166
      [] name = "printint" -> 1001 [] name = "printfloat" -> 242
      [] name = "f" -> 921 [] name = "x" -> 135 [] name = "s" -> 386]

Ident(name) == [node |-> "N_IDENT", name |-> name]
Nil == [node |-> "N_NIL"]
Call(name, args) == [node |-> "N_CALL_EXPR", func_name |-> name, args |-> args]
Binop(op, l, r) == [node |-> "N_BINOP_EXPR", operator |-> op, lhs |-> l, rhs |-> r]
Assign(l, r) == [node |-> "N_ASSIGN_EXPR", lhs |-> l, rhs |-> r]
Access(name, member) ==
    [node |-> "N_STRUCT_ACCESS_EXPR", name |-> name, member_name |-> member]

MCExprs == {Literal("D_INTEGER"), Literal("D_STRING"), Nil, Ident("x"), Ident("f"),
            Call("f", <<Ident("x")>>), Call("f", <<Literal("D_STRING")>>), Call("print", <<Literal("D_STRING")>>),
            Call("f", << >>),
            Binop("T_PLUS", Literal("D_INTEGER"), Ident("x")),
            Binop("T_EQ", Ident("x"), Ident("f")),
            Assign(Ident("x"), Literal("D_INTEGER")),
            Access("x", "x"), 
            [node |-> "N_NEG_EXPR", expr |-> Ident("x")],
            [node |-> "N_ARRAY_INIT_EXPR"]}

Var(type, name, struct_type, value) ==
    [name |-> name, type |-> type, struct_type |-> struct_type, value |-> value]
Param(type, name) == [name |-> name, type |-> type, struct_type |-> ""]
Func(name, formals, type) ==
    [name |-> name, type |-> type, struct_type |-> "", formals |-> formals]

MCVarDecls == {Var("D_FLOAT", "x", "", DefaultValue("D_FLOAT")),
               Var("D_INTEGER", "x", "", Literal("D_INTEGER")),
               Var("D_INTEGER", "x", "", Call("f", <<Literal("D_STRING")>>)),
               Var("D_STRUCT", "x", "s", DefaultValue("D_STRUCT")),
               Var("D_INTEGER", "f", "", Nil)}

MCFuncDecls == {Func("f", <<Param("D_INTEGER", "x")>>, "D_INTEGER"),
                Func("f", <<Param("D_STRING", "f")>>, "D_VOID"),
                Func("x", << >>, "D_STRING"),
                Func("s", <<Param("D_INTEGER", "x"), Param("D_INTEGER", "x")>>, "D_VOID")}

MCStructDecls == {[name |-> "s", members |-> <<Param("D_INTEGER", "x")>>],
                  [name |-> "s", members |-> <<Param("D_INTEGER", "s"), Param("D_STRING", "s")>>]}
=============================================================================
