--------------------------- MODULE ParsedPrograms ---------------------------
(***************************************************************************)
(* Programs written from the grammar of the manual and given to the        *)
(* parser, as they are or with one fault: what is recognised is compared   *)
(* with what was written.                                                  *)
(***************************************************************************)
EXTENDS Parser, FiniteSets

CONSTANTS
  Features,   (* the constructs programs are written with                  *)
  MaxChoices, (* productions used that are not plain: bounds the model     *)
  MaxFaulty,  (* the same for a program that is given a fault              *)
  Faults      (* tokens that a fault may put in place of another           *)

ASSUME ProgramsAssumption == MaxChoices \in Nat /\ MaxFaulty \in Nat

VARIABLES
  phase,    (* "write", "parse", or "done"                                 *)
  todo,     (* what is still to be written                                 *)
  choices,  (* number of productions used that are not plain               *)
  written,  (* the constructs written, in the order they begin             *)
  faulty    (* the program was given a fault                               *)

vars == <<parserVars, phase, todo, choices, written, faulty>>

-----------------------------------------------------------------------------

W(t) == [op |-> "token", arg |-> t]
G(n) == [op |-> "some", arg |-> n]

With(f, production) == IF f \in Features THEN {production} ELSE {}

(* The production that costs nothing. *)
Plain(n) ==
  CASE n = "type" -> <<W("type")>>
    [] n = "expr" -> <<W("num")>>
    [] n = "effect" -> <<W("id"), W("("), W(")")>>
    [] n = "stmt" -> <<B("expr"), G("effect"), W(";")>>
    [] n = "block" -> <<W("{"), G("stmts"), W("}")>>
    [] n = "forInit" -> <<W(";")>>
    [] n = "member" -> <<G("type"), W("id"), B("field"), W(";")>>
    [] n = "decl" -> <<G("type"), W("id"), B("function"), W("("), W(")"), G("block")>>
    [] OTHER -> <<>>

Types ==
  {Plain("type")} \cup With("Class", <<W("id")>>)
  \cup With("Pointer", <<W("id"), W("*")>>)
  \cup With("Generic", <<W("id"), W("<"), G("type"), W(">"), B("typeArgs")>>)

Exprs ==
  {Plain("expr")}
  \cup With("Name", <<W("id")>>)
  \cup With("Less", <<W("id"), W("<"), G("expr")>>)
  \cup With("More", <<W("id"), W(">"), G("expr")>>)
  \cup With("Call", <<W("id"), W("("), G("expr"), W(")")>>)
  \cup With("GenericCall", <<W("id"), W("<"), G("type"), W(">"), B("typeArgs"), W("("), G("expr"), W(")")>>)
  \cup With("Times", <<W("id"), W("*"), G("expr")>>)
  \cup With("Ternary", <<W("num"), W("?"), G("expr"), W(":"), G("expr")>>)
  \cup With("Convert", <<W("type"), W("*"), W("("), G("expr"), W(")")>>)
  \cup With("Index", <<W("id"), W("["), G("expr"), W("]")>>)
  \cup With("New", <<W("new"), G("type"), W("("), W(")")>>)
  \cup With("Lambda", <<B("lambda"), W("["), W("&"), W("]"), G("block")>>)
  \cup With("LambdaOf", <<B("lambda"), W("["), W("&"), W("id"), W("]"), W("("), W(")"), W("->"), G("type"), G("block")>>)

(* What may stand alone: an expression with an effect. *)
Effects ==
  {Plain("effect")}
  \cup With("Assign", <<W("id"), W("="), G("expr")>>)
  \cup With("Store", <<W("*"), W("id"), W("="), G("expr")>>)
  \cup With("Method", <<W("id"), W("."), W("id"), W("("), G("expr"), W(")")>>)
  \cup With("GenericCall", <<W("id"), W("<"), G("type"), W(">"), B("typeArgs"), W("("), G("expr"), W(")")>>)

StmtForms ==
  {Plain("stmt")}
  \cup With("Decl", <<B("decl"), G("type"), W("id"), W("="), G("expr"), W(";")>>)
  \cup With("Const", <<B("decl"), W("const"), G("type"), W("id"), W("="), G("expr"), W(";")>>)
  \cup With("Owner", <<B("decl"), W("owner"), W("id"), W("*"), W("id"), W(";")>>)
  \cup With("Array", <<B("decl"), W("type"), W("["), W("]"), W("id"), W(";")>>)
  \cup With("ClassArray", <<B("decl"), W("id"), W("["), W("]"), W("id"), W(";")>>)
  \cup With("Block", <<G("block")>>)
  \cup With("If", <<B("if"), W("if"), W("("), G("expr"), W(")"), G("stmt")>>)
  \cup With("IfElse", <<B("if"), W("if"), W("("), G("expr"), W(")"), G("block"), B("else"), W("else"), G("stmt")>>)
  \cup With("While", <<B("while"), W("while"), W("("), G("expr"), W(")"), G("stmt")>>)
  \cup With("DoWhile", <<B("do"), W("do"), G("block"), W("while"), W("("), G("expr"), W(")"), W(";")>>)
  \cup With("For", <<B("for"), W("for"), W("("), G("forInit"), G("expr"), W(";"), G("expr"), W(")"), G("block")>>)
  \cup With("ForEach", <<B("foreach"), W("for"), W("("), G("type"), W("id"), W(":"), G("expr"), W(".."), G("expr"),
                         W(")"), G("block")>>)
  \cup With("Switch", <<B("switch"), W("switch"), W("("), W("num"), W(")"), W("{"), B("case"), W("case"), W("num"),
                        W(":"), G("stmts"), B("case"), W("default"), W(":"), G("stmts"), W("}")>>)
  \cup With("Try", <<B("try"), W("try"), G("block"), B("catch"), W("catch"), W("("), G("type"), W("id"), W(")"),
                     G("block")>>)
  \cup With("Finally", <<B("try"), W("try"), G("block"), B("finally"), W("finally"), G("block")>>)
  \cup With("Return", <<B("return"), W("return"), G("expr"), W(";")>>)
  \cup With("Defer", <<B("defer"), W("defer"), G("stmt")>>)
  \cup With("Break", <<B("break"), W("break"), W(";")>>)
  \cup With("Throw", <<W("throw"), G("expr"), W(";")>>)

Members ==
  {Plain("member")}
  \cup With("Constructor", <<B("constructor"), W("C"), W("("), G("type"), W("id"), W(")"), G("block")>>)
  \cup With("Destructor", <<B("destructor"), W("~"), W("C"), W("("), W(")"), G("block")>>)
  \cup With("Method", <<W("public"), G("type"), W("id"), B("method"), W("("), W(")"), G("block")>>)
  \cup With("Abstract", <<W("public"), W("abstract"), G("type"), W("id"), B("method"), W("("), W(")"), W(";")>>)
  \cup With("Operator", <<W("public"), G("type"), W("operator"), W("<"), B("method"), W("("), W(")"), G("block")>>)
  \cup With("MadeHere", <<W("public"), W("static"), W("C"), W("*"), W("id"), B("method"), W("("), W(")"), G("block")>>)

Decls ==
  {Plain("decl")}
  \cup With("GenericFunction", <<W("type"), W("id"), B("function"), W("<"), W("id"), W(">"), W("("), W("id"), W("id"),
                                 W(")"), G("block")>>)
  \cup With("ClassDecl", <<B("class"), W("class"), W("C"), W("{"), G("members"), W("}")>>)
  \cup With("Derived", <<B("class"), W("abstract"), W("class"), W("C"), W("extends"), W("id"), W("implements"), W("id"),
                         W("{"), G("members"), W("}")>>)
  \cup With("Interface", <<B("interface"), W("interface"), W("id"), W("{"), G("type"), W("id"), W("("), W(")"), W(";"),
                           W("}")>>)
  \cup With("Extern", <<B("extern"), W("extern"), W("str"), W("{"), W("#"), W("include"), W("<"), W("id"), W(">"),
                        G("type"), W("id"), W("("), G("type"), W(","), W("..."), W(")"), W("as"), W("str"), W(";"), W("}")>>)
  \cup With("Namespace", <<W("namespace"), W("id"), W("."), W("id"), W("{"), G("decl"), W("}")>>)
  \cup With("Include", <<W("include"), W("<"), W("id"), W(">"), G("decl")>>)
  \cup With("Attribute", <<W("@"), W("id"), W("("), W("id"), W(")")>> \o Plain("decl"))

Productions(n) ==
  CASE n = "type" -> Types
    [] n = "expr" -> Exprs
    [] n = "effect" -> Effects
    [] n = "stmt" -> StmtForms
    [] n = "stmts" -> {<<>>, <<G("stmt"), G("stmts")>>}
    [] n = "block" -> {<<W("{"), G("stmts"), W("}")>>}
    [] n = "forInit" -> {<<B("decl"), G("type"), W("id"), W("="), G("expr"), W(";")>>, <<W(";")>>}
                        \cup With("ConstFor", <<B("decl"), W("const"), W("type"), W("id"), W(";")>>)
    [] n = "member" -> Members
    [] n = "members" -> {<<>>, <<G("member"), G("members")>>}
    [] n = "decl" -> Decls

(* The lexer makes one token of two '>' that have no space in between. *)
Lexed(seq, t) ==
  {Append(seq, t)} \cup (IF "Joined" \in Features /\ t = ">" /\ seq # <<>> /\ Last(seq) = ">"
                         THEN {Append(Front(seq), ">>")} ELSE {})

-----------------------------------------------------------------------------

Init ==
  /\ tokens = <<>> /\ current = 1 /\ stack = <<>> /\ errors = 0 /\ tree = <<>>
  /\ phase = "write" /\ todo = <<G("decl")>> /\ choices = 0
  /\ written = <<>> /\ faulty = FALSE

Write ==
  /\ phase = "write" /\ todo # <<>>
  /\ LET s == Head(todo)
     IN  \/ s.op = "token" /\ tokens' \in Lexed(tokens, s.arg) /\ todo' = Tail(todo)
            /\ UNCHANGED <<written, choices>>
         \/ s.op = "built" /\ written' = Append(written, s.arg) /\ todo' = Tail(todo)
            /\ UNCHANGED <<tokens, choices>>
         \/ /\ s.op = "some"
            /\ \E p \in Productions(s.arg) :
                 /\ todo' = p \o Tail(todo)
                 /\ choices' = IF p = Plain(s.arg) THEN choices ELSE choices + 1
            /\ choices' <= MaxChoices
            /\ UNCHANGED <<tokens, written>>
  /\ UNCHANGED <<current, stack, errors, tree, phase, faulty>>

(* The loops over the members of a class, the methods of an interface, the *)
(* signatures of an extern block and the parameters of a func type make no *)
(* progress at a token that they do not know (parser.cpp:538, 709, 764,    *)
(* 138), and the parser does not end.                                      *)
MayGetStuck == \E k \in 1..Len(tokens) : tokens[k] \in {"class", "interface", "extern", "func"}

(* The program with a token left out or put in place of another. *)
Faulty ==
  {[tokens EXCEPT ![k] = t] : k \in 1..Len(tokens), t \in Faults} \cup {RemoveAt(tokens, k) : k \in 1..Len(tokens)}

Submit ==
  /\ phase = "write" /\ todo = <<>>
  /\ \/ tokens' = Append(tokens, "eof") /\ UNCHANGED faulty
     \/ /\ choices <= MaxFaulty /\ ~MayGetStuck
        /\ \E bad \in Faulty \ {tokens} : tokens' = Append(bad, "eof")
        /\ faulty' = TRUE
  /\ stack' = <<P("program")>>
  /\ phase' = "parse"
  /\ UNCHANGED <<current, errors, tree, todo, choices, written>>

Parse == phase = "parse" /\ ParseStep /\ UNCHANGED <<phase, todo, choices, written, faulty>>

Finish ==
  /\ phase = "parse" /\ stack = <<>>
  /\ phase' = "done"
  /\ UNCHANGED <<parserVars, todo, choices, written, faulty>>

Finished == phase = "done" /\ UNCHANGED vars

Next == Write \/ Submit \/ Parse \/ Finish \/ Finished

(* The parser is a loop of its own: nothing keeps it from its next step.   *)
Spec == Init /\ [][Next]_vars /\ WF_vars(Next)

-----------------------------------------------------------------------------

TypeOK ==
  /\ phase \in {"write", "parse", "done"}
  /\ phase # "write" => Last(tokens) = "eof" /\ current \in 1..Len(tokens)
  /\ errors \in 0..MaxErrors
  /\ \A k \in 1..Len(stack) : stack[k].op \in {"expect", "match", "take", "parse", "built", "error", "skip", "throw",
                                               "trial", "args", "argsNext", "genericCall", "forEach"}

(* A program of the manual's grammar is parsed without errors, to its end, *)
(* and every construct is recognised as the one written: declarations and  *)
(* expressions, the two kinds of for, generic calls and comparisons, fields*)
(* and methods, whatever was tried in between and taken back (parse*,      *)
(* tryParseTypeArgs, the lookahead of parseVarDeclOrExprStmt).             *)
ParsesWhatWasWritten ==
  phase = "done" /\ ~faulty => errors = 0 /\ tree = written /\ current = Len(tokens)

(* The parser comes to an end, also on a program with a fault: expect does *)
(* not advance, so the loops over declarations, statements, cases,         *)
(* parameters, arguments and captures must make progress of their own.     *)
(* The loops of classes, interfaces, extern blocks and func types do not   *)
(* (parser.cpp:538, 709, 764, 138): on some faulty texts they never end,   *)
(* and MayGetStuck gives no fault to a program that has one.               *)
Terminates == <>(phase = "done")
=============================================================================
