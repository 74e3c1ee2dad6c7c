------------------------------- MODULE Parser -------------------------------
(***************************************************************************)
(* The recursive descent parser (src/parser.cpp) as a pushdown machine:    *)
(* the stack holds what the calls in progress have still to do, the first  *)
(* element next.  A parse function is the sequence of symbols it turns     *)
(* into, which may depend on the next two tokens, as in the code.          *)
(*                                                                         *)
(* A token stands for its kind.  "C" is the name of the class at hand,     *)
(* "id" any other identifier, "type" a primitive type but string, "num"    *)
(* any literal but a string and one that does not fit ("big").  Operators  *)
(* that are parsed alike are one token, and precedence is left out.        *)
(***************************************************************************)
EXTENDS Integers, Sequences, SequencesExt

VARIABLES
  tokens,   (* the input, ending with "eof"                                *)
  current,  (* position of the next token                                  *)
  stack,    (* what is still to be done                                    *)
  errors,   (* number of errors reported, in a trial those since it began; *)
            (* at most MaxErrors are counted                               *)
  tree      (* the constructs recognised, in the order they begin          *)

parserVars == <<tokens, current, stack, errors, tree>>

CONSTANT MaxErrors
ASSUME ErrorsAssumption == MaxErrors \in Nat \ {0}

Ids == {"id", "C"}
Primitives == {"type", "string"}
TypeStart == Primitives \cup Ids \cup {"owner", "const", "func", "auto"}
SyncStops == {"class", "interface", "type", "string", "if", "while", "for", "do", "switch", "return", "extern",
              "try", "throw"}
Literals == {"num", "str", "this"}
Prefix == {"-", "*", "&", "move", "++"}
Binary == {"-", "*", "<", ">"}

Peek == tokens[current]
PeekNext == IF current < Len(tokens) THEN tokens[current + 1] ELSE Last(tokens)

(* Mutant of Advanced: the end of the input is passed. *)
AdvancedPastEnd == current + 1

Advanced == IF Peek = "eof" THEN current ELSE current + 1

-----------------------------------------------------------------------------

(* The symbols: a token that must or may come, a token taken as it is, a   *)
(* call, a construct recognised, an error reported.                        *)
E(t) == [op |-> "expect", arg |-> t]
M(t) == [op |-> "match", arg |-> t]
T == [op |-> "take"]
P(f) == [op |-> "parse", arg |-> f]
B(e) == [op |-> "built", arg |-> e]
Error == [op |-> "error"]

(* synchronize: one token, then all up to a place to start from. *)
Synchronize == <<T, [op |-> "skip"]>>

(* The trial of '<': where to return to, how many errors and constructs    *)
(* there were, and how many '>' are missing.                               *)
Trial == [op |-> "trial", pos |-> current, errs |-> errors, len |-> Len(tree), depth |-> 1]

Is(t) == Peek = t
AtEnd(closer) == Peek \in {closer, "eof"}

(* Types. *)
Type == IF Is("auto") THEN <<T>>
        ELSE IF Is("owner") THEN <<T, P("ownedBase")>> ELSE <<P("base")>>

BaseType(suffix) ==
  CASE Peek \in Primitives -> <<T, P(suffix)>>
    [] Is("func") -> <<T, E("("), P("funcParams"), E(")"), E("->"), P("type"), P(suffix)>>
    [] Peek \in Ids -> <<T, P("dotted"), P("typeArgs"), P(suffix)>>
    [] OTHER -> <<Error>>

FuncParams == IF AtEnd(")") THEN <<>> ELSE <<P("type"), P("funcComma"), P("funcParams")>>
FuncComma == IF Is(")") THEN <<>> ELSE <<E(",")>>

Dotted == IF Is(".") /\ PeekNext \in Ids THEN <<T, T, P("dotted")>> ELSE <<>>

Suffix(array) ==
  CASE Is("*") -> <<T, P("stars"), P("array")>>
    [] Is("&") -> <<T, P(array)>>
    [] OTHER -> <<P(array)>>
Stars == IF Is("*") THEN <<T, P("stars")>> ELSE <<>>
ArraySuffix == IF Is("[") /\ PeekNext = "]" THEN <<T, T>> ELSE <<>>
OwnedArray == IF Is("[") /\ PeekNext = "]" THEN <<T, T>> ELSE <<Error>>

TypeParams == IF ~Is("<") THEN <<>> ELSE <<T, P("typeParam"), E(">")>>
TypeParam == IF Is(">") THEN <<>> ELSE <<E("id"), P("moreTypeParams")>>
MoreTypeParams == IF Is(",") THEN <<T, E("id"), P("moreTypeParams")>> ELSE <<>>

TryParseTypeArgs == IF Is("<") THEN <<T, Trial>> ELSE <<>>

(* Declarations.  "program" and "namespaceBody" catch what is thrown; a     *)
(* squib function is known only outside of namespace blocks.               *)
Decl(declaration, again) ==
  CASE Is("include") -> <<P("include"), again>>
    [] Is("namespace") -> <<P("namespace"), again>>
    [] OTHER -> <<P("attributes"), declaration, again>>

Program == IF Is("eof") THEN <<>> ELSE Decl(P("declaration"), P("program"))
NamespaceBody == IF AtEnd("}") THEN <<>> ELSE Decl(P("inNamespace"), P("namespaceBody"))

Declaration(functionStart) ==
  CASE Is("abstract") /\ PeekNext = "class" -> <<T, P("class")>>
    [] Peek \in {"class", "interface", "extern"} -> <<P(Peek)>>
    [] Peek \in functionStart -> <<M("squib"), P("type"), E("id"), P("function")>>
    [] OTHER -> <<Error>> \o Synchronize

Attributes == IF ~Is("@") THEN <<>> ELSE <<T, E("id"), P("attributeArg"), P("attributes")>>
AttributeArg == IF Is("(") THEN <<T, E("id"), E(")")>> ELSE <<>>

Include == <<E("include"), P("includePath"), M(";")>>
IncludePath ==
  CASE Is("<") -> <<T, P("pathTokens"), E(">")>>
    [] Is("str") -> <<T>>
    [] OTHER -> <<Error>>
PathTokens == IF AtEnd(">") THEN <<>> ELSE <<T, P("pathTokens")>>

Namespace == <<E("namespace"), E("id"), P("dotted"), P("namespaceKind")>>
NamespaceKind == IF Is(";") THEN <<T>> ELSE <<E("{"), P("namespaceBody"), E("}")>>

Class == <<B("class"), E("class"), E("id"), P("typeParams"), P("extends"), P("implements"),
           E("{"), P("classBody"), E("}")>>
Extends == IF Is("extends") THEN <<T, E("id"), P("dotted")>> ELSE <<>>
Implements == IF Is("implements") THEN <<T, E("id"), P("dotted"), P("moreInterfaces")>> ELSE <<>>
MoreInterfaces == IF Is(",") THEN <<T, E("id"), P("dotted"), P("moreInterfaces")>> ELSE <<>>

ClassBody == IF AtEnd("}") THEN <<>> ELSE <<M("public"), M("static"), M("override"), P("member"), P("classBody")>>

Member == IF Is("abstract") THEN <<T, P("abstractMember")>> ELSE <<P("concreteMember")>>
SpecialOr(rest) ==
  CASE Is("~") -> <<B("destructor"), T, E("id"), E("("), E(")"), P("block")>>
    [] Is("C") /\ PeekNext = "(" -> <<B("constructor"), T, E("("), P("params"), E(")"), P("block")>>
    [] OTHER -> <<M("const"), P("type"), P("memberName"), P(rest)>>
MemberName == IF Is("operator") THEN <<T, P("operatorSymbol")>> ELSE <<E("id")>>
OperatorSymbol ==
  CASE Peek \in Binary -> <<T>>
    [] Is("[") -> <<T, E("]")>>
    [] OTHER -> <<Error>>
MethodOrField(body) ==
  IF Is("(") THEN <<B("method"), T, P("params"), E(")"), body>>
  ELSE <<B("field"), P("init"), E(";")>>

Params ==
  CASE Is(")") -> <<>>
    [] Is("...") -> <<T>>
    [] OTHER -> <<P("param")>>
Param == <<P("type"), E("id"), P("init"), P("moreParams")>>
MoreParams ==
  CASE Is(",") /\ PeekNext = "..." -> <<T, T>>
    [] Is(",") /\ PeekNext = ")" -> <<T>>
    [] Is(",") -> <<T, P("param")>>
    [] OTHER -> <<M("...")>>

Interface == <<B("interface"), E("interface"), E("id"), E("{"), P("signatures"), E("}")>>
Signatures == IF AtEnd("}") THEN <<>>
              ELSE <<P("type"), E("id"), E("("), P("params"), E(")"), E(";"), P("signatures")>>

Function == <<B("function"), P("typeParams"), E("("), P("params"), E(")"), P("block")>>

Extern == <<B("extern"), E("extern"), E("str"), E("{"), P("externBody"), E("}")>>
ExternBody ==
  CASE AtEnd("}") -> <<>>
    [] Is("#") -> <<T, P("externInclude")>>
    [] OTHER -> <<P("type"), E("id"), E("("), P("externParams"), E(")"), P("linkName"), E(";"), P("externBody")>>
ExternInclude ==
  IF Is("include") THEN <<T, P("externPath")>> ELSE <<Error, P("dropExtern")>>
ExternPath ==
  CASE Is("<") -> <<T, P("externPathTokens"), E(">"), P("externBody")>>
    [] Is("str") -> <<T, P("externBody")>>
    [] OTHER -> <<Error, P("dropExtern")>>
ExternPathTokens == IF AtEnd(">") \/ Is("}") THEN <<>> ELSE <<T, P("externPathTokens")>>
DropExtern == IF AtEnd("}") THEN <<>> ELSE <<T, P("dropExtern")>>
ExternParams == IF Is(")") THEN <<>> ELSE <<P("externParam")>>
ExternParam == IF Is("...") THEN <<T>> ELSE <<P("type"), P("externName"), P("moreExternParams")>>
ExternName == IF Peek \in Ids THEN <<T>> ELSE <<>>
MoreExternParams == IF Is(",") THEN <<T, P("externParam")>> ELSE <<>>
LinkName == IF Is("as") THEN <<T, E("str")>> ELSE <<>>

(* Statements. *)
Block == <<E("{"), P("stmts"), E("}")>>
Stmts == IF AtEnd("}") THEN <<>> ELSE <<P("stmt"), P("stmts")>>

Stmt ==
  CASE Is("{") -> <<P("block")>>
    [] Peek \in {"if", "while", "for", "do", "switch", "try", "throw", "return", "delete", "defer"} -> <<P(Peek)>>
    [] Is("break") -> <<B("break"), T, E(";")>>
    [] OTHER -> <<P("declOrExpr")>>

If == <<B("if"), E("if"), E("("), P("expr"), E(")"), P("stmt"), P("else")>>
Else == IF Is("else") THEN <<B("else"), T, P("stmt")>> ELSE <<>>
While == <<B("while"), E("while"), E("("), P("expr"), E(")"), P("stmt")>>
DoWhile == <<B("do"), E("do"), P("stmt"), E("while"), E("("), P("expr"), E(")"), E(";")>>
Return == <<B("return"), E("return"), P("returned"), E(";")>>
Returned == IF Is(";") THEN <<>> ELSE <<M("move"), P("expr")>>
Delete == <<E("delete"), P("expr"), E(";")>>
Defer == <<B("defer"), E("defer"), P("stmt")>>
Throw == <<E("throw"), P("expr"), E(";")>>

Switch == <<B("switch"), E("switch"), E("("), P("expr"), E(")"), E("{"), P("cases"), E("}")>>

(* Mutant of Cases: the switch goes on at the token it does not know. *)
CasesStay ==
  CASE AtEnd("}") -> <<>>
    [] Is("case") -> <<B("case"), T, P("expr"), E(":"), P("caseBody"), P("cases")>>
    [] Is("default") -> <<B("case"), T, E(":"), P("caseBody"), P("cases")>>
    [] OTHER -> <<Error, P("cases")>>

Cases ==
  CASE AtEnd("}") -> <<>>
    [] Is("case") -> <<B("case"), T, P("expr"), E(":"), P("caseBody"), P("cases")>>
    [] Is("default") -> <<B("case"), T, E(":"), P("caseBody"), P("cases")>>
    [] OTHER -> <<Error>> \o Synchronize \o <<P("cases")>>

CaseBody == IF AtEnd("}") \/ Peek \in {"case", "default"} THEN <<>> ELSE <<P("stmt"), P("caseBody")>>

Try == <<B("try"), E("try"), P("block"), P("catches")>>
Catch == <<B("catch"), T, E("("), P("type"), E("id"), E(")"), P("block"), P("moreCatches")>>
Catches ==
  CASE Is("catch") -> Catch
    [] Is("finally") -> <<P("finally")>>
    [] OTHER -> <<Error>>
MoreCatches == IF Is("catch") THEN Catch ELSE <<P("finally")>>
Finally == IF Is("finally") THEN <<B("finally"), T, P("block")>> ELSE <<>>

(* A range loop is tried first when a type may begin. *)
For == <<E("for"), E("("), P("forHead")>>
ForHead ==
  IF Peek \in TypeStart
  THEN <<P("type"), [op |-> "forEach", pos |-> current, len |-> Len(tree)]>>
  ELSE <<P("forClassic")>>
ForEach == <<B("foreach"), P("type"), E("id"), E(":"), P("expr"), E(".."), P("expr"), E(")"), P("stmt")>>
ForClassic == <<B("for"), P("forInit"), P("forCond"), E(";"), P("forIncr"), E(")"), P("stmt")>>
ForInit == IF Is(";") THEN <<T>> ELSE <<P("declOrExpr")>>
ForCond == IF Is(";") THEN <<>> ELSE <<P("expr")>>
ForIncr == IF Is(")") THEN <<>> ELSE <<P("expr")>>

(* Where a dotted name that is followed at i ends. *)
AfterDots(i) ==
  LET after[k \in 1..Len(tokens)] ==
        IF tokens[k] = "." /\ k < Len(tokens) /\ tokens[k + 1] \in Ids THEN after[k + 2] ELSE k
  IN  after[i]

(* The scan over balanced '<' and '>' from i; i itself when it fails. *)
AfterAngles(i) ==
  LET scan[k \in 1..Len(tokens), depth \in -1..Len(tokens)] ==
        CASE depth <= 0 \/ tokens[k] = "eof" -> IF depth = 0 THEN k ELSE i
          [] tokens[k] = "<" -> scan[k + 1, depth + 1]
          [] tokens[k] = ">" -> scan[k + 1, depth - 1]
          [] tokens[k] = ">>" -> scan[k + 1, depth - 2]
          [] tokens[k] \in {";", "{"} -> i
          [] OTHER -> scan[k + 1, depth]
  IN  IF tokens[i] = "<" THEN scan[i + 1, 1] ELSE i

(* Mutant of AfterName: type arguments are not skipped. *)
AfterNameOnly == AfterDots(current + 1)

AfterName == AfterAngles(AfterDots(current + 1))

LooksLikeDecl ==
  \/ Peek \in {"squib"} \cup (TypeStart \ Ids)
  \/ /\ Peek \in Ids
     /\ \/ tokens[AfterName] \in Ids
        \/ tokens[AfterName] \in {"*", "&"} /\ tokens[AfterName + 1] \in Ids

VarDeclOrExprStmt ==
  IF LooksLikeDecl
  THEN <<B("decl"), M("squib"), M("const"), P("type"), E("id"), P("init"), E(";")>>
  ELSE <<B("expr"), P("expr"), E(";")>>
Initializer == IF Is("=") THEN <<T, P("expr")>> ELSE <<>>

(* Expressions. *)
Assignment == <<P("unary"), P("binaryRest"), P("assignRest")>>
BinaryRest == IF Peek \in Binary THEN <<T, P("unary"), P("binaryRest")>> ELSE <<>>
AssignRest ==
  CASE Is("?") -> <<T, P("expr"), E(":"), P("expr")>>
    [] Is("=") -> <<T, P("expr")>>
    [] OTHER -> <<>>
Unary == IF Peek \in Prefix THEN <<T, P("unary")>> ELSE <<P("primary"), P("postfix")>>
Postfix ==
  CASE Is(".") -> <<T, E("id"), P("callArgs"), P("postfix")>>
    [] Is("[") -> <<T, P("expr"), E("]"), P("postfix")>>
    [] Is("as") -> <<T, P("type"), P("postfix")>>
    [] Is("++") -> <<T, P("postfix")>>
    [] OTHER -> <<>>
CallArgs == IF Is("(") THEN <<T, P("args"), E(")")>> ELSE <<>>
ArgList == IF Is(")") THEN <<>> ELSE <<P("expr"), P("moreArgs")>>
MoreArgs == IF Is(",") THEN <<T, P("expr"), P("moreArgs")>> ELSE <<>>

(* A type with stars, or string, in front of a parenthesis. *)
IsBoundaryConvert ==
  \/ Is("string") /\ PeekNext = "("
  \/ Is("type") /\ \E k \in (current + 1)..(Len(tokens) - 1) :
                     tokens[k + 1] = "(" /\ \A j \in (current + 1)..k : tokens[j] = "*"

Primary ==
  CASE Peek \in Literals -> <<T>>
    [] Is("big") -> <<T, [op |-> "throw"]>>
    [] Is("super") -> <<T, P("callArgs")>>
    [] Is("new") -> <<T, P("type"), P("newRest")>>
    [] Is("[") -> <<P("lambda")>>
    [] IsBoundaryConvert -> <<P("type"), E("("), P("expr"), E(")")>>
    [] Is("(") -> <<T, P("expr"), E(")")>>
    [] Peek \in Ids -> IF PeekNext = "<"
                       THEN <<T, P("typeArgs"), [op |-> "genericCall", pos |-> current + 1, len |-> Len(tree)]>>
                       ELSE <<T, P("callArgs")>>
    [] OTHER -> <<Error, T>>
NewRest == IF Is("[") THEN <<T, P("expr"), E("]")>> ELSE <<E("("), P("args"), E(")")>>

Lambda == <<B("lambda"), E("["), P("captures"), E("]"), P("lambdaParams"), P("lambdaType"), P("block")>>
Captures ==
  CASE Is("]") -> <<>>
    [] Is("=") \/ (Is("&") /\ PeekNext = "]") -> <<T>>
    [] OTHER -> <<P("capture")>>
Capture == <<M("&"), P("captureName"), P("moreCaptures")>>
CaptureName == IF Is("this") THEN <<T>> ELSE <<E("id")>>
MoreCaptures == IF Is(",") THEN <<T, P("capture")>> ELSE <<>>
LambdaParams == IF Is("(") THEN <<T, P("params"), E(")")>> ELSE <<>>
LambdaType == IF Is("->") THEN <<T, P("type")>> ELSE <<>>

(* What each parse function turns into. *)
Rule(f) ==
  CASE f = "type" -> Type
    [] f = "base" -> BaseType("suffix")
    [] f = "ownedBase" -> BaseType("ownedSuffix")
    [] f = "suffix" -> Suffix("array")
    [] f = "ownedSuffix" -> Suffix("ownedArray")
    [] f = "stars" -> Stars
    [] f = "array" -> ArraySuffix
    [] f = "ownedArray" -> OwnedArray
    [] f = "funcParams" -> FuncParams
    [] f = "funcComma" -> FuncComma
    [] f = "dotted" -> Dotted
    [] f = "typeArgs" -> TryParseTypeArgs
    [] f = "typeParams" -> TypeParams
    [] f = "typeParam" -> TypeParam
    [] f = "moreTypeParams" -> MoreTypeParams
    [] f = "program" -> Program
    [] f = "namespaceBody" -> NamespaceBody
    [] f = "declaration" -> Declaration(TypeStart \cup {"squib"})
    [] f = "inNamespace" -> Declaration(TypeStart)
    [] f = "attributes" -> Attributes
    [] f = "attributeArg" -> AttributeArg
    [] f = "include" -> Include
    [] f = "includePath" -> IncludePath
    [] f = "pathTokens" -> PathTokens
    [] f = "namespace" -> Namespace
    [] f = "namespaceKind" -> NamespaceKind
    [] f = "class" -> Class
    [] f = "extends" -> Extends
    [] f = "implements" -> Implements
    [] f = "moreInterfaces" -> MoreInterfaces
    [] f = "classBody" -> ClassBody
    [] f = "member" -> Member
    [] f = "abstractMember" -> SpecialOr("abstractRest")
    [] f = "concreteMember" -> SpecialOr("concreteRest")
    [] f = "memberName" -> MemberName
    [] f = "operatorSymbol" -> OperatorSymbol
    [] f = "abstractRest" -> MethodOrField(E(";"))
    [] f = "concreteRest" -> MethodOrField(P("block"))
    [] f = "params" -> Params
    [] f = "param" -> Param
    [] f = "moreParams" -> MoreParams
    [] f = "interface" -> Interface
    [] f = "signatures" -> Signatures
    [] f = "function" -> Function
    [] f = "extern" -> Extern
    [] f = "externBody" -> ExternBody
    [] f = "externInclude" -> ExternInclude
    [] f = "externPath" -> ExternPath
    [] f = "externPathTokens" -> ExternPathTokens
    [] f = "dropExtern" -> DropExtern
    [] f = "externParams" -> ExternParams
    [] f = "externParam" -> ExternParam
    [] f = "externName" -> ExternName
    [] f = "moreExternParams" -> MoreExternParams
    [] f = "linkName" -> LinkName
    [] f = "block" -> Block
    [] f = "stmts" -> Stmts
    [] f = "stmt" -> Stmt
    [] f = "if" -> If
    [] f = "else" -> Else
    [] f = "while" -> While
    [] f = "do" -> DoWhile
    [] f = "return" -> Return
    [] f = "returned" -> Returned
    [] f = "delete" -> Delete
    [] f = "defer" -> Defer
    [] f = "throw" -> Throw
    [] f = "switch" -> Switch
    [] f = "cases" -> Cases
    [] f = "caseBody" -> CaseBody
    [] f = "try" -> Try
    [] f = "catches" -> Catches
    [] f = "moreCatches" -> MoreCatches
    [] f = "finally" -> Finally
    [] f = "for" -> For
    [] f = "forHead" -> ForHead
    [] f = "forClassic" -> ForClassic
    [] f = "forInit" -> ForInit
    [] f = "forCond" -> ForCond
    [] f = "forIncr" -> ForIncr
    [] f = "declOrExpr" -> VarDeclOrExprStmt
    [] f = "init" -> Initializer
    [] f = "expr" -> Assignment
    [] f = "binaryRest" -> BinaryRest
    [] f = "assignRest" -> AssignRest
    [] f = "unary" -> Unary
    [] f = "postfix" -> Postfix
    [] f = "callArgs" -> CallArgs
    [] f = "args" -> ArgList
    [] f = "moreArgs" -> MoreArgs
    [] f = "primary" -> Primary
    [] f = "newRest" -> NewRest
    [] f = "lambda" -> Lambda
    [] f = "captures" -> Captures
    [] f = "capture" -> Capture
    [] f = "captureName" -> CaptureName
    [] f = "moreCaptures" -> MoreCaptures
    [] f = "lambdaParams" -> LambdaParams
    [] f = "lambdaType" -> LambdaType

-----------------------------------------------------------------------------

Todo == Head(stack)
Rest == Tail(stack)
Doing(op) == stack # <<>> /\ Todo.op = op

Matches(t) == Peek = t \/ (t = "id" /\ Peek \in Ids)

Reported == IF errors < MaxErrors THEN errors + 1 ELSE errors

(* expect: a token that is not there is reported, and nothing is skipped. *)
Expect ==
  /\ Doing("expect")
  /\ stack' = Rest
  /\ IF Matches(Todo.arg) THEN current' = Advanced /\ UNCHANGED errors
     ELSE errors' = Reported /\ UNCHANGED current
  /\ UNCHANGED <<tokens, tree>>

Match ==
  /\ Doing("match")
  /\ stack' = Rest
  /\ current' = IF Matches(Todo.arg) THEN Advanced ELSE current
  /\ UNCHANGED <<tokens, errors, tree>>

Take ==
  /\ Doing("take")
  /\ stack' = Rest
  /\ current' = Advanced
  /\ UNCHANGED <<tokens, errors, tree>>

Call ==
  /\ Doing("parse")
  /\ stack' = Rule(Todo.arg) \o Rest
  /\ UNCHANGED <<tokens, current, errors, tree>>

Built ==
  /\ Doing("built")
  /\ stack' = Rest
  /\ tree' = Append(tree, Todo.arg)
  /\ UNCHANGED <<tokens, current, errors>>

Report ==
  /\ Doing("error")
  /\ stack' = Rest
  /\ errors' = Reported
  /\ UNCHANGED <<tokens, current, tree>>

Skip ==
  /\ Doing("skip")
  /\ IF Is("eof") \/ tokens[current - 1] = ";" \/ Peek \in SyncStops
     THEN stack' = Rest /\ UNCHANGED current
     ELSE current' = Advanced /\ UNCHANGED stack
  /\ UNCHANGED <<tokens, errors, tree>>

(* A literal that does not fit throws: the innermost loop over             *)
(* declarations goes on after synchronize, and no error is reported.       *)
Unwind ==
  /\ Doing("throw")
  /\ LET k == SelectInSeq(stack, LAMBDA s : s \in {P("program"), P("namespaceBody")})
     IN  stack' = Synchronize \o SubSeq(stack, k, Len(stack))
  /\ UNCHANGED <<tokens, current, errors, tree>>

(* A trial fails: position, errors and what was recognised go back. *)
GiveUp ==
  /\ stack' = Rest
  /\ current' = Todo.pos
  /\ errors' = Todo.errs
  /\ tree' = SubSeq(tree, 1, Todo.len)

(* After a type argument: '>', '>>' for two of them, or a comma. *)
CloseAngles ==
  /\ stack' = <<[Todo EXCEPT !.op = "args",
                            !.depth = @ - (IF Is(">") THEN 1 ELSE IF Is(">>") THEN 2 ELSE 0)]>> \o Rest
  /\ current' = Advanced
  /\ UNCHANGED <<errors, tree>>

(* savedErrors: a trial looks only at whether errors came after it began,  *)
(* so they are counted from 0 until it ends.                               *)
BeginTrial ==
  /\ Doing("trial")
  /\ stack' = <<[Todo EXCEPT !.op = "args"]>> \o Rest
  /\ errors' = 0
  /\ UNCHANGED <<tokens, current, tree>>

TypeArgs ==
  /\ Doing("args")
  /\ \/ /\ Todo.depth > 0 /\ Peek \in TypeStart
        /\ stack' = <<P("type"), [Todo EXCEPT !.op = "argsNext"]>> \o Rest
        /\ UNCHANGED <<current, errors, tree>>
     \/ Todo.depth # 0 /\ ~(Todo.depth > 0 /\ Peek \in TypeStart) /\ GiveUp
     \/ /\ Todo.depth = 0
        /\ stack' = Rest /\ tree' = Append(tree, "typeArgs")
        /\ errors' = Todo.errs
        /\ UNCHANGED current
  /\ UNCHANGED tokens

NextTypeArg ==
  /\ Doing("argsNext")
  /\ IF errors > 0 \/ Peek \notin {">", ">>", ","} THEN GiveUp ELSE CloseAngles
  /\ UNCHANGED tokens

(* After name< in an expression: a call if type arguments were found and a *)
(* parenthesis follows, else the name alone.                               *)
GenericCall ==
  /\ Doing("genericCall")
  /\ IF current # Todo.pos /\ Is("(")
     THEN /\ stack' = <<T, P("args"), E(")")>> \o Rest
          /\ UNCHANGED <<current, tree>>
     ELSE /\ stack' = Rest
          /\ current' = Todo.pos
          /\ tree' = SubSeq(tree, 1, Todo.len)
  /\ UNCHANGED <<tokens, errors>>

(* After the trial of a type in a for: back to its start, a range loop if  *)
(* a name and a colon follow.  Errors of the trial stay.                   *)
DecideFor ==
  /\ Doing("forEach")
  /\ stack' = (IF Peek \in Ids /\ PeekNext = ":" THEN ForEach ELSE <<P("forClassic")>>) \o Rest
  /\ current' = Todo.pos
  /\ tree' = SubSeq(tree, 1, Todo.len)
  /\ UNCHANGED <<tokens, errors>>

ParseStep ==
  \/ Expect \/ Match \/ Take \/ Call \/ Built \/ Report \/ Skip \/ Unwind
  \/ BeginTrial \/ TypeArgs \/ NextTypeArg \/ GenericCall \/ DecideFor
=============================================================================
