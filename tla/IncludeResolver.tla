---------------------------- MODULE IncludeResolver ----------------------------
(***************************************************************************)
(* The include resolver (src/resolver.cpp): a depth-first walk over the    *)
(* headers that merges their declarations into the program, with the set   *)
(* of paths already included and the modules the linker needs.             *)
(*                                                                         *)
(* What a file holds is chosen when an include first finds it.  The source *)
(* file itself is never the target of an include.                          *)
(***************************************************************************)
EXTENDS Integers, Sequences, SequencesExt, FiniteSets, FiniteSetsExt

CONSTANTS
  Names,       (* names of headers; the module of a header has its name    *)
  Main,        (* the source file                                          *)
  Own,         (* marks an item that is a declaration                      *)
  MaxItems,    (* items of a file: bounds the model                        *)
  MaxTotal,    (* items of all files: bounds the model                     *)
  MixedForms   (* a header may be included both as <h> and as "h"          *)

ASSUME ResolverAssumption ==
  /\ MaxItems \in Nat /\ MaxTotal \in Nat /\ MixedForms \in BOOLEAN
  /\ Own \notin Names
  /\ Main \notin {"source", "library"} \X Names

VARIABLES
  disk,          (* the files that exist                                   *)
  contents,      (* the items of each file an include has found            *)
  stack,         (* the files being read, innermost last                   *)
  included,      (* paths already included                                 *)
  modules,       (* modules to link                                        *)
  declarations,  (* of the resolved program                                *)
  missing        (* the headers errors were reported for                   *)

resolverVars == <<disk, contents, stack, included, modules, declarations, missing>>

Files == {"source", "library"} \X Names

(* A declaration of the file's own, or an include of a name. *)
Items == [name : {Own}, system : {FALSE}] \cup [name : Names, system : BOOLEAN]

Texts == UNION {[1..n -> Items] : n \in 0..MaxItems}

Frame == [file : Files \cup {Main}, next : Nat]

ResolverTypeOK ==
  /\ disk \subseteq Files
  /\ DOMAIN contents \subseteq Files \cup {Main}
  /\ \A f \in DOMAIN contents : contents[f] \in Texts
  /\ stack \in Seq(Frame)
  /\ included \subseteq DOMAIN contents \ {Main}
  /\ \A k \in 2..Len(stack) : stack[k].file \in included
  /\ modules \subseteq Names
  /\ declarations \in Seq((Files \cup {Main}) \X (1..MaxItems))
  /\ missing \subseteq Files \cup Names

-----------------------------------------------------------------------------

(* The file a search finds, as a set of at most one: a local include looks *)
(* beside the source first and falls back to the library.                  *)
FindFile(item) ==
  LET source == <<"source", item.name>>
  IN  IF ~item.system /\ source \in disk THEN {source} ELSE {<<"library", item.name>>} \cap disk

(* The includes of what has been read so far and of the file c. *)
IncludesIn(c) == {i \in (UNION {Range(contents[f]) : f \in DOMAIN contents}) \cup Range(c) : i.name # Own}

(* Unless MixedForms, no header is found both by <h> and by "h". *)
Uniform(c) ==
  \A i, j \in IncludesIn(c) : (i.system # j.system /\ i.name = j.name) => FindFile(i) \cap FindFile(j) = {}

ItemsRead == FoldSet(LAMBDA f, n : n + Len(contents[f]), 0, DOMAIN contents)

(* What the source, and a header that an include has found, may hold. *)
SomeText == {c \in Texts : ItemsRead + Len(c) <= MaxTotal /\ (MixedForms \/ Uniform(c))}

ResolverInit ==
  /\ disk \in SUBSET Files
  /\ contents = [f \in {} |-> <<>>]
  /\ stack = <<>>
  /\ included = {} /\ modules = {} /\ missing = {}
  /\ declarations = <<>>

(* The walk begins with the declarations of the parsed source. *)
StartResolve ==
  /\ \E c \in SomeText : contents' = [f \in {Main} |-> c]
  /\ stack' = << [file |-> Main, next |-> 1] >>
  /\ UNCHANGED <<disk, included, modules, declarations, missing>>

Top == Last(stack)
Text == contents[Top.file]
Item == Text[Top.next]
AtItem == stack # <<>> /\ Top.next <= Len(Text)
Advanced == [stack EXCEPT ![Len(stack)].next = @ + 1]

Merge ==
  /\ AtItem /\ Item.name = Own
  /\ declarations' = Append(declarations, <<Top.file, Top.next>>)
  /\ stack' = Advanced
  /\ UNCHANGED <<disk, contents, included, modules, missing>>

CannotFind ==
  /\ AtItem /\ Item.name # Own
  /\ FindFile(Item) = {}
  /\ missing' = missing \cup {Item.name}
  /\ stack' = Advanced
  /\ UNCHANGED <<disk, contents, included, modules, declarations>>

(* Mutant of AlreadyIncluded: the include is skipped without going on. *)
AlreadyIncludedStays ==
  /\ AtItem /\ Item.name # Own
  /\ FindFile(Item) # {} /\ FindFile(Item) \subseteq included
  /\ UNCHANGED resolverVars

AlreadyIncluded ==
  /\ AtItem /\ Item.name # Own
  /\ FindFile(Item) # {} /\ FindFile(Item) \subseteq included
  /\ stack' = Advanced
  /\ UNCHANGED <<disk, contents, included, modules, declarations, missing>>

(* Mutant of WithModule: a local include that ends in the library counts. *)
WithModuleOfLibrary(item) == modules \cup {n \in {item.name} : <<"library", n>> \in FindFile(item)}

(* The modules after an include directive. *)
WithModule(item) == modules \cup (IF item.system THEN {item.name} ELSE {})

(* Mutant of Include: headers are read after the file that includes them. *)
IncludeQueued ==
  /\ AtItem /\ Item.name # Own
  /\ \E f \in FindFile(Item) \ included :
       /\ included' = included \cup {f}
       /\ \E c \in SomeText : contents' = [g \in DOMAIN contents \cup {f} |-> IF g = f THEN c ELSE contents[g]]
       /\ stack' = <<[file |-> f, next |-> 1]>> \o Advanced
  /\ modules' = WithModule(Item)
  /\ UNCHANGED <<disk, declarations, missing>>

(* Mutant of Include: the path is not remembered. *)
IncludeForgets ==
  /\ AtItem /\ Item.name # Own
  /\ \E f \in FindFile(Item) \ included :
       /\ \E c \in SomeText : contents' = [g \in DOMAIN contents \cup {f} |-> IF g = f THEN c ELSE contents[g]]
       /\ stack' = Append(Advanced, [file |-> f, next |-> 1])
  /\ modules' = WithModule(Item)
  /\ UNCHANGED <<disk, included, declarations, missing>>

(* A new header: marked first, so that cycles end, then read. *)
Include ==
  /\ AtItem /\ Item.name # Own
  /\ \E f \in FindFile(Item) \ included :
       /\ included' = included \cup {f}
       /\ \E c \in SomeText : contents' = [g \in DOMAIN contents \cup {f} |-> IF g = f THEN c ELSE contents[g]]
       /\ stack' = Append(Advanced, [file |-> f, next |-> 1])
  /\ modules' = WithModule(Item)
  /\ UNCHANGED <<disk, declarations, missing>>

(* A new header that is empty or does not parse gives no declarations. *)
IncludeBroken ==
  /\ AtItem /\ Item.name # Own
  /\ \E f \in FindFile(Item) \ included :
       /\ included' = included \cup {f}
       /\ contents' = [g \in DOMAIN contents \cup {f} |-> IF g = f THEN <<>> ELSE contents[g]]
       /\ missing' = missing \cup {f}
  /\ modules' = WithModule(Item)
  /\ stack' = Advanced
  /\ UNCHANGED <<disk, declarations>>

EndOfFile ==
  /\ stack # <<>> /\ Top.next > Len(Text)
  /\ stack' = Front(stack)
  /\ UNCHANGED <<disk, contents, included, modules, declarations, missing>>

(* The files and declarations are of no more use to the model: dropped, so *)
(* that the passes that follow do not multiply their states.               *)
Forget ==
  /\ disk' = {}
  /\ contents' = [f \in {} |-> <<>>]
  /\ included' = {} /\ declarations' = <<>>
  /\ UNCHANGED <<stack, modules, missing>>

ResolveStep ==
  \/ Merge \/ CannotFind \/ AlreadyIncluded \/ Include \/ IncludeBroken \/ EndOfFile

-----------------------------------------------------------------------------

(* The file g is included by the text of f. *)
Includes(f, g) == \E i \in Range(contents[f]) : i.name # Own /\ g \in FindFile(i)

(* Of a set of files: with a file it has those that the file includes. *)
Closed(S) == \A f \in S, g \in DOMAIN contents : Includes(f, g) => g \in S

(* The file f includes g, itself or through others: g is in every closed   *)
(* set that has the includes of f.                                         *)
Reaches(f, g) ==
  \A S \in SUBSET DOMAIN contents :
    Closed(S) /\ (\A h \in DOMAIN contents : Includes(f, h) => h \in S) => g \in S

(* A header's declarations come before what follows the first include of   *)
(* it, unless the two files include each other.                            *)
InOrder ==
  \A m, n \in 1..Len(declarations) :
    LET f == declarations[m][1]
        g == declarations[n][1]
    IN  (\E k \in 1..declarations[m][2] : /\ contents[f][k].name # Own
                                          /\ g \in FindFile(contents[f][k]))
          => (n < m \/ Reaches(g, f))

(* "Duplicate-safe": the resolved program has each declaration of each     *)
(* file it can reach exactly once, a header's before those of the text     *)
(* after its include, whatever includes whatever (resolve, parseHeader).   *)
Merged ==
  /\ IsInjective(declarations)
  /\ Range(declarations) = {fi \in (DOMAIN contents) \X (1..MaxItems) :
                               /\ fi[2] <= Len(contents[fi[1]])
                               /\ contents[fi[1]][fi[2]].name = Own}
  /\ \A f \in DOMAIN contents : f = Main \/ Reaches(Main, f)
  /\ InOrder

(* "Selective linking": the modules are those of the library headers that  *)
(* some <h> of the resolved files found.                                   *)
ModulesAreIncludes ==
  modules = {n \in Names : /\ <<"library", n>> \in disk
                           /\ \E f \in DOMAIN contents, i \in Items :
                                i \in Range(contents[f]) /\ i.system /\ i.name = n}
=============================================================================
