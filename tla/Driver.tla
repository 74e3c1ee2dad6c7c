------------------------------- MODULE Driver -------------------------------
(***************************************************************************)
(* The compiler driver (src/main.cpp): the passes in order, what each exit *)
(* leaves behind, and the object files it makes, links and removes.        *)
(*                                                                         *)
(* An option is chosen where the code first asks for it.  LLVM, clang and  *)
(* the linker may fail at every call; the linker does fail when an object  *)
(* it is given does not exist.                                             *)
(***************************************************************************)
EXTENDS IncludeResolver

CONSTANTS
  CFiles,       (* the number of C sources of the command line             *)
  CHeaders,     (* the number of includes in extern blocks                 *)
  StaleObject,  (* an object of this name may be left from an earlier run  *)
  EmitFails     (* writing an output may fail                              *)

ASSUME DriverAssumption == 
  /\ CFiles \in Nat /\ CHeaders \in Nat
  /\ StaleObject \in BOOLEAN /\ EmitFails \in BOOLEAN

VARIABLES
  phase,   (* of main, and "done" when it has returned                     *)
  mode,    (* what is asked for: "check", "build" or an output             *)
  errors,  (* passes that reported errors                                  *)
  made,    (* the files the compiler writes                                *)
  cobjs,   (* how many objects of C sources there are                      *)
  cdone,   (* how many C headers have been read                            *)
  status,  (* the value main returned, 0 or 1                              *)
  wrote    (* outputs it told the user it wrote                            *)

driverVars == <<phase, mode, errors, made, cobjs, cdone, status, wrote>>
vars == <<resolverVars, driverVars>>

(* temp is the file a C header is included from. *)
Made == {"program", "listing", "object", "temp"}

Phases == {"parse", "resolve", "externs", "reading", "analyse", "generate", "emit", "compile", "link", "clean", "done"}

Listings == {"llvm", "assembly"}

TypeOK ==
  /\ ResolverTypeOK
  /\ phase \in Phases
  /\ mode \in {"build", "check", "object", "link"} \cup Listings
  /\ errors \subseteq {"parser", "resolver", "sema"}
  /\ made \in [Made -> {"absent", "old", "new"}]
  /\ cobjs \in 0..CFiles /\ cdone \in 0..CHeaders
  /\ status \in {0, 1} /\ (status = 1 => phase = "done")
  /\ wrote \subseteq Made /\ (wrote # {} => phase = "done")

Init ==
  /\ ResolverInit
  /\ phase = "parse"
  /\ mode \in {"build", "check"}
  /\ errors = {}
  /\ \E s \in IF StaleObject THEN {"absent", "old"} ELSE {"absent"} :
       made = [f \in Made |-> IF f = "object" THEN s ELSE "absent"]
  /\ cobjs = 0 /\ cdone = 0
  /\ status = 0 /\ wrote = {}

-----------------------------------------------------------------------------

Return(s) == phase' = "done" /\ status' = s

(* Mutant of AfterPass: errors of a pass are printed and forgotten. *)
AfterPassGoesOn(pass, failed, next) ==
  /\ errors' = errors \cup (IF failed THEN {pass} ELSE {})
  /\ phase' = next /\ UNCHANGED status

(* After a pass: errors end the run, unless --check collects them all. *)
AfterPass(pass, failed, next) ==
  /\ errors' = errors \cup (IF failed THEN {pass} ELSE {})
  /\ IF failed /\ mode # "check" THEN Return(1) ELSE phase' = next /\ UNCHANGED status

Parse ==
  /\ phase = "parse"
  /\ \E failed \in BOOLEAN :
       \/ AfterPass("parser", failed, "resolve") /\ phase' = "resolve" /\ StartResolve
       \/ AfterPass("parser", failed, "resolve") /\ phase' = "done" /\ UNCHANGED resolverVars
  /\ UNCHANGED <<mode, made, cobjs, cdone, wrote>>

Resolve ==
  /\ phase = "resolve"
  /\ \/ stack # <<>> /\ ResolveStep /\ UNCHANGED phase
     \/ stack = <<>> /\ Forget /\ phase' = "externs"
  /\ UNCHANGED <<mode, errors, made, cobjs, cdone, status, wrote>>

(* A C header of an extern block: parseCHeader gives clang a file that     *)
(* includes it, which cannot always be made.                               *)
MakeTemp ==
  /\ phase = "externs" /\ cdone < CHeaders
  /\ cdone' = cdone + 1
  /\ \/ made' = [made EXCEPT !["temp"] = "new"] /\ phase' = "reading" /\ UNCHANGED errors
     \/ errors' = errors \cup {"resolver"} /\ UNCHANGED <<made, phase>>
  /\ UNCHANGED <<resolverVars, mode, cobjs, status, wrote>>

(* Mutant of ReadCHeader: the file is removed after the checks. *)
ReadCHeaderLate ==
  /\ phase = "reading" /\ phase' = "externs"
  /\ \/ made' = [made EXCEPT !["temp"] = "absent"] /\ UNCHANGED errors
     \/ errors' = errors \cup {"resolver"} /\ UNCHANGED made
  /\ UNCHANGED <<resolverVars, mode, cobjs, cdone, status, wrote>>

(* clang's syntax tree is read, or it found the header at fault. *)
ReadCHeader ==
  /\ phase = "reading" /\ phase' = "externs"
  /\ made' = [made EXCEPT !["temp"] = "absent"]
  /\ errors' \in {errors, errors \cup {"resolver"}}
  /\ UNCHANGED <<resolverVars, mode, cobjs, cdone, status, wrote>>

EndResolve ==
  /\ phase = "externs"
  /\ AfterPass("resolver", missing # {} \/ "resolver" \in errors, "analyse")
  /\ UNCHANGED <<resolverVars, mode, made, cobjs, cdone, wrote>>

Analyse ==
  /\ phase = "analyse"
  /\ \E failed \in BOOLEAN : AfterPass("sema", failed, "generate")
  /\ UNCHANGED <<resolverVars, mode, made, cobjs, cdone, wrote>>

(* --check ends here, before any code is generated. *)
ReportCheck ==
  /\ phase = "generate" /\ mode = "check"
  /\ Return(IF errors = {} THEN 0 ELSE 1)
  /\ UNCHANGED <<resolverVars, mode, errors, made, cobjs, cdone, wrote>>

(* The verifier may reject the module; else the output is chosen. *)
Generate ==
  /\ phase = "generate" /\ mode = "build"
  /\ \/ Return(1) /\ UNCHANGED mode
     \/ mode' \in {"object"} \cup Listings /\ phase' = "emit" /\ UNCHANGED status
     \/ mode' = "link" /\ phase' = "compile" /\ UNCHANGED status
  /\ UNCHANGED <<resolverVars, errors, made, cobjs, cdone, wrote>>

(* An output is written, or with EmitFails left as it was. *)
Emit(f) ==
  \/ made' = [made EXCEPT ![f] = "new"]
  \/ EmitFails /\ UNCHANGED made

(* The result of emitObjectFile and its like is not looked at. *)
EmitOnly ==
  /\ phase = "emit"
  /\ LET f == IF mode = "object" THEN "object" ELSE "listing"
     IN  Emit(f) /\ wrote' = {f}
  /\ Return(0)
  /\ UNCHANGED <<resolverVars, mode, errors, cobjs, cdone>>

(* The next C source; one that fails ends the run. *)
CompileC ==
  /\ phase = "compile" /\ cobjs < CFiles
  /\ \/ cobjs' = cobjs + 1 /\ UNCHANGED <<phase, status>>
     \/ Return(1) /\ UNCHANGED cobjs
  /\ UNCHANGED <<resolverVars, mode, errors, made, cdone, wrote>>

EmitObject ==
  /\ phase = "compile" /\ cobjs = CFiles
  /\ Emit("object")
  /\ phase' = "link"
  /\ UNCHANGED <<resolverVars, mode, errors, cobjs, cdone, status, wrote>>

(* The program is as new as the object it is linked from. *)
Link ==
  /\ phase = "link" /\ phase' = "clean"
  /\ \/ UNCHANGED made
     \/ made["object"] # "absent" /\ made' = [made EXCEPT !["program"] = made["object"]]
  /\ UNCHANGED <<resolverVars, mode, errors, cobjs, cdone, status, wrote>>

(* The objects go whether or not the link worked. *)
Clean ==
  /\ phase = "clean"
  /\ made' = [made EXCEPT !["object"] = "absent"] /\ cobjs' = 0
  /\ \/ made["program"] # "absent" /\ Return(0) /\ wrote' = {"program"}
     \/ made["program"] = "absent" /\ Return(1) /\ UNCHANGED wrote
  /\ UNCHANGED <<resolverVars, mode, errors, cdone>>

Returned == phase = "done" /\ UNCHANGED vars

Next ==
  \/ Parse \/ Resolve \/ MakeTemp \/ ReadCHeader \/ EndResolve \/ Analyse \/ ReportCheck
  \/ Generate \/ EmitOnly \/ CompileC \/ EmitObject \/ Link \/ Clean
  \/ Returned

Spec == Init /\ [][Next]_vars /\ WF_vars(Next)

-----------------------------------------------------------------------------

WalkDone == phase = "resolve" /\ stack = <<>>

(* See Merged: at the end of the walk. *)
DeclarationsMerged == WalkDone => Merged

(* See ModulesAreIncludes: at the end of the walk. *)
LibrariesLinked == WalkDone => ModulesAreIncludes

(* main returns 0 only for a program without errors, writes nothing for    *)
(* one with errors, and a build returns 0 exactly if it says what it has   *)
(* written.  A program that it says it wrote is linked from the code just  *)
(* generated.  A listing or an object that it was asked for with           *)
(* -emit-llvm, -S or -c has been written too, but only if writing cannot   *)
(* fail: there the result is not looked at (main.cpp:377, 385, 394), and   *)
(* main says "wrote" and returns 0 although nothing may have been written. *)
BuildIsHonest ==
  /\ phase = "done" /\ status = 0 => errors = {} /\ missing = {}
  /\ errors # {} \/ missing # {} => \A f \in Made \ {"temp"} : made[f] # "new"
  /\ phase = "done" /\ mode # "check" => (status = 0 <=> wrote # {})
  /\ \A f \in wrote : made[f] = "new" \/ (EmitFails /\ f # "program")

(* A file that main leaves is an output that it has reported, in a run     *)
(* that succeeded: the file for clang and the object linked are gone       *)
(* wherever it returns.  Not so the objects of the C sources: when one of  *)
(* these does not compile, those before it stay (main.cpp:411).            *)
LeavesOnlyItsOutput ==
  phase = "done" =>
    /\ \A f \in Made : made[f] = "new" => status = 0 /\ f \in wrote
    /\ cobjs # 0 => status = 1 /\ cobjs < CFiles

(* Compilation ends, also when headers include each other. *)
Terminates == <>(phase = "done")
=============================================================================
