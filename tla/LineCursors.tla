---------------------------- MODULE LineCursors ----------------------------
(***************************************************************************)
(* What File.readByLine promises (stdlib/files.lpl): each file has a place *)
(* up to which it has been read; each call yields the line there and moves *)
(* the place past it; at the end a call yields the empty string, and the   *)
(* next one begins the file again.  At most MaxReaders files are read at a *)
(* time: a call that would begin one more yields the empty string.         *)
(* LineReaders implements it with a table.                                 *)
(***************************************************************************)
EXTENDS Integers, Sequences, FiniteSets

CONSTANTS Paths, MaxReaders

VARIABLES
  files,    (* the characters of each file that exists: "x", or "n" for    *)
            (* the end of a line                                            *)
  cursor,   (* characters read of each file, -1 of a file not being read   *)
  result    (* what the latest call returned                               *)

Chars == {"x", "n"}

BeingRead == {p \in Paths : cursor[p] >= 0}

Start(p) == IF cursor[p] >= 0 THEN cursor[p] ELSE 0

(* The last character of the line that begins after s characters, or the   *)
(* end of the text.                                                        *)
LineEnd(text, s) ==
  CHOOSE e \in s..Len(text) :
    /\ \A k \in (s + 1)..e : text[k] = "x"
    /\ e = Len(text) \/ text[e + 1] = "n"

Line(text, s) == SubSeq(text, s + 1, LineEnd(text, s))

(* A call yields the next line, and the newline is read with it. *)
ReadLine(p) ==
  /\ p \in DOMAIN files
  /\ p \in BeingRead \/ Cardinality(BeingRead) < MaxReaders
  /\ Start(p) < Len(files[p])
  /\ LET e == LineEnd(files[p], Start(p))
     IN  /\ result' = Line(files[p], Start(p))
         /\ cursor' = [cursor EXCEPT ![p] = IF e = Len(files[p]) THEN e ELSE e + 1]
  /\ UNCHANGED files

(* A call at the end of the file. *)
ReadEnd(p) ==
  /\ p \in DOMAIN files
  /\ p \in BeingRead \/ Cardinality(BeingRead) < MaxReaders
  /\ Start(p) = Len(files[p])
  /\ result' = <<>>
  /\ cursor' = [cursor EXCEPT ![p] = -1]
  /\ UNCHANGED files

(* A call for a file that does not exist, or for one file too many. *)
ReadNothing(p) ==
  /\ p \notin BeingRead
  /\ p \notin DOMAIN files \/ Cardinality(BeingRead) >= MaxReaders
  /\ result' = <<>>
  /\ UNCHANGED <<files, cursor>>

(* A file changes that is not being read. *)
Change(p) ==
  /\ p \notin BeingRead
  /\ \A q \in Paths \ {p} : q \in DOMAIN files <=> q \in DOMAIN files'
  /\ \A q \in DOMAIN files \ {p} : files'[q] = files[q]
  /\ UNCHANGED <<cursor, result>>

Init ==
  /\ files = [p \in {} |-> <<>>]
  /\ cursor = [p \in Paths |-> -1]
  /\ result = <<>>

Next == \E p \in Paths : ReadLine(p) \/ ReadEnd(p) \/ ReadNothing(p) \/ Change(p)

Spec == Init /\ [][Next]_<<files, cursor, result>>
=============================================================================
