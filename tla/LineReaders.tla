---------------------------- MODULE LineReaders ----------------------------
(***************************************************************************)
(* Reading files line by line (runtime/modules/lpl_files.c): a table of    *)
(* open files, searched by path, with a line buffer each that has the size *)
(* the file had when it was opened.  A reader that comes to the end of its *)
(* file is closed, and the last one of the table takes its place.          *)
(*                                                                         *)
(* malloc and fopen of an existing file succeed.  A FILE at its end stays  *)
(* there, as the C library has it.                                         *)
(***************************************************************************)
EXTENDS Integers, Sequences, SequencesExt, FiniteSets

CONSTANTS
  Paths,
  MaxReaders,  (* MAX_LINE_READERS                                         *)
  MaxSize,     (* characters of a file: bounds the model                   *)
  Grows        (* a file may be appended to while it is being read         *)

ASSUME LimitsAssumption == MaxReaders \in Nat \ {0} /\ MaxSize \in Nat /\ Grows \in BOOLEAN

VARIABLES
  files,    (* the characters of each file that exists                     *)
  readers,  (* _readers, up to _reader_count                               *)
  result,   (* what the latest call of readByLine returned                 *)
  written   (* whether a line was longer than the buffer it was put in     *)

vars == <<files, readers, result, written>>

Chars == {"x", "n"}

(* pos and eof are of the FILE; bufsz is the size of buf without the byte  *)
(* more that it has.                                                       *)
Reader == [path : Paths, pos : Nat, eof : BOOLEAN, bufsz : Nat]

TypeOK ==
  /\ DOMAIN files \subseteq Paths
  /\ \A p \in DOMAIN files : files[p] \in Seq(Chars)
  /\ readers \in Seq(Reader) /\ Len(readers) <= MaxReaders
  /\ result \in Seq({"x"})
  /\ written \in {"inside", "outside"}

Init ==
  /\ files = [p \in {} |-> <<>>]
  /\ readers = <<>>
  /\ result = <<>>
  /\ written = "inside"

-----------------------------------------------------------------------------

(* The reader of a path, as a set of at most one index; _find_reader takes *)
(* the first.                                                              *)
FindReader(p) ==
  {i \in 1..Len(readers) : /\ readers[i].path = p
                           /\ \A j \in 1..(i - 1) : readers[j].path # p}

(* Mutant of Opened: the size is asked for after the rewind. *)
OpenedRewound(p) == [path |-> p, pos |-> 0, eof |-> FALSE, bufsz |-> 0]

Opened(p) == [path |-> p, pos |-> 0, eof |-> FALSE, bufsz |-> Len(files[p])]

(* Mutant of CloseReader: the count goes down and nothing is moved. *)
CloseReaderInPlace(rs, i) == Front(rs)

(* _close_reader: the last reader takes the place of the one closed. *)
CloseReader(rs, i) == Front([rs EXCEPT ![i] = Last(rs)])

(* The characters up to the next newline or the end of the file. *)
Ahead(r) == IF r.eof THEN <<>> ELSE SubSeq(files[r.path], r.pos + 1, Len(files[r.path]))

LineLength(s) ==
  CHOOSE n \in 0..Len(s) : /\ \A k \in 1..n : s[k] = "x"
                           /\ n = Len(s) \/ s[n + 1] = "n"

(* The loop of fgetc and what follows it, on the reader i of the table rs. *)
ReadFrom(rs, i) ==
  LET s == Ahead(rs[i])
      n == LineLength(s)
      atEnd == n = Len(s)
  IN  /\ result' = SubSeq(s, 1, n)
      /\ written' = IF n > rs[i].bufsz + 1 THEN "outside" ELSE written
      /\ readers' = IF atEnd /\ n = 0
                    THEN CloseReader(rs, i)
                    ELSE [rs EXCEPT ![i].pos = @ + n + (IF atEnd THEN 0 ELSE 1),
                                    ![i].eof = atEnd]
      /\ UNCHANGED files

(* __lpl_files_read_by_line for a path that has a reader, ... *)
ReadByLineGoOn(p) == \E i \in FindReader(p) : ReadFrom(readers, i)

(* Mutant of ReadByLineOpen: one reader more than the table has. *)
ReadByLineOpenLate(p) ==
  /\ FindReader(p) = {}
  /\ Len(readers) <= MaxReaders
  /\ p \in DOMAIN files
  /\ ReadFrom(Append(readers, Opened(p)), Len(readers) + 1)

(* ... for one that has none and gets one, ... *)
ReadByLineOpen(p) ==
  /\ FindReader(p) = {}
  /\ Len(readers) < MaxReaders
  /\ p \in DOMAIN files
  /\ ReadFrom(Append(readers, Opened(p)), Len(readers) + 1)

(* ... and for one that cannot have one. *)
ReadByLineFail(p) ==
  /\ FindReader(p) = {}
  /\ Len(readers) >= MaxReaders \/ p \notin DOMAIN files
  /\ result' = <<>>
  /\ UNCHANGED <<files, readers, written>>

-----------------------------------------------------------------------------
(* The operations that change files.  The program leaves files alone that  *)
(* it is reading, but for appending if Grows.                              *)

Put(p, s) == files' = [q \in DOMAIN files \cup {p} |-> IF q = p THEN s ELSE files[q]]

WriteFile(p, s) ==
  /\ FindReader(p) = {}
  /\ Put(p, s)
  /\ UNCHANGED <<readers, result, written>>

AppendFile(p, c) ==
  /\ Grows \/ FindReader(p) = {}
  /\ p \in DOMAIN files => Len(files[p]) < MaxSize
  /\ Put(p, IF p \in DOMAIN files THEN Append(files[p], c) ELSE <<c>>)
  /\ UNCHANGED <<readers, result, written>>

RemoveFile(p) ==
  /\ FindReader(p) = {}
  /\ files' = [q \in DOMAIN files \ {p} |-> files[q]]
  /\ UNCHANGED <<readers, result, written>>

Next ==
  \E p \in Paths :
    \/ ReadByLineGoOn(p)
    \/ ReadByLineOpen(p)
    \/ ReadByLineFail(p)
    \/ \E s \in SeqOf(Chars, MaxSize) : WriteFile(p, s)
    \/ \E c \in Chars : AppendFile(p, c)
    \/ RemoveFile(p)

Spec == Init /\ [][Next]_vars

-----------------------------------------------------------------------------

(* A line is never longer than the buffer of its reader, also after the    *)
(* reader has moved in the table, as long as files do not grow             *)
(* (lpl_files.c:109).                                                      *)
LinesFit == written = "inside"

(* How far each path has been read, by the reader it has. *)
Place(p) ==
  IF FindReader(p) = {} THEN -1 ELSE readers[CHOOSE i \in FindReader(p) : TRUE].pos

Cursors == INSTANCE LineCursors WITH cursor <- [p \in Paths |-> Place(p)]

(* Searched by path, with readers that move when another one is closed and *)
(* a limit on their number, the table yields for every path its lines, one *)
(* after the other, from the first to the last, and turns a call down only *)
(* when MaxReaders files are really being read.                            *)
ImplementsCursors == Cursors!Spec
=============================================================================
