--------------------------- MODULE LineReadersProofs ---------------------------
(***************************************************************************)
(* Theorems about LineReaders, for any number of files of any length and   *)
(* a table of any size: the table is well formed, lines fit their buffers  *)
(* as long as files do not grow while they are being read, and the table   *)
(* implements LineCursors.                                                 *)
(*                                                                         *)
(* The inductive invariant says of the table that no file has two readers  *)
(* and every reader is at a place of a file that exists (TableOK), and of  *)
(* files that do not grow that buffers have their size (SizesOK).  Both    *)
(* are about a table that need not be the variable readers, because a call *)
(* may read from a table to which it has just added a reader.              *)
(***************************************************************************)
EXTENDS LineReaders, FiniteSetTheorems, SequenceTheorems, WellFoundedInduction, TLAPS

-----------------------------------------------------------------------------
(* The invariant. *)

Distinct(rs) == \A i, j \in 1..Len(rs) : rs[i].path = rs[j].path => i = j

Placed(r) == r.path \in DOMAIN files /\ r.pos <= Len(files[r.path])

TableOK(rs) ==
  /\ rs \in Seq(Reader)
  /\ Distinct(rs)
  /\ \A i \in 1..Len(rs) : Placed(rs[i])

Sized(r) == r.bufsz = Len(files[r.path]) /\ (r.eof => r.pos = Len(files[r.path]))

SizesOK(rs) == \A i \in 1..Len(rs) : Sized(rs[i])

IInv ==
  /\ TypeOK
  /\ TableOK(readers)
  /\ ~Grows => SizesOK(readers) /\ LinesFit

-----------------------------------------------------------------------------
(* The next newline. *)

LessThan == OpToRel(<, Nat)

LEMMA LessThanHolds == \A x, y \in Nat : x < y => <<x, y>> \in LessThan
  BY Zenon DEF OpToRel, LessThan

(* A set of natural numbers that is not empty has a least one. *)
LEMMA LeastNumber ==
  ASSUME NEW T \in SUBSET Nat, T # {}
  PROVE  \E x \in T : \A y \in T : x <= y
<1>1. IsWellFoundedOn(LessThan, Nat)
  BY NatLessThanWellFounded, Zenon DEF LessThan
<1>2. PICK x \in T : \A y \in T : ~(<<y, x>> \in LessThan)
  BY <1>1, WFMin, Zenon
<1>3. ASSUME NEW y \in T PROVE x <= y
  <2>1. ~(y < x)
    BY <1>2, LessThanHolds, Zenon
  <2> QED BY <2>1
<1> QED BY <1>3, Zenon

(* n characters of s come before its first newline, or its end. *)
LineOf(s, n) ==
  /\ n \in 0..Len(s)
  /\ \A k \in 1..n : s[k] = "x"
  /\ n = Len(s) \/ s[n + 1] = "n"

LEMMA LineExists == ASSUME NEW s \in Seq(Chars) PROVE \E n : LineOf(s, n)
<1> DEFINE T == {n \in Nat : n = Len(s) \/ (n < Len(s) /\ s[n + 1] = "n")}
<1>1. Len(s) \in T
  OBVIOUS
<1> HIDE DEF T
<1>2. T \in SUBSET Nat
  BY DEF T
<1>3. PICK n \in T : \A m \in T : n <= m
  BY <1>1, <1>2, LeastNumber
<1>4. n \in 0..Len(s) /\ (n = Len(s) \/ s[n + 1] = "n")
  BY <1>1, <1>3 DEF T
<1>5. ASSUME NEW k \in 1..n PROVE s[k] = "x"
  <2>1. k - 1 \notin T
    BY <1>3, <1>2
  <2>2. s[k] # "n"
    BY <1>4, <2>1 DEF T
  <2> QED BY <2>2, <1>4 DEF Chars
<1> QED BY <1>4, <1>5 DEF LineOf

(* There is only one such number. *)
LEMMA LineUnique ==
  ASSUME NEW s \in Seq(Chars), NEW n, LineOf(s, n), NEW m, LineOf(s, m)
  PROVE  n = m
<1>1. ASSUME NEW a, LineOf(s, a), NEW b, LineOf(s, b), a < b PROVE FALSE
  <2>1. s[a + 1] = "n" /\ a + 1 \in 1..b
    BY <1>1 DEF LineOf
  <2> QED BY <1>1, <2>1 DEF LineOf
<1>2. n \in Nat /\ m \in Nat
  BY DEF LineOf
<1> QED BY <1>1, <1>2

LEMMA LineLengthIs == ASSUME NEW s \in Seq(Chars) PROVE LineOf(s, LineLength(s))
<1>1. \E n \in 0..Len(s) : (\A k \in 1..n : s[k] = "x") /\ (n = Len(s) \/ s[n + 1] = "n")
  BY LineExists DEF LineOf
<1> QED BY <1>1 DEF LineOf, LineLength

-----------------------------------------------------------------------------
(* Tables. *)

(* Closing reader i: the last one takes its place. *)
LEMMA CloseFacts ==
  ASSUME NEW rs \in Seq(Reader), NEW i \in 1..Len(rs)
  PROVE  /\ CloseReader(rs, i) \in Seq(Reader)
         /\ Len(CloseReader(rs, i)) = Len(rs) - 1
         /\ \A k \in 1..(Len(rs) - 1) :
              CloseReader(rs, i)[k] = IF k = i THEN rs[Len(rs)] ELSE rs[k]
<1> DEFINE t == [rs EXCEPT ![i] = Last(rs)]
<1>1. t \in Seq(Reader) /\ Len(t) = Len(rs)
      /\ \A k \in 1..Len(rs) : t[k] = IF k = i THEN rs[Len(rs)] ELSE rs[k]
  BY DEF Last
<1> HIDE DEF t
<1>2. SubSeq(t, 1, Len(t) - 1) \in Seq(Reader) /\ Len(SubSeq(t, 1, Len(t) - 1)) = Len(t) - 1
      /\ \A k \in 1..(Len(t) - 1) : SubSeq(t, 1, Len(t) - 1)[k] = t[k]
  BY <1>1, SubSeqProperties
<1>3. CloseReader(rs, i) = SubSeq(t, 1, Len(t) - 1)
  BY DEF CloseReader, Front, t
<1> QED BY <1>1, <1>2, <1>3

(* Path q has a reader at place v. *)
ReadsAt(rs, q, v) == \E k \in 1..Len(rs) : rs[k].path = q /\ rs[k].pos = v

(* What is left of a table when a reader is closed. *)
LEMMA CloseTable ==
  ASSUME NEW rs, TableOK(rs), NEW i \in 1..Len(rs)
  PROVE  /\ TableOK(CloseReader(rs, i))
         /\ SizesOK(rs) => SizesOK(CloseReader(rs, i))
         /\ \A v : ~ReadsAt(CloseReader(rs, i), rs[i].path, v)
         /\ \A q, v : q # rs[i].path => (ReadsAt(CloseReader(rs, i), q, v) <=> ReadsAt(rs, q, v))
<1> DEFINE t == CloseReader(rs, i)
<1>1. /\ t \in Seq(Reader) /\ Len(t) = Len(rs) - 1
      /\ \A k \in 1..Len(t) : t[k] = IF k = i THEN rs[Len(rs)] ELSE rs[k]
      /\ Len(rs) \in Nat /\ rs \in Seq(Reader)
  BY CloseFacts DEF TableOK
<1> HIDE DEF t
<1>2. ASSUME NEW k \in 1..Len(t) PROVE \E j \in 1..Len(rs) : j # i /\ t[k] = rs[j]
  <2>1. CASE k = i
    <3>1. Len(rs) \in 1..Len(rs) /\ Len(rs) # i /\ t[k] = rs[Len(rs)]
      BY <1>1, <2>1
    <3> QED BY <3>1
  <2>2. CASE k # i
    <3>1. k \in 1..Len(rs) /\ t[k] = rs[k]
      BY <1>1, <2>2
    <3> QED BY <2>2, <3>1
  <2> QED BY <2>1, <2>2
<1>3. Distinct(t)
  <2> SUFFICES ASSUME NEW j \in 1..Len(t), NEW k \in 1..Len(t), t[j].path = t[k].path PROVE j = k
    BY DEF Distinct
  <2>1. j \in 1..Len(rs) /\ k \in 1..Len(rs) /\ Len(rs) \in 1..Len(rs) /\ j # Len(rs) /\ k # Len(rs)
    BY <1>1
  <2> QED BY <1>1, <2>1 DEF TableOK, Distinct
<1>4. ASSUME NEW q, NEW v, q # rs[i].path, ReadsAt(rs, q, v) PROVE ReadsAt(t, q, v)
  <2>1. PICK k \in 1..Len(rs) : rs[k].path = q /\ rs[k].pos = v
    BY <1>4 DEF ReadsAt
  <2>2. CASE k = Len(rs)
    BY <1>1, <1>4, <2>1, <2>2 DEF ReadsAt
  <2>3. CASE k # Len(rs)
    BY <1>1, <1>4, <2>1, <2>3 DEF ReadsAt
  <2> QED BY <2>2, <2>3
<1>5. ASSUME NEW q, NEW v, ReadsAt(t, q, v) PROVE ReadsAt(rs, q, v) /\ q # rs[i].path
  BY SMTT(40), <1>2, <1>5 DEF ReadsAt, TableOK, Distinct
<1>6. TableOK(t)
  BY <1>1, <1>2, <1>3 DEF TableOK
<1>7. SizesOK(rs) => SizesOK(t)
  BY <1>2 DEF SizesOK
<1> QED BY <1>4, <1>5, <1>6, <1>7 DEF t

(* A reader moves on to place v. *)
LEMMA MoveTable ==
  ASSUME NEW rs, TableOK(rs), NEW i \in 1..Len(rs), NEW r \in Reader, r.path = rs[i].path, Placed(r)
  PROVE  LET t == [rs EXCEPT ![i] = r]
         IN  /\ TableOK(t)
             /\ SizesOK(rs) /\ Sized(r) => SizesOK(t)
             /\ \A v : ReadsAt(t, rs[i].path, v) <=> v = r.pos
             /\ \A q, v : q # rs[i].path => (ReadsAt(t, q, v) <=> ReadsAt(rs, q, v))
<1> DEFINE t == [rs EXCEPT ![i] = r]
<1>1. /\ t \in Seq(Reader) /\ Len(t) = Len(rs)
      /\ \A k \in 1..Len(rs) : t[k] = IF k = i THEN r ELSE rs[k]
  BY DEF TableOK
<1> HIDE DEF t
<1>2. TableOK(t)
  BY <1>1 DEF TableOK, Distinct
<1>3. SizesOK(rs) /\ Sized(r) => SizesOK(t)
  BY <1>1 DEF SizesOK
<1>4. \A v : ReadsAt(t, rs[i].path, v) <=> v = r.pos
  BY <1>1 DEF ReadsAt, TableOK, Distinct
<1>5. \A q, v : q # rs[i].path => (ReadsAt(t, q, v) <=> ReadsAt(rs, q, v))
  BY <1>1 DEF ReadsAt
<1> QED BY <1>2, <1>3, <1>4, <1>5 DEF t

(* A reader is added for a file that has none. *)
LEMMA OpenTable ==
  ASSUME NEW rs, TableOK(rs), NEW p \in Paths, p \in DOMAIN files, files[p] \in Seq(Chars),
         \A k \in 1..Len(rs) : rs[k].path # p
  PROVE  LET t == Append(rs, Opened(p))
         IN  /\ TableOK(t) /\ Len(t) = Len(rs) + 1
             /\ t[Len(t)] = Opened(p)
             /\ SizesOK(rs) => SizesOK(t)
             /\ \A q, v : q # p => (ReadsAt(t, q, v) <=> ReadsAt(rs, q, v))
<1> DEFINE t == Append(rs, Opened(p))
<1>1. Opened(p) \in Reader /\ Placed(Opened(p)) /\ Sized(Opened(p)) /\ Opened(p).path = p
  BY DEF Opened, Reader, Placed, Sized
<1>2. /\ t \in Seq(Reader) /\ Len(t) = Len(rs) + 1
      /\ \A k \in 1..Len(t) : t[k] = IF k = Len(rs) + 1 THEN Opened(p) ELSE rs[k]
      /\ Len(rs) \in Nat
  BY <1>1 DEF TableOK
<1> HIDE DEF t
<1>3. TableOK(t)
  <2>1. \A k \in 1..Len(t) : Placed(t[k])
    BY <1>1, <1>2 DEF TableOK
  <2>2. Distinct(t)
    BY <1>1, <1>2 DEF TableOK, Distinct
  <2> QED BY <1>2, <2>1, <2>2 DEF TableOK
<1>4. SizesOK(rs) => SizesOK(t)
  BY <1>1, <1>2 DEF SizesOK
<1>5. \A q, v : q # p => (ReadsAt(t, q, v) <=> ReadsAt(rs, q, v))
  BY <1>1, <1>2 DEF ReadsAt
<1> QED BY <1>2, <1>3, <1>4, <1>5 DEF t

-----------------------------------------------------------------------------
(* One call that reads. *)

TextsOK == DOMAIN files \subseteq Paths /\ \A p \in DOMAIN files : files[p] \in Seq(Chars)

(* A text from its n-th character on. *)
LEMMA RestOfText ==
  ASSUME NEW s \in Seq(Chars), NEW n \in 0..Len(s)
  PROVE  LET rest == SubSeq(s, n + 1, Len(s))
         IN  /\ rest \in Seq(Chars) /\ Len(rest) = Len(s) - n
             /\ \A k \in 1..(Len(s) - n) : rest[k] = s[n + k]
<1>1. SubSeq(s, n + 1, Len(s)) = [k \in 1..(Len(s) - n) |-> s[n + k]]
  OBVIOUS
<1>2. \A k \in 1..(Len(s) - n) : s[n + k] \in Chars
  OBVIOUS
<1> QED BY <1>1, <1>2

LEMMA PartOfText ==
  ASSUME NEW s \in Seq(Chars), NEW a \in Nat, NEW n \in Nat, a + n <= Len(s)
  PROVE  SubSeq(s, a + 1, a + n) = [k \in 1..n |-> s[a + k]]
<1>1. SubSeq(s, a + 1, a + n) = [k \in 1..(a + n - (a + 1) + 1) |-> s[a + 1 + k - 1]]
  OBVIOUS
<1>2. a + n - (a + 1) + 1 = n /\ \A k \in 1..n : a + 1 + k - 1 = a + k
  OBVIOUS
<1> QED BY <1>1, <1>2

(* What is ahead of a reader: nothing at the end of its file. *)
LEMMA AheadFacts ==
  ASSUME TextsOK, NEW r \in Reader, Placed(r)
  PROVE  /\ Ahead(r) \in Seq(Chars)
         /\ Len(files[r.path]) \in Nat /\ files[r.path] \in Seq(Chars)
         /\ r.eof => Ahead(r) = <<>>
         /\ ~r.eof => /\ Len(Ahead(r)) = Len(files[r.path]) - r.pos
                      /\ \A k \in 1..Len(Ahead(r)) : Ahead(r)[k] = files[r.path][r.pos + k]
<1>1. r.pos \in Nat /\ r.eof \in BOOLEAN /\ files[r.path] \in Seq(Chars)
      /\ Len(files[r.path]) \in Nat /\ r.pos <= Len(files[r.path])
  BY DEF Reader, Placed, TextsOK
<1> DEFINE text == files[r.path]
<1>2. SubSeq(text, r.pos + 1, Len(text)) \in Seq(Chars)
      /\ Len(SubSeq(text, r.pos + 1, Len(text))) = Len(text) - r.pos
      /\ \A k \in 1..(Len(text) - r.pos) : SubSeq(text, r.pos + 1, Len(text))[k] = text[r.pos + k]
  <2>1. text \in Seq(Chars) /\ r.pos \in 0..Len(text)
    BY <1>1
  <2> HIDE DEF text
  <2> QED BY <2>1, RestOfText
<1> HIDE DEF text
<1> QED BY <1>1, <1>2 DEF Ahead, text

(* How far a call gets. *)
Length(r) == LineLength(Ahead(r))

AtEnd(r) == Length(r) = Len(Ahead(r))

(* The reader after a call that does not close it. *)
NewPos(r) == r.pos + Length(r) + (IF AtEnd(r) THEN 0 ELSE 1)

MovedOn(r) == [[r EXCEPT !.pos = NewPos(r)] EXCEPT !.eof = AtEnd(r)]

LEMMA MovedOnFields ==
  ASSUME NEW r \in Reader, NewPos(r) \in Nat
  PROVE  /\ MovedOn(r) \in Reader
         /\ MovedOn(r).path = r.path /\ MovedOn(r).bufsz = r.bufsz
         /\ MovedOn(r).pos = NewPos(r) /\ MovedOn(r).eof = AtEnd(r)
<1>1. AtEnd(r) \in BOOLEAN
  BY DEF AtEnd
<1> DEFINE n == NewPos(r)
           e == AtEnd(r)
<1>2. e \in BOOLEAN /\ n \in Nat /\ MovedOn(r) = [[r EXCEPT !.pos = n] EXCEPT !.eof = e]
  BY <1>1 DEF MovedOn
<1> HIDE DEF n, e
<1>3. [r EXCEPT !.pos = n] \in Reader
  BY <1>2 DEF Reader
<1>4. [[r EXCEPT !.pos = n] EXCEPT !.eof = e] \in Reader
  BY <1>2, <1>3 DEF Reader
<1>5. /\ [[r EXCEPT !.pos = n] EXCEPT !.eof = e].path = r.path
      /\ [[r EXCEPT !.pos = n] EXCEPT !.eof = e].bufsz = r.bufsz
      /\ [[r EXCEPT !.pos = n] EXCEPT !.eof = e].pos = n
      /\ [[r EXCEPT !.pos = n] EXCEPT !.eof = e].eof = e
  BY <1>2 DEF Reader
<1> QED BY <1>2, <1>4, <1>5 DEF n, e

LEMMA MovedOnFacts ==
  ASSUME TextsOK, NEW r \in Reader, Placed(r)
  PROVE  /\ LineOf(Ahead(r), Length(r))
         /\ Len(Ahead(r)) \in Nat /\ Length(r) \in Nat
         /\ MovedOn(r) \in Reader /\ Placed(MovedOn(r))
         /\ Sized(r) => Length(r) <= r.bufsz
         /\ Sized(r) /\ ~(AtEnd(r) /\ Length(r) = 0) => Sized(MovedOn(r))
<1>1. LineOf(Ahead(r), Length(r))
  BY AheadFacts, LineLengthIs DEF Length
<1>2. Len(Ahead(r)) \in Nat /\ Length(r) \in 0..Len(Ahead(r))
  BY <1>1, AheadFacts DEF LineOf
<1>3. r.pos \in Nat /\ r.bufsz \in Nat /\ r.eof \in BOOLEAN /\ r.path \in Paths
  BY DEF Reader
<1>4. CASE r.eof
  <2>1. Ahead(r) = <<>> /\ Length(r) = 0 /\ AtEnd(r)
    BY <1>2, <1>4, AheadFacts DEF AtEnd
  <2>2. NewPos(r) = r.pos
    BY <1>3, <2>1 DEF NewPos
  <2> QED BY <1>1, <1>2, <1>3, <2>1, <2>2, MovedOnFields DEF Placed, Sized
<1>5. CASE ~r.eof
  <2>1. r.pos + Len(Ahead(r)) = Len(files[r.path])
    BY <1>3, <1>5, AheadFacts
  <2>2. NewPos(r) \in Nat /\ NewPos(r) <= Len(files[r.path])
        /\ (AtEnd(r) => NewPos(r) = Len(files[r.path]))
    BY <1>2, <1>3, <2>1, AheadFacts DEF NewPos, AtEnd
  <2>3. MovedOn(r) \in Reader /\ Placed(MovedOn(r))
    BY <2>2, MovedOnFields DEF Placed
  <2>4. Sized(r) => Length(r) <= r.bufsz /\ Sized(MovedOn(r))
    BY <1>2, <1>3, <2>1, <2>2, MovedOnFields DEF Sized
  <2> QED BY <1>1, <1>2, <2>3, <2>4
<1> QED BY <1>4, <1>5

(* The two outcomes of a call on reader i of a table. *)
LEMMA ReadFromCases ==
  ASSUME TextsOK, NEW rs, TableOK(rs), NEW i \in 1..Len(rs), ReadFrom(rs, i)
  PROVE  /\ files' = files
         /\ result' = SubSeq(Ahead(rs[i]), 1, Length(rs[i]))
         /\ written' = IF Length(rs[i]) > rs[i].bufsz + 1 THEN "outside" ELSE written
         /\ IF AtEnd(rs[i]) /\ Length(rs[i]) = 0
            THEN readers' = CloseReader(rs, i)
            ELSE readers' = [rs EXCEPT ![i] = MovedOn(rs[i])]
<1>1. rs[i] \in Reader /\ Len(rs) \in Nat /\ rs \in Seq(Reader)
  BY DEF TableOK
<1>2. ASSUME ~(AtEnd(rs[i]) /\ Length(rs[i]) = 0) PROVE readers' = [rs EXCEPT ![i] = MovedOn(rs[i])]
  <2>1. readers' = [rs EXCEPT ![i].pos = @ + Length(rs[i]) + (IF AtEnd(rs[i]) THEN 0 ELSE 1),
                              ![i].eof = AtEnd(rs[i])]
    BY <1>2 DEF ReadFrom, Length, AtEnd
  <2> QED BY <1>1, <2>1 DEF MovedOn, NewPos
<1> QED BY <1>2 DEF ReadFrom, Length, AtEnd

-----------------------------------------------------------------------------
(* The invariant is inductive. *)

(* With one reader for each file, the first is the only one. *)
LEMMA FindReaderIs ==
  ASSUME TableOK(readers), NEW p
  PROVE  FindReader(p) = {i \in 1..Len(readers) : readers[i].path = p}
<1>1. ASSUME NEW i \in 1..Len(readers), readers[i].path = p, NEW j \in 1..(i - 1)
      PROVE  readers[j].path # p
  <2>1. j \in 1..Len(readers) /\ j # i
    BY <1>1 DEF TableOK
  <2> QED BY <1>1, <2>1 DEF TableOK, Distinct
<1> QED BY <1>1 DEF FindReader

(* A call that reads keeps the invariant, from a table that is no longer   *)
(* than it may be.                                                         *)
LEMMA ReadFromInv ==
  ASSUME IInv, NEW rs, TableOK(rs), Len(rs) <= MaxReaders, ~Grows => SizesOK(rs),
         NEW i \in 1..Len(rs), ReadFrom(rs, i)
  PROVE  IInv'
<1> DEFINE r == rs[i]
<1>1. TextsOK
  BY DEF IInv, TypeOK, TextsOK
<1>2. r \in Reader /\ Placed(r) /\ (~Grows => Sized(r)) /\ rs \in Seq(Reader) /\ Len(rs) \in Nat
  BY DEF TableOK, SizesOK
<1> HIDE DEF r
<1>3. /\ files' = files
      /\ result' = SubSeq(Ahead(r), 1, Length(r))
      /\ written' = IF Length(r) > r.bufsz + 1 THEN "outside" ELSE written
      /\ IF AtEnd(r) /\ Length(r) = 0
         THEN readers' = CloseReader(rs, i)
         ELSE readers' = [rs EXCEPT ![i] = MovedOn(r)]
  BY <1>1, ReadFromCases DEF r
<1>4. /\ LineOf(Ahead(r), Length(r)) /\ MovedOn(r) \in Reader /\ Placed(MovedOn(r))
      /\ Sized(r) => Length(r) <= r.bufsz
      /\ Sized(r) /\ ~(AtEnd(r) /\ Length(r) = 0) => Sized(MovedOn(r))
      /\ Length(r) \in Nat /\ NewPos(r) \in Nat
  <2>1. /\ LineOf(Ahead(r), Length(r)) /\ MovedOn(r) \in Reader /\ Placed(MovedOn(r))
        /\ Sized(r) => Length(r) <= r.bufsz
        /\ Sized(r) /\ ~(AtEnd(r) /\ Length(r) = 0) => Sized(MovedOn(r))
        /\ Length(r) \in Nat
    BY <1>1, <1>2, MovedOnFacts
  <2>2. NewPos(r) \in Nat
    BY SMTT(40), <1>2, <2>1 DEF NewPos, Reader
  <2> QED BY <2>1, <2>2
<1>5. result' \in Seq({"x"})
  <2>1. SubSeq(Ahead(r), 1, Length(r)) = [k \in 1..Length(r) |-> Ahead(r)[k]]
    BY <1>1, <1>2, <1>4, AheadFacts DEF LineOf
  <2>2. \A k \in 1..Length(r) : Ahead(r)[k] = "x"
    BY <1>4 DEF LineOf
  <2> HIDE DEF LineOf
  <2> QED BY <1>3, <1>4, <2>1, <2>2
<1>6. TableOK(readers') /\ Len(readers') <= MaxReaders /\ (~Grows => SizesOK(readers'))
  <2>1. CASE AtEnd(r) /\ Length(r) = 0
    <3>1. TableOK(CloseReader(rs, i)) /\ (SizesOK(rs) => SizesOK(CloseReader(rs, i)))
      BY CloseTable
    <3>2. Len(CloseReader(rs, i)) = Len(rs) - 1
      BY <1>2, CloseFacts
    <3> QED BY <1>2, <1>3, <2>1, <3>1, <3>2, LimitsAssumption
  <2>2. CASE ~(AtEnd(r) /\ Length(r) = 0)
    <3>1. MovedOn(r).path = rs[i].path
      BY <1>2, <1>4, MovedOnFields DEF r
    <3>2. LET t == [rs EXCEPT ![i] = MovedOn(r)]
          IN  TableOK(t) /\ (SizesOK(rs) /\ Sized(MovedOn(r)) => SizesOK(t))
      BY <1>4, <3>1, MoveTable
    <3>3. Len([rs EXCEPT ![i] = MovedOn(r)]) = Len(rs)
      BY <1>2
    <3> QED BY <1>2, <1>3, <1>4, <2>2, <3>2, <3>3
  <2> QED BY <2>1, <2>2
<1>7. TableOK(readers)' /\ (~Grows => SizesOK(readers)')
  BY <1>3, <1>6 DEF TableOK, SizesOK, Placed, Sized
<1>8. (written' = written \/ written' = "outside") /\ (~Grows => written' = written)
  <2>1. Length(r) \in Nat /\ r.bufsz \in Nat
    BY <1>2, <1>4 DEF Reader
  <2>2. ~Grows => ~(Length(r) > r.bufsz + 1)
    BY <1>2, <1>4, <2>1
  <2> QED BY <1>3, <2>2
<1>9. TypeOK'
  BY <1>3, <1>5, <1>6, <1>7, <1>8 DEF IInv, TypeOK, TableOK
<1> QED BY <1>7, <1>8, <1>9 DEF IInv, LinesFit

(* A change of the files that leaves those alone that are being read. *)
LEMMA ChangeInv ==
  ASSUME IInv, UNCHANGED <<readers, result, written>>, TextsOK',
         \A i \in 1..Len(readers) : /\ readers[i].path \in DOMAIN files'
                                    /\ files'[readers[i].path] = files[readers[i].path]
  PROVE  IInv'
<1>1. TableOK(readers)'
  BY DEF IInv, TableOK, Placed
<1>2. ~Grows => SizesOK(readers)'
  BY DEF IInv, SizesOK, Sized
<1>3. TypeOK'
  BY DEF IInv, TypeOK, TextsOK
<1> QED BY <1>1, <1>2, <1>3 DEF IInv, LinesFit

LEMMA NextInv == IInv /\ [Next]_vars => IInv'
<1> SUFFICES ASSUME IInv, [Next]_vars PROVE IInv'
  OBVIOUS
<1>1. TextsOK /\ TableOK(readers) /\ Len(readers) \in Nat /\ Len(readers) <= MaxReaders
  BY DEF IInv, TypeOK, TextsOK
<1>2. CASE UNCHANGED vars
  BY <1>2 DEF IInv, TypeOK, TableOK, Placed, SizesOK, Sized, LinesFit, vars
<1>3. ASSUME NEW p \in Paths, ReadByLineGoOn(p) PROVE IInv'
  <2>1. PICK i \in 1..Len(readers) : ReadFrom(readers, i)
    BY <1>3 DEF ReadByLineGoOn, FindReader
  <2> QED BY <1>1, <2>1, ReadFromInv DEF IInv
<1>4. ASSUME NEW p \in Paths, ReadByLineOpen(p) PROVE IInv'
  <2>1. \A k \in 1..Len(readers) : readers[k].path # p
    BY <1>1, <1>4, FindReaderIs DEF ReadByLineOpen
  <2>2. p \in DOMAIN files /\ files[p] \in Seq(Chars) /\ Len(readers) < MaxReaders
    BY <1>1, <1>4 DEF ReadByLineOpen, TextsOK
  <2> DEFINE rs == Append(readers, Opened(p))
  <2>3. TableOK(rs) /\ Len(rs) = Len(readers) + 1 /\ (SizesOK(readers) => SizesOK(rs))
    BY <1>1, <2>1, <2>2, OpenTable
  <2>4. ReadFrom(rs, Len(readers) + 1)
    BY <1>4 DEF ReadByLineOpen
  <2> HIDE DEF rs
  <2>5. Len(rs) <= MaxReaders /\ Len(readers) + 1 \in 1..Len(rs)
    BY <1>1, <2>2, <2>3, LimitsAssumption
  <2> QED BY <2>3, <2>4, <2>5, ReadFromInv DEF IInv
<1>5. ASSUME NEW p \in Paths, ReadByLineFail(p) PROVE IInv'
  BY <1>5 DEF ReadByLineFail, IInv, TypeOK, TableOK, Placed, SizesOK, Sized, LinesFit
<1>6. ASSUME NEW p \in Paths, NEW s \in SeqOf(Chars, MaxSize), WriteFile(p, s) PROVE IInv'
  <2>1. \A k \in 1..Len(readers) : readers[k].path # p
    BY <1>1, <1>6, FindReaderIs DEF WriteFile
  <2>2. s \in Seq(Chars)
    BY LimitsAssumption DEF SeqOf
  <2> QED BY <1>1, <1>6, <2>1, <2>2, ChangeInv DEF WriteFile, Put, TextsOK, TableOK, Placed
<1>7. ASSUME NEW p \in Paths, NEW c \in Chars, AppendFile(p, c) PROVE IInv'
  <2>1. ~Grows => \A k \in 1..Len(readers) : readers[k].path # p
    BY <1>1, <1>7, FindReaderIs DEF AppendFile
  <2>2. <<c>> \in Seq(Chars)
    OBVIOUS
  <2>3. p \in DOMAIN files => Append(files[p], c) \in Seq(Chars) /\ Len(Append(files[p], c)) = Len(files[p]) + 1
    BY <1>1 DEF TextsOK
  <2>4. TextsOK'
    BY <1>1, <1>7, <2>2, <2>3 DEF AppendFile, Put, TextsOK
  <2>5. CASE ~Grows
    BY <1>1, <1>7, <2>1, <2>4, <2>5, ChangeInv DEF AppendFile, Put, TableOK, Placed
  <2>6. CASE Grows
    <3>1. ASSUME NEW r \in Reader, Placed(r) PROVE Placed(r)'
      BY <1>1, <1>7, <2>3, <3>1 DEF Placed, AppendFile, Put, TextsOK, Reader
    <3>2. TableOK(readers)'
      BY <1>1, <1>7, <3>1 DEF TableOK, AppendFile
    <3>3. TypeOK'
      BY <1>7, <2>4 DEF IInv, TypeOK, TextsOK, AppendFile
    <3> QED BY <2>6, <3>2, <3>3 DEF IInv
  <2> QED BY <2>5, <2>6
<1>8. ASSUME NEW p \in Paths, RemoveFile(p) PROVE IInv'
  <2>1. \A k \in 1..Len(readers) : readers[k].path # p
    BY <1>1, <1>8, FindReaderIs DEF RemoveFile
  <2> QED BY <1>1, <1>8, <2>1, ChangeInv DEF RemoveFile, TextsOK, TableOK, Placed
<1> QED BY <1>2, <1>3, <1>4, <1>5, <1>6, <1>7, <1>8 DEF Next

LEMMA InitInv == Init => IInv
  BY LimitsAssumption DEF Init, IInv, TypeOK, TableOK, Distinct, SizesOK, LinesFit

(* The table of readers is well formed and never longer than it may be,    *)
(* for files of any length, also if they grow (lpl_files.c:60-125).        *)
THEOREM TypeCorrect == Spec => []TypeOK
<1>1. IInv => TypeOK
  BY DEF IInv
<1> QED BY <1>1, InitInv, NextInv, PTL DEF Spec

(* As long as files do not grow, no line is ever longer than the buffer it *)
(* is put in, for files of any length and whatever readers have been       *)
(* closed and moved in between (lpl_files.c:109).                          *)
THEOREM LinesFitBuffers == ~Grows => (Spec => []LinesFit)
<1> SUFFICES ASSUME ~Grows PROVE Spec => []LinesFit
  OBVIOUS
<1>1. IInv => LinesFit
  BY DEF IInv
<1> QED BY <1>1, InitInv, NextInv, PTL DEF Spec

-----------------------------------------------------------------------------
(* The table implements LineCursors. *)

(* The end of a line, counted from the start of the text. *)
LEMMA LineEndIs ==
  ASSUME NEW text \in Seq(Chars), NEW s \in 0..Len(text),
         NEW rest \in Seq(Chars), Len(rest) = Len(text) - s,
         \A k \in 1..Len(rest) : rest[k] = text[s + k],
         NEW n, LineOf(rest, n)
  PROVE  Cursors!LineEnd(text, s) = s + n
<1> DEFINE P(e) == (\A k \in (s + 1)..e : text[k] = "x") /\ (e = Len(text) \/ text[e + 1] = "n")
<1>1. n \in 0..Len(rest) /\ Len(text) \in Nat
  BY DEF LineOf
<1>2. s + n \in s..Len(text) /\ P(s + n)
  <2>1. ASSUME NEW k \in (s + 1)..(s + n) PROVE text[k] = "x"
    <3>1. k - s \in 1..n /\ k - s \in 1..Len(rest) /\ s + (k - s) = k
      BY <1>1
    <3> QED BY <3>1 DEF LineOf
  <2>2. s + n = Len(text) \/ text[s + n + 1] = "n"
    <3>1. CASE n = Len(rest)
      BY <1>1, <3>1
    <3>2. CASE n # Len(rest)
      <4>1. n + 1 \in 1..Len(rest) /\ rest[n + 1] = "n" /\ s + (n + 1) = s + n + 1
        BY <1>1, <3>2 DEF LineOf
      <4> QED BY <4>1
    <3> QED BY <3>1, <3>2
  <2> QED BY <1>1, <2>1, <2>2
<1>3. ASSUME NEW e \in s..Len(text), P(e) PROVE e = s + n
  <2>1. e - s \in 0..Len(rest)
    BY <1>1
  <2>2. ASSUME NEW k \in 1..(e - s) PROVE rest[k] = "x"
    <3>1. k \in 1..Len(rest) /\ s + k \in (s + 1)..e
      BY <2>1
    <3> QED BY <1>3, <3>1
  <2>3. e - s = Len(rest) \/ rest[(e - s) + 1] = "n"
    <3>1. CASE e = Len(text)
      BY <1>1, <3>1
    <3>2. CASE e # Len(text)
      <4>1. (e - s) + 1 \in 1..Len(rest) /\ s + ((e - s) + 1) = e + 1
        BY <1>1, <2>1, <3>2
      <4> QED BY <1>3, <3>2, <4>1
    <3> QED BY <3>1, <3>2
  <2>4. LineOf(rest, e - s)
    BY <2>1, <2>2, <2>3 DEF LineOf
  <2>5. e - s = n
    BY <2>4, LineUnique
  <2> QED BY <1>1, <2>5
<1>4. Cursors!LineEnd(text, s) = CHOOSE e \in s..Len(text) : P(e)
  BY DEF Cursors!LineEnd
<1> HIDE DEF P
<1> QED BY <1>2, <1>3, <1>4

(* Place is the place of the one reader a path has. *)
LEMMA PlaceIs ==
  ASSUME TableOK(readers), NEW p
  PROVE  /\ \A v : ReadsAt(readers, p, v) => Place(p) = v /\ v \in Nat
         /\ (\A v : ~ReadsAt(readers, p, v)) => Place(p) = -1
<1>1. ASSUME NEW v, ReadsAt(readers, p, v) PROVE Place(p) = v /\ v \in Nat
  <2>1. PICK k \in 1..Len(readers) : readers[k].path = p /\ readers[k].pos = v
    BY <1>1 DEF ReadsAt
  <2>2. FindReader(p) = {k}
    BY <2>1, FindReaderIs DEF TableOK, Distinct
  <2>3. readers[k] \in Reader
    BY DEF TableOK
  <2> QED BY <2>1, <2>2, <2>3 DEF Place, Reader
<1>2. ASSUME \A v : ~ReadsAt(readers, p, v) PROVE FindReader(p) = {}
  BY <1>2, FindReaderIs DEF ReadsAt
<1> QED BY <1>1, <1>2 DEF Place

LEMMA PlaceIsNext ==
  TableOK(readers)' =>
    \A p : /\ \A v : ReadsAt(readers', p, v) => Place(p)' = v /\ v \in Nat
           /\ (\A v : ~ReadsAt(readers', p, v)) => Place(p)' = -1
<1>1. TableOK(readers) =>
        \A p : /\ \A v : ReadsAt(readers, p, v) => Place(p) = v /\ v \in Nat
               /\ (\A v : ~ReadsAt(readers, p, v)) => Place(p) = -1
  BY PlaceIs
<1>2. (TableOK(readers) =>
        \A p : /\ \A v : ReadsAt(readers, p, v) => Place(p) = v /\ v \in Nat
               /\ (\A v : ~ReadsAt(readers, p, v)) => Place(p) = -1)'
  BY <1>1, PTL
<1> QED BY <1>2 DEF ReadsAt

(* Paths whose readers stay where they are stay where they are. *)
LEMMA PlaceStays ==
  ASSUME TableOK(readers), TableOK(readers)', NEW q,
         \A v : ReadsAt(readers', q, v) <=> ReadsAt(readers, q, v)
  PROVE  Place(q)' = Place(q)
<1>1. CASE \E v : ReadsAt(readers, q, v)
  <2>1. PICK v : ReadsAt(readers, q, v)
    BY <1>1
  <2>2. Place(q) = v
    BY <2>1, PlaceIs
  <2>3. Place(q)' = v
    BY <2>1, PlaceIsNext
  <2> QED BY <2>2, <2>3
<1>2. CASE \A v : ~ReadsAt(readers, q, v)
  BY <1>2, PlaceIs, PlaceIsNext
<1> QED BY <1>1, <1>2

(* There are as many files being read as there are readers. *)
LEMMA BeingReadIs ==
  ASSUME TableOK(readers)
  PROVE  /\ Cursors!BeingRead = {readers[i].path : i \in 1..Len(readers)}
         /\ Cardinality(Cursors!BeingRead) = Len(readers)
<1> DEFINE B == {readers[i].path : i \in 1..Len(readers)}
           f == [i \in 1..Len(readers) |-> readers[i].path]
<1>1. Len(readers) \in Nat /\ \A i \in 1..Len(readers) : readers[i] \in Reader
  BY DEF TableOK
<1>2. B \subseteq Paths
  BY <1>1 DEF Reader
<1>3. ASSUME NEW p \in Paths PROVE p \in B <=> Place(p) >= 0
  <2>1. CASE \E v : ReadsAt(readers, p, v)
    <3>1. PICK v : ReadsAt(readers, p, v)
      BY <2>1
    <3>2. Place(p) = v /\ v \in Nat
      BY <3>1, PlaceIs
    <3>3. p \in B
      BY <3>1 DEF ReadsAt
    <3> QED BY <3>2, <3>3
  <2>2. CASE \A v : ~ReadsAt(readers, p, v)
    <3>1. Place(p) = -1
      BY <2>2, PlaceIs
    <3>2. p \notin B
      BY <2>2 DEF ReadsAt
    <3> QED BY <3>1, <3>2
  <2> QED BY <2>1, <2>2
<1>4. Cursors!BeingRead = B
  BY <1>2, <1>3 DEF Cursors!BeingRead
<1>5. f \in Bijection(1..Len(readers), B)
  <2>1. f \in [1..Len(readers) -> B]
    OBVIOUS
  <2>2. \A j, k \in 1..Len(readers) : f[j] = f[k] => j = k
    BY DEF TableOK, Distinct
  <2>3. \A b \in B : \E k \in 1..Len(readers) : f[k] = b
    OBVIOUS
  <2>4. DOMAIN f = 1..Len(readers)
    OBVIOUS
  <2> HIDE DEF f, B
  <2> QED BY <2>1, <2>2, <2>3, <2>4 DEF Bijection, Injection, Surjection, IsInjective
<1>6. Cardinality(B) = Len(readers)
  BY <1>1, <1>5, FS_CountingElements DEF ExistsBijection
<1> QED BY <1>4, <1>6

(* The instance has a Cardinality of its own. *)
LEMMA CursorsCardinality == ASSUME NEW S PROVE Cursors!Cardinality(S) = Cardinality(S)
  BY DEF Cardinality, Cursors!Cardinality

(* A call on reader i of a table that holds what the table of the state    *)
(* holds, and perhaps a reader more for the path of the call.              *)
LEMMA ReadFromImplements ==
  ASSUME IInv, IInv', ~Grows, NEW rs, TableOK(rs), SizesOK(rs), NEW i \in 1..Len(rs), ReadFrom(rs, i),
         NEW p, p = rs[i].path, \A q, v : q # p => (ReadsAt(rs, q, v) <=> ReadsAt(readers, q, v)),
         Cursors!Start(p) = rs[i].pos,
         p \in Cursors!BeingRead \/ Cardinality(Cursors!BeingRead) < MaxReaders
  PROVE  Cursors!ReadLine(p) \/ Cursors!ReadEnd(p)
<1> DEFINE r == rs[i]
<1>1. TextsOK /\ TableOK(readers) /\ TableOK(readers)'
  BY DEF IInv, TypeOK, TextsOK
<1>2. r \in Reader /\ Placed(r) /\ Sized(r) /\ rs \in Seq(Reader) /\ Len(rs) \in Nat
  BY DEF TableOK, SizesOK
<1>3. r.path = p /\ p \in Paths /\ p \in DOMAIN files /\ Cursors!Start(p) = r.pos
  BY <1>2 DEF Reader, Placed
<1>4. /\ files' = files
      /\ result' = SubSeq(Ahead(r), 1, Length(r))
      /\ IF AtEnd(r) /\ Length(r) = 0
         THEN readers' = CloseReader(rs, i)
         ELSE readers' = [rs EXCEPT ![i] = MovedOn(r)]
  BY <1>1, ReadFromCases
<1>5. ASSUME NEW q, q # p, \A v : ReadsAt(readers', q, v) <=> ReadsAt(rs, q, v)
      PROVE  Place(q)' = Place(q)
  BY <1>1, <1>5, PlaceStays
<1>10. \A t \in Reader : t.path = p /\ Placed(t) =>
         /\ \A v : ReadsAt([rs EXCEPT ![i] = t], p, v) <=> v = t.pos
         /\ \A q, v : q # p => (ReadsAt([rs EXCEPT ![i] = t], q, v) <=> ReadsAt(rs, q, v))
  BY MoveTable
<1>11. /\ \A v : ~ReadsAt(CloseReader(rs, i), p, v)
       /\ \A q, v : q # p => (ReadsAt(CloseReader(rs, i), q, v) <=> ReadsAt(rs, q, v))
  BY CloseTable
<1> DEFINE cursor == [q \in Paths |-> Place(q)]
<1>12. ASSUME NEW v, Place(p)' = v, \A q : q # p => Place(q)' = Place(q)
       PROVE  [q \in Paths |-> Place(q)'] = [cursor EXCEPT ![p] = v]
  BY <1>12
<1> HIDE DEF r
<1>6. r.pos \in Nat /\ Len(files[p]) \in Nat /\ r.pos <= Len(files[p]) /\ files[p] \in Seq(Chars)
  BY <1>1, <1>2, <1>3 DEF Reader, Placed, TextsOK
<1>7. LineOf(Ahead(r), Length(r)) /\ Len(Ahead(r)) \in Nat /\ Length(r) \in 0..Len(Ahead(r))
  BY <1>1, <1>2, MovedOnFacts DEF LineOf
<1>8. CASE AtEnd(r) /\ Length(r) = 0
  <2>1. Ahead(r) = <<>>
    <3>1. Ahead(r) \in Seq(Chars) /\ Len(Ahead(r)) = 0
      BY <1>1, <1>2, <1>8, AheadFacts DEF AtEnd
    <3> QED BY <3>1
  <2>2. r.pos = Len(files[p])
    BY <1>1, <1>2, <1>3, <1>6, <2>1, AheadFacts DEF Sized
  <2>3. result' = <<>>
    BY <1>4, <1>8, <2>1
  <2>4. \A v : ~ReadsAt(readers', p, v)
    BY <1>4, <1>8, <1>11
  <2>5. Place(p)' = -1
    BY <1>1, <2>4, PlaceIsNext
  <2>6. \A q : q # p => Place(q)' = Place(q)
    BY <1>4, <1>5, <1>8, <1>11
  <2>7. [q \in Paths |-> Place(q)'] = [cursor EXCEPT ![p] = -1]
    BY <1>12, <2>5, <2>6
  <2>8. Cursors!ReadEnd(p)
    BY <1>3, <1>4, <2>2, <2>3, <2>7, CursorsCardinality DEF Cursors!ReadEnd, cursor
  <2> QED BY <2>8
<1>9. CASE ~(AtEnd(r) /\ Length(r) = 0)
  <2>1. ~r.eof
    BY <1>1, <1>2, <1>7, <1>9, AheadFacts DEF AtEnd
  <2>2. /\ Ahead(r) \in Seq(Chars) /\ Len(Ahead(r)) = Len(files[p]) - r.pos
        /\ \A k \in 1..Len(Ahead(r)) : Ahead(r)[k] = files[p][r.pos + k]
    BY <1>1, <1>2, <1>3, <2>1, AheadFacts
  <2>3. Cursors!LineEnd(files[p], r.pos) = r.pos + Length(r)
    <3> DEFINE text == files[p]
               rest == Ahead(r)
               n == Length(r)
               a == r.pos
    <3>1. /\ text \in Seq(Chars) /\ a \in 0..Len(text) /\ rest \in Seq(Chars)
          /\ Len(rest) = Len(text) - a
          /\ \A k \in 1..Len(rest) : rest[k] = text[a + k]
          /\ LineOf(rest, n)
      BY <1>6, <1>7, <2>2
    <3> HIDE DEF text, rest, n, a
    <3>2. Cursors!LineEnd(text, a) = a + n
      BY SMTT(40), <3>1, LineEndIs
    <3> QED BY <3>2 DEF text, n, a
  <2>4. r.pos < Len(files[p])
    BY <1>6, <1>7, <1>9, <2>2 DEF AtEnd
  <2>5. result' = Cursors!Line(files[p], r.pos)
    <3>1. SubSeq(Ahead(r), 1, Length(r)) = [k \in 1..Length(r) |-> Ahead(r)[k]]
      BY <1>7, <2>2
    <3>2. SubSeq(files[p], r.pos + 1, r.pos + Length(r)) = [k \in 1..Length(r) |-> files[p][r.pos + k]]
      <4> DEFINE text == files[p]
                 n == Length(r)
                 a == r.pos
      <4>1. text \in Seq(Chars) /\ a \in Nat /\ n \in Nat /\ a + n <= Len(text)
        BY <1>6, <1>7, <2>2
      <4> HIDE DEF text, n, a
      <4>2. SubSeq(text, a + 1, a + n) = [k \in 1..n |-> text[a + k]]
        BY <4>1, PartOfText
      <4> QED BY <4>2 DEF text, n, a
    <3>3. \A k \in 1..Length(r) : Ahead(r)[k] = files[p][r.pos + k]
      BY <1>7, <2>2
    <3>4. SubSeq(Ahead(r), 1, Length(r)) = SubSeq(files[p], r.pos + 1, r.pos + Length(r))
      BY <3>1, <3>2, <3>3
    <3> QED BY <1>4, <2>3, <3>4 DEF Cursors!Line
  <2>6. NewPos(r) = IF r.pos + Length(r) = Len(files[p]) THEN r.pos + Length(r) ELSE r.pos + Length(r) + 1
    BY <1>6, <1>7, <2>2 DEF NewPos, AtEnd
  <2>7. NewPos(r) \in Nat
    BY <1>6, <1>7, <2>6
  <2>8. MovedOn(r) \in Reader /\ Placed(MovedOn(r)) /\ MovedOn(r).path = p /\ MovedOn(r).pos = NewPos(r)
    BY <1>1, <1>2, <1>3, <2>7, MovedOnFacts, MovedOnFields
  <2>9. readers' = [rs EXCEPT ![i] = MovedOn(r)]
    BY <1>4, <1>9
  <2>10. /\ \A v : ReadsAt(readers', p, v) <=> v = NewPos(r)
         /\ \A q, v : q # p => (ReadsAt(readers', q, v) <=> ReadsAt(rs, q, v))
    BY <1>10, <2>8, <2>9
  <2>11. Place(p)' = NewPos(r)
    <3>1. ReadsAt(readers', p, NewPos(r))
      BY <2>10
    <3> QED BY <1>1, <3>1, PlaceIsNext
  <2>12. \A q : q # p => Place(q)' = Place(q)
    BY <1>5, <2>10
  <2>13. [q \in Paths |-> Place(q)'] = [cursor EXCEPT ![p] = NewPos(r)]
    BY <1>12, <2>11, <2>12
  <2>14. [q \in Paths |-> Place(q)'] =
           [cursor EXCEPT ![p] = LET e == Cursors!LineEnd(files[p], Cursors!Start(p))
                                 IN  IF e = Len(files[p]) THEN e ELSE e + 1]
    BY <1>3, <2>3, <2>6, <2>13
  <2>15. Cursors!ReadLine(p)
    BY <1>3, <1>4, <2>4, <2>5, <2>14, CursorsCardinality DEF Cursors!ReadLine, cursor
  <2> QED BY <2>15
<1> QED BY <1>8, <1>9

(* A reader of a path is where Start has it. *)
LEMMA StartIs ==
  ASSUME IInv, NEW p \in Paths
  PROVE  /\ \A k \in 1..Len(readers) : readers[k].path = p =>
              p \in Cursors!BeingRead /\ Cursors!Start(p) = readers[k].pos
         /\ (\A k \in 1..Len(readers) : readers[k].path # p) =>
              p \notin Cursors!BeingRead /\ Cursors!Start(p) = 0
<1>1. TableOK(readers)
  BY DEF IInv
<1>2. ASSUME NEW k \in 1..Len(readers), readers[k].path = p
      PROVE  p \in Cursors!BeingRead /\ Cursors!Start(p) = readers[k].pos
  <2>1. ReadsAt(readers, p, readers[k].pos)
    BY <1>2 DEF ReadsAt
  <2>2. Place(p) = readers[k].pos /\ readers[k].pos \in Nat
    BY <1>1, <2>1, PlaceIs
  <2> QED BY <2>2 DEF Cursors!BeingRead, Cursors!Start
<1>3. ASSUME \A k \in 1..Len(readers) : readers[k].path # p
      PROVE  p \notin Cursors!BeingRead /\ Cursors!Start(p) = 0
  <2>1. Place(p) = -1
    BY <1>1, <1>3, PlaceIs DEF ReadsAt
  <2> QED BY <2>1 DEF Cursors!BeingRead, Cursors!Start
<1> QED BY <1>2, <1>3

(* The files that change are not being read. *)
LEMMA ChangeImplements ==
  ASSUME IInv, IInv', NEW p \in Paths, \A k \in 1..Len(readers) : readers[k].path # p,
         UNCHANGED <<readers, result, written>>,
         \A q \in Paths \ {p} : q \in DOMAIN files <=> q \in DOMAIN files',
         \A q \in DOMAIN files \ {p} : files'[q] = files[q]
  PROVE  Cursors!Change(p)
<1>1. \A q : Place(q)' = Place(q)
  BY PlaceStays DEF IInv
<1> QED BY <1>1, StartIs DEF Cursors!Change

(* Every step of the table is one of the cursors. *)
LEMMA NextImplements ==
  ~Grows /\ IInv /\ IInv' /\ [Next]_vars =>
    [Cursors!Next]_<<files, [p \in Paths |-> Place(p)], result>>
<1> SUFFICES ASSUME ~Grows, IInv, IInv', [Next]_vars
             PROVE  [Cursors!Next]_<<files, [p \in Paths |-> Place(p)], result>>
  OBVIOUS
<1>1. /\ TextsOK /\ TableOK(readers) /\ TableOK(readers)' /\ SizesOK(readers)
      /\ Len(readers) \in Nat /\ Len(readers) <= MaxReaders
  BY DEF IInv, TypeOK, TextsOK
<1>2. CASE UNCHANGED vars
  <2>1. \A q : Place(q)' = Place(q)
    BY <1>1, <1>2, PlaceStays DEF vars
  <2> QED BY <1>2, <2>1 DEF vars
<1>3. ASSUME NEW p \in Paths, ReadByLineGoOn(p) PROVE Cursors!Next
  <2>1. PICK i \in 1..Len(readers) : readers[i].path = p /\ ReadFrom(readers, i)
    BY <1>3 DEF ReadByLineGoOn, FindReader
  <2>2. p \in Cursors!BeingRead /\ Cursors!Start(p) = readers[i].pos
    BY <2>1, StartIs
  <2>3. Cursors!ReadLine(p) \/ Cursors!ReadEnd(p)
    BY <1>1, <2>1, <2>2, ReadFromImplements
  <2> QED BY <2>3 DEF Cursors!Next
<1>4. ASSUME NEW p \in Paths, ReadByLineOpen(p) PROVE Cursors!Next
  <2>1. \A k \in 1..Len(readers) : readers[k].path # p
    BY <1>1, <1>4, FindReaderIs DEF ReadByLineOpen
  <2>2. p \in DOMAIN files /\ files[p] \in Seq(Chars) /\ Len(readers) < MaxReaders
    BY <1>1, <1>4 DEF ReadByLineOpen, TextsOK
  <2> DEFINE rs == Append(readers, Opened(p))
             i == Len(readers) + 1
  <2>3. /\ TableOK(rs) /\ Len(rs) = Len(readers) + 1 /\ SizesOK(rs) /\ rs[Len(rs)] = Opened(p)
        /\ \A q, v : q # p => (ReadsAt(rs, q, v) <=> ReadsAt(readers, q, v))
    BY <1>1, <2>1, <2>2, OpenTable
  <2>4. ReadFrom(rs, i)
    BY <1>4 DEF ReadByLineOpen
  <2> HIDE DEF rs
  <2>5. i \in 1..Len(rs) /\ rs[i].path = p /\ rs[i].pos = 0
    BY <1>1, <2>3 DEF Opened
  <2>6. Cursors!Start(p) = 0 /\ Cardinality(Cursors!BeingRead) < MaxReaders
    BY <1>1, <2>1, <2>2, StartIs, BeingReadIs
  <2> HIDE DEF i
  <2>7. Cursors!ReadLine(p) \/ Cursors!ReadEnd(p)
    BY <2>3, <2>4, <2>5, <2>6, ReadFromImplements
  <2> QED BY <2>7 DEF Cursors!Next
<1>5. ASSUME NEW p \in Paths, ReadByLineFail(p) PROVE Cursors!Next
  <2>1. \A k \in 1..Len(readers) : readers[k].path # p
    BY <1>1, <1>5, FindReaderIs DEF ReadByLineFail
  <2>2. p \notin Cursors!BeingRead
    BY <2>1, StartIs
  <2>3. Len(readers) >= MaxReaders => Cursors!Cardinality(Cursors!BeingRead) >= MaxReaders
    BY <1>1, BeingReadIs, CursorsCardinality
  <2>4. \A q : Place(q)' = Place(q)
    BY <1>1, <1>5, PlaceStays DEF ReadByLineFail
  <2>5. Cursors!ReadNothing(p)
    BY <1>5, <2>2, <2>3, <2>4 DEF ReadByLineFail, Cursors!ReadNothing
  <2> QED BY <2>5 DEF Cursors!Next
<1>6. ASSUME NEW p \in Paths, NEW s \in SeqOf(Chars, MaxSize), WriteFile(p, s) PROVE Cursors!Next
  <2>1. \A k \in 1..Len(readers) : readers[k].path # p
    BY <1>1, <1>6, FindReaderIs DEF WriteFile
  <2>2. Cursors!Change(p)
    BY <1>6, <2>1, ChangeImplements DEF WriteFile, Put
  <2> QED BY <2>2 DEF Cursors!Next
<1>7. ASSUME NEW p \in Paths, NEW c \in Chars, AppendFile(p, c) PROVE Cursors!Next
  <2>1. \A k \in 1..Len(readers) : readers[k].path # p
    BY <1>1, <1>7, FindReaderIs DEF AppendFile
  <2>2. Cursors!Change(p)
    BY <1>7, <2>1, ChangeImplements DEF AppendFile, Put
  <2> QED BY <2>2 DEF Cursors!Next
<1>8. ASSUME NEW p \in Paths, RemoveFile(p) PROVE Cursors!Next
  <2>1. \A k \in 1..Len(readers) : readers[k].path # p
    BY <1>1, <1>8, FindReaderIs DEF RemoveFile
  <2>2. Cursors!Change(p)
    BY <1>8, <2>1, ChangeImplements DEF RemoveFile
  <2> QED BY <2>2 DEF Cursors!Next
<1> QED BY <1>2, <1>3, <1>4, <1>5, <1>6, <1>7, <1>8 DEF Next

LEMMA InitImplements == Init => Cursors!Init
<1> SUFFICES ASSUME Init PROVE Cursors!Init
  OBVIOUS
<1>1. \A p : FindReader(p) = {}
  BY DEF Init, FindReader
<1> QED BY <1>1 DEF Init, Cursors!Init, Place

(* For files of any length and a table of any size, the table yields for   *)
(* every path its lines, one after the other, and turns a call down only   *)
(* when the table is full of files that are being read, if files do not    *)
(* grow while they are being read (lpl_files.c:60-125).                    *)
THEOREM ReadersAreCursors == ~Grows => (Spec => ImplementsCursors)
<1> SUFFICES ASSUME ~Grows PROVE Spec => ImplementsCursors
  OBVIOUS
<1>1. IInv /\ IInv' /\ [Next]_vars => [Cursors!Next]_<<files, [p \in Paths |-> Place(p)], result>>
  BY NextImplements
<1>2. ImplementsCursors <=>
        Cursors!Init /\ [][Cursors!Next]_<<files, [p \in Paths |-> Place(p)], result>>
  BY DEF ImplementsCursors, Cursors!Spec
<1> QED BY <1>1, <1>2, InitInv, NextInv, InitImplements, PTL DEF Spec
=============================================================================
