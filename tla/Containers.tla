----------------------------- MODULE Containers -----------------------------
(***************************************************************************)
(* What a List or a Map of stdlib/collections.lph promises: a list is a    *)
(* sequence indexed from 0, a map a function from keys to values, until it *)
(* is destroyed.  A call for an index or a key that is not there changes   *)
(* nothing.  Collections implements it.                                    *)
(***************************************************************************)
EXTENDS Integers, Sequences

CONSTANTS Keys, Values

VARIABLES
  sort,      (* "list" or "map"                                            *)
  content,   (* a sequence of values, or a function from some keys to them *)
  alive      (* whether it has been made and not destroyed                 *)

Nothing == <<>>

Has(i) == sort = "list" /\ alive /\ i \in 0..(Len(content) - 1)

HasKey(k) == sort = "map" /\ alive /\ k \in DOMAIN content

Make ==
  /\ ~alive /\ alive' = TRUE
  /\ content' = Nothing
  /\ UNCHANGED sort

Destroy ==
  /\ alive' = FALSE
  /\ content' = Nothing
  /\ UNCHANGED sort

Becomes(c) == content' = c /\ UNCHANGED <<sort, alive>>

Add(v) == sort = "list" /\ alive /\ Becomes(Append(content, v))

Set(i, v) == Has(i) /\ Becomes([content EXCEPT ![i + 1] = v])

RemoveAt(i) ==
  /\ Has(i)
  /\ Becomes(SubSeq(content, 1, i) \o SubSeq(content, i + 2, Len(content)))

Put(k, v) ==
  /\ sort = "map" /\ alive
  /\ Becomes([l \in DOMAIN content \cup {k} |-> IF l = k THEN v ELSE content[l]])

Remove(k) == HasKey(k) /\ Becomes([l \in DOMAIN content \ {k} |-> content[l]])

Init ==
  /\ sort \in {"list", "map"}
  /\ content = Nothing /\ alive = FALSE

Next ==
  \/ Make \/ Destroy
  \/ \E v \in Values :
       \/ Add(v)
       \/ sort = "list" /\ \E i \in 0..Len(content) : Set(i, v)
       \/ \E k \in Keys : Put(k, v)
  \/ sort = "list" /\ \E i \in -1..Len(content) : RemoveAt(i)
  \/ \E k \in Keys : Remove(k)

Spec == Init /\ [][Next]_<<sort, content, alive>>
=============================================================================
