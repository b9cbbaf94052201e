------------------------------- MODULE Codec -------------------------------
(***************************************************************************)
(* Fields of a client's struct and points (data/encode.go, decode.go):     *)
(* Decode writes points into a field, Encode makes points of it,           *)
(* DiffPoints those that lead from one struct to another.                  *)
(*                                                                         *)
(* A point of the field has a key, a value and a tombstone (odd or not).   *)
(* Keys are numbers: an index or a field of a struct; 0 is also the blank  *)
(* key, which only scalars are sent with.  A field is of one of these      *)
(* kinds:                                                                  *)
(*   scalar  one value;                                                    *)
(*   slice   n elements in a memory mem that may be longer (capacity);     *)
(*   struct  a pointer to a struct with the Fields, nil if n = 0.          *)
(* Value 0 is the zero value of the field's type.                          *)
(***************************************************************************)
EXTENDS Integers, Sequences, FiniteSets, SequencesExt

CONSTANT Fields   \* of the struct behind a pointer

ASSUME FieldsAssumption == Fields # {} /\ Fields \subseteq Nat

Pt(key, val, tomb) == [key |-> key, val |-> val, tomb |-> tomb]

Contents(n, mem) == [n |-> n, mem |-> mem]

ZeroOf(kind) ==
    IF kind = "scalar" THEN Contents(1, [i \in {0} |-> 0])
                       ELSE Contents(0, [i \in {} |-> 0])

-----------------------------------------------------------------------------
(* Decode of a group of points into a field *)

\* setVal
Val(p) == IF p.tomb THEN 0 ELSE p.val

Keys(ps) == {ps[i].key : i \in DOMAIN ps}

\* The last point for a key counts.
LastPt(ps, key) ==
    ps[CHOOSE i \in DOMAIN ps :
          ps[i].key = key /\ \A j \in DOMAIN ps : j > i => ps[j].key # key]

\* KeyMaxInt: deleted points do not make a slice longer.
KeyMaxInt(ps) ==
    LET live == {ps[i].key : i \in {j \in DOMAIN ps : ~ps[j].tomb}}
    IN  IF live = {} THEN -1 ELSE CHOOSE k \in live : \A l \in live : l <= k

\* A longer slice uses the memory that is there, with what it holds, if that is enough.
Expanded(v, max) ==
    IF max < v.n THEN v
    ELSE IF 0 .. max \subseteq DOMAIN v.mem THEN [v EXCEPT !.n = max + 1]
    ELSE Contents(max + 1, [i \in 0 .. max |-> IF i < v.n THEN v.mem[i] ELSE 0])

\* Elements are set one after the other; deleted ones that are not there are skipped.
SetElements(v, ps) ==
    FoldLeft(LAMBDA w, p : IF p.tomb /\ p.key >= w.n THEN w
                           ELSE [w EXCEPT !.mem[p.key] = Val(p)],
             v, ps)

\* The slice loses the elements at its end that this group deletes; they stay in memory.
Trimmed(v, ps) ==
    LET deleted == {ps[i].key : i \in {j \in DOMAIN ps : ps[j].tomb}}
        ends == {m \in 0 .. v.n : m .. v.n - 1 \subseteq deleted}
    IN  [v EXCEPT !.n = CHOOSE m \in ends : \A l \in ends : m <= l]

SetSlice(v, ps) == Trimmed(SetElements(Expanded(v, KeyMaxInt(ps)), ps), ps)

\* The pointer becomes nil when each field is deleted by this group.
SetStruct(v, ps) ==
    LET old == IF v.n = 0 THEN [f \in Fields |-> 0] ELSE v.mem
    IN  IF \A f \in Fields : f \in Keys(ps) /\ LastPt(ps, f).tomb THEN ZeroOf("struct")
        ELSE Contents(1, [f \in Fields |-> IF f \in Keys(ps) THEN Val(LastPt(ps, f))
                                           ELSE old[f]])

SetScalar(v, ps) == [v EXCEPT !.mem[0] = Val(Last(ps))]

\* GroupedPoints.SetValue
SetValue(kind, v, ps) ==
    CASE kind = "scalar" -> SetScalar(v, ps)
      [] kind = "slice" -> SetSlice(v, ps)
      [] kind = "struct" -> SetStruct(v, ps)

\* Decode for one field: without points the field stays as it is.
Decode(kind, v, ps) == IF ps = <<>> THEN v ELSE SetValue(kind, v, ps)

-----------------------------------------------------------------------------
(* Encode and DiffPoints *)

\* The elements of the field; what memory holds beyond them is not seen.
Elems(kind, v) == IF kind = "slice" THEN 0 .. v.n - 1 ELSE DOMAIN v.mem

InOrder(keys) == SetToSortSeq(keys, LAMBDA a, b : a < b)
Backwards(keys) == Reverse(InOrder(keys))

Live(v, keys) == [i \in DOMAIN InOrder(keys) |->
                     Pt(InOrder(keys)[i], v.mem[InOrder(keys)[i]], FALSE)]
Dead(keys) == [i \in DOMAIN Backwards(keys) |-> Pt(Backwards(keys)[i], 0, TRUE)]

\* appendPointsFromValue: a nil pointer gives a tombstone for each field.
Encode(kind, v) ==
    IF kind = "struct" /\ v.n = 0 THEN Dead(Fields) ELSE Live(v, Elems(kind, v))

\* Mutant: no tombstones for what is gone.
DiffPointsAdds(kind, b, a) ==
    Live(a, {k \in Elems(kind, a) : k \notin Elems(kind, b) \/ b.mem[k] # a.mem[k]})

DiffPoints(kind, b, a) ==
    LET be == Elems(kind, b)
        ae == Elems(kind, a)
    IN  Live(a, {k \in ae : k \notin be \/ b.mem[k] # a.mem[k]}) \o Dead(be \ ae)
=============================================================================
