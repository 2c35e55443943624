---------------------------- MODULE InlinedDims -----------------------------
(***************************************************************************)
(* The vector of dimensions of an array's shape (array/dims.h): up to      *)
(* MAX_INLINE_RANK elements are kept in the object, more of them on the    *)
(* heap.  A union holds the one or the other, and size_ alone says which:  *)
(* data() takes the heap pointer exactly if size_ > MAX_INLINE_RANK.       *)
(*                                                                         *)
(* An object's representation is its size_, the member of the union that   *)
(* was written last, and that member's elements; `content' is what a       *)
(* std::vector would hold after the same operations.                       *)
(***************************************************************************)
EXTENDS Integers, Sequences

CONSTANTS
    DimsObjects,    \* the InlinedDims objects
    MaxInlineRank,  \* MAX_INLINE_RANK
    Counts,         \* the counts resize is called with
    MaxRank,        \* bound: elements given to a constructor or to set
    DimValues       \* the elements

ASSUME DimsAssumption ==
    /\ MaxInlineRank \in Nat \ {0} /\ Counts \subseteq Nat /\ MaxRank \in Nat
    /\ DimValues \subseteq Nat /\ 0 \in DimValues

VARIABLES
    dims,     \* per object: [size, member, cells]
    content,  \* history: the elements of the vector
    spoilt    \* history: objects whose elements resize or operator= has lost

dimsVars == <<dims, content, spoilt>>

Filled(n, v) == [i \in 1 .. n |-> v]
FirstN(s, n) == [i \in 1 .. n |-> s[i]]

\* A fresh std::array (value-initialized), holding the elements of s.
Inline(s) == [i \in 1 .. MaxInlineRank |-> IF i <= Len(s) THEN s[i] ELSE 0]

\* set(): the elements of s, inline or on the heap.
Set(s) ==
    IF Len(s) > MaxInlineRank
    THEN [size |-> Len(s), member |-> "dynamic", cells |-> s]
    ELSE [size |-> Len(s), member |-> "inline", cells |-> Inline(s)]

\* data(), and the elements a reader finds there.
Member(d) == IF d.size > MaxInlineRank THEN "dynamic" ELSE "inline"
Readable(d) == d.size = 0 \/ Member(d) = d.member
Span(d) == FirstN(d.cells, d.size)

\* An object as its methods see it.  Where size_ says inline and the heap pointer
\* was written last, they take its bytes, and what lies behind it, for elements.
Seen(d) == IF Readable(d) THEN {d}
           ELSE {[size |-> d.size, member |-> "inline", cells |-> junk] :
                    junk \in [1 .. MaxInlineRank -> DimValues]}

DimsInit == /\ dims = [o \in DimsObjects |-> Set(<<>>)]
            /\ content = [o \in DimsObjects |-> <<>>]
            /\ spoilt = {}

\* o comes to hold what p holds, sound or not.
SpoiltAs(o, p) == spoilt' = IF p \in spoilt THEN spoilt \cup {o} ELSE spoilt \ {o}

\* The constructor with a count and a value fills the whole inline array.
ConstructDims(o, n, v) ==
    /\ dims' = [dims EXCEPT ![o] =
          IF n > MaxInlineRank
          THEN [size |-> n, member |-> "dynamic", cells |-> Filled(n, v)]
          ELSE [size |-> n, member |-> "inline", cells |-> Filled(MaxInlineRank, v)]]
    /\ content' = [content EXCEPT ![o] = Filled(n, v)]
    /\ spoilt' = spoilt \ {o}

\* set() of some elements, the constructor from a range, and clear().
SetSpan(o, s) == /\ dims' = [dims EXCEPT ![o] = Set(s)]
                 /\ content' = [content EXCEPT ![o] = s]
                 /\ spoilt' = spoilt \ {o}

\* Copy construction, and assignment from another object.
CopyOther(o, p) == /\ o # p
                  /\ \E d \in Seen(dims[p]) : dims' = [dims EXCEPT ![o] = Set(Span(d))]
                  /\ content' = [content EXCEPT ![o] = content[p]]
                  /\ SpoiltAs(o, p)

\* An object assigned to itself: set() clears it and then reads its old elements,
\* from heap memory that is freed, or from the inline array it has zeroed.
AssignSelf(o) == /\ \E s \in [1 .. dims[o].size -> DimValues] :
                       /\ dims[o].size <= MaxInlineRank => s = Filled(dims[o].size, 0)
                       /\ dims' = [dims EXCEPT ![o] = Set(s)]
                 /\ spoilt' = spoilt \cup {o}
                 /\ UNCHANGED content

CopyDims(o, p) == CopyOther(o, p) \/ (o = p /\ AssignSelf(o))

\* The move constructor takes the pointer or the array, and leaves size_ = 0.
MoveDims(o, p) == /\ o # p
              /\ dims' = [dims EXCEPT ![o] = dims[p], ![p].size = 0]
              /\ content' = [content EXCEPT ![o] = content[p], ![p] = <<>>]
              /\ SpoiltAs(o, p)

\* operator[], through a reference.
WriteDim(o, i, v) == /\ i \in 1 .. dims[o].size
                  /\ \E d \in Seen(dims[o]) : dims' = [dims EXCEPT ![o] = [d EXCEPT !.cells[i] = v]]
                  /\ content' = [content EXCEPT ![o][i] = v]
                  /\ UNCHANGED spoilt

\* Mutant: items that come back into use keep what they were.
InitializedNot(d, count, v) == d.cells

\* The inline array after the items from size_ to count are initialized.
Initialized(d, count, v) ==
    [i \in 1 .. MaxInlineRank |-> IF i > d.size /\ i <= count THEN v ELSE d.cells[i]]

\* A new heap array: the elements, then the value.
Grown(d, count, v) == [i \in 1 .. count |-> IF i <= d.size THEN d.cells[i] ELSE v]

\* The cells as the inlined branch of resize_impl sees them: a moved-from object
\* has an empty pointer in the union, and nothing of it is read.
Cells(d) == IF d.member = "inline" THEN d ELSE [d EXCEPT !.cells = Filled(MaxInlineRank, 0)]

\* resize_impl.
ResizeImpl(d, count, v) ==
    CASE count = d.size -> d
      [] count # d.size /\ d.size > MaxInlineRank ->
            IF count < d.size
            THEN IF count < MaxInlineRank
                 THEN [size |-> count, member |-> "inline", cells |-> Inline(FirstN(d.cells, count))]
                 ELSE [d EXCEPT !.size = count]
            ELSE [size |-> count, member |-> "dynamic", cells |-> Grown(d, count, v)]
      [] count # d.size /\ d.size <= MaxInlineRank ->
            IF count < d.size THEN [d EXCEPT !.size = count]
            ELSE IF count < MaxInlineRank
            THEN [size |-> count, member |-> "inline", cells |-> Initialized(Cells(d), count, v)]
            ELSE [size |-> count, member |-> "dynamic", cells |-> Grown(Cells(d), count, v)]

\* A resize to exactly MaxInlineRank leaves the elements on the heap, where data()
\* does not look for them.
Resize(o, count, v) ==
    /\ \E d \in Seen(dims[o]) : dims' = [dims EXCEPT ![o] = ResizeImpl(d, count, v)]
    /\ content' = [content EXCEPT
          ![o] = [i \in 1 .. count |-> IF i <= Len(@) THEN @[i] ELSE v]]
    /\ spoilt' = IF count = MaxInlineRank /\ count # dims[o].size
                 THEN spoilt \cup {o} ELSE spoilt

DimsNext ==
    \E o \in DimsObjects :
       \/ \E n \in 0 .. MaxRank : \E v \in DimValues : ConstructDims(o, n, v)
       \/ \E n \in 0 .. MaxRank : \E s \in [1 .. n -> DimValues] : SetSpan(o, s)
       \/ \E p \in DimsObjects : CopyDims(o, p)
       \/ \E p \in DimsObjects : MoveDims(o, p)
       \/ \E i \in 1 .. MaxRank : \E v \in DimValues : WriteDim(o, i, v)
       \/ \E count \in Counts : \E v \in DimValues : Resize(o, count, v)

DimsSpec == DimsInit /\ [][DimsNext]_dimsVars

-----------------------------------------------------------------------------
\* Whatever sequence of constructions, copies, moves, assignments, writes and
\* resizes led to an object, across the boundary between inline and heap storage
\* and back, it has as many elements as a vector would, and they are the vector's
\* too, unless a resize to exactly MAX_INLINE_RANK (dims.h:247) or an assignment
\* to itself (dims.h:163) has lost them, there or in the object they come from.
ElementsKept ==
    \A o \in DimsObjects :
       /\ dims[o].size = Len(content[o])
       /\ o \notin spoilt => Readable(dims[o]) /\ Span(dims[o]) = content[o]

\* dims.h:19: "Vector-alike for storing inlined dims": the elements of every object
\* are those of the vector, whatever was done to it.
VectorAlike == \A o \in DimsObjects : Readable(dims[o]) /\ Span(dims[o]) = content[o]
=============================================================================
