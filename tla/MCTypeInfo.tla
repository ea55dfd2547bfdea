----------------------------- MODULE MCTypeInfo -----------------------------
(***************************************************************************)
(* The JSON library and the reader of the types that uses it: either a     *)
(* program edits a document, or init reads a file.                         *)
(***************************************************************************)
EXTENDS CJsonObject, CLTypeInfoReader, TLC

CONSTANTS k, kUpper, l, s, t

MCKeys   == {k, kUpper, l}
MCFolded == k :> 1 @@ kUpper :> 1 @@ l :> 2
MCValues == {[type |-> "scalar", keys |-> <<>>], [type |-> "array", keys |-> <<NoKey>>],
             [type |-> "object", keys |-> <<l>>]}
MCNames  == {s, t}

\* Up to three entries of few sizes, or one of any small size, or of one for
\* which the field is too short.
FewEntries == [name : MCNames \cup {NONE}, size : {64, NONE},
            ptrs : {NONE, <<>>, <<s>>, <<t>>, <<NONE>>, <<s, t>>}]
MCFiles == BoundedSeq(FewEntries, 3)
           \cup {<<e>> : e \in [name : {s}, size : 0 .. ObjectSizeNum + 64, ptrs : {<<>>}]}

MCInit == Init /\ ReaderInit

\* Bounds while there is more than one CJsonObject: the last item is not in use,
\* and the document begins with the first.  (Any other document has the same shape
\* as one that was made after a Clear, which begins with the first.)
Small == \/ made' = {Doc}
         \/ ItemNum \notin live' /\ Own(Doc)' \in {NULL, 1}

Edits  == m_instance = "none" /\ Next /\ Small /\ UNCHANGED readerVars
Starts == live = {} /\ made = {Doc} /\ ReaderNext /\ UNCHANGED vars

MCNext == Edits \/ Starts
MCSpec == MCInit /\ [][MCNext]_<<vars, readerVars>>

MCSymmetry == Permutations({k, kUpper})
=============================================================================
