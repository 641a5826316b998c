--------------------------------- MODULE Str --------------------------------
(***************************************************************************)
(* The string of ctl (src/ctl/str.h): the vector of char, with operations  *)
(* that take C strings.  A char is a number and '\0' is 0; a C string is   *)
(* the sequence of the chars before its '\0'.                              *)
(***************************************************************************)
EXTENDS Vector
LOCAL INSTANCE SequencesExt

CONSTANTS CStrings,     (* arguments: some sequences of chars              *)
          MinReserve    (* min of str_init, 15 in the code                 *)

(* str_init                                                                *)
StrInit(s) ==
  FoldLeft(PushBack, Reserve(NewVec, IF Len(s) < MinReserve THEN MinReserve ELSE Len(s)), s)

StrAppend(v, s) ==
  LET u == Resize(v, v.size + Len(s), Zero)
  IN  FoldLeft(LAMBDA w, i : SetAt(w, v.size + i - 1, s[i]), u, Up(1, Len(s)))

(* The chars a C function sees.                                            *)
CStr(s) ==
  LET ends == {i \in DOMAIN s : s[i] = Zero}
  IN  IF ends = {} THEN s ELSE SubSeq(s, 1, (CHOOSE i \in ends : \A j \in ends : i <= j) - 1)

(* str_copy: the length comes from strlen, not from size.                  *)
StrCopy(v) == StrAppend(StrInit(<<>>), CStr(Each(v)))

(* insert_str makes room, takes the size back and inserts from the end.    *)
StrInsert(v, index, s) ==
  LET roomy == [Resize(v, v.size + Len(s), Zero) EXCEPT !.size = v.size]
  IN  FoldLeft(LAMBDA u, c : InsertBefore(u, index, c), roomy, Reverse(s))

StrReplace(v, index, size, s) ==
  LET end == IF index + size >= v.size THEN v.size ELSE index + size
  IN  StrInsert(FoldLeft(LAMBDA u, i : EraseAt(u, index), v, Up(index, end - 1)), index, s)

StrSubstr(v, index, size) ==
  LET u == Resize(StrInit(<<>>), size, Zero)
  IN  FoldLeft(LAMBDA w, i : SetAt(w, i, v.value[index + i]), u, Up(0, size - 1))

-----------------------------------------------------------------------------
Splice(i, n, s) == SubSeq(elements, 1, i) \o s \o SubSeq(elements, i + n + 1, Len(elements))

StrNext ==
  \/ \E s \in CStrings :
       \/ Becomes(StrInit(s), s)
       \/ Becomes(StrAppend(vector, s), elements \o s)
       \/ \E i \in 0 .. Len(elements) :
            \/ Becomes(StrInsert(vector, i, s), Splice(i, 0, s))
            \/ \E n \in 0 .. MaxSize : Becomes(StrReplace(vector, i, n, s), Splice(i, n, s))
  \/ \E i \in 0 .. Len(elements) : \E n \in 0 .. Len(elements) - i :
       Becomes(StrSubstr(vector, i, n), SubSeq(elements, i + 1, i + n))
  \/ Becomes(StrCopy(vector), CStr(elements))

(* The vector's own operations stay available, but for copy.               *)
WithVectorNext == Elements \/ Whole \/ Capacity \/ StrNext

StrSpec == Init /\ [][WithVectorNext]_vars
=============================================================================
