------------------------------- MODULE FnMatch -------------------------------
(***************************************************************************)
(* fnmatch.c: what one name of a path has to look like to match one name   *)
(* of a pattern, and the meaning of patterns that the README promises.     *)
(*                                                                         *)
(* A path, or a pattern, is the sequence of the names between its slashes; *)
(* a name is a sequence of characters, which matter because a pattern may  *)
(* have wildcards in a name.  fn_translate puts the names one after the    *)
(* other in one buffer, without the slashes, and keeps the offset of each. *)
(* Nodes are numbered from 0, as there.                                    *)
(***************************************************************************)
EXTENDS Naturals, Sequences, SequencesExt

Star == "*"
Name == Seq(STRING)

\* What a read outside the characters of a nodelist finds: the buffer and what
\* lies in front of it were cleared by calloc.
Nul == "nul"

\* fn_translate refuses two slashes in a row.
Translates(path) == \A i \in DOMAIN path : path[i] # <<>>

\* list->str, list->offsets[node], and a character read through them.
Str(path) == FlattenSeq(path)
Offset(path, node) == Len(FlattenSeq(SubSeq(path, 1, node)))
CharAt(path, k) == IF k \in DOMAIN Str(path) THEN Str(path)[k] ELSE Nul

\* _find_node_type; what lies behind the nodes is NODE_INVALID.
NodeType(pattern, node) ==
  IF node >= Len(pattern) THEN "invalid"
  ELSE LET name == pattern[node + 1] IN
       CASE name = <<Star>>             -> "star"
         [] name = <<Star, Star>>       -> "double_star"
         [] OTHER -> IF Star \in Range(name) THEN "mixed" ELSE "character"

\* The characters that a mixed name compares from its front, and from its back:
\* *abc only looks at its end, abc* at its beginning, a*b at both.
FixedFront(name) ==
  IF Head(name) = Star THEN 0
  ELSE IF Last(name) = Star THEN Len(name) - 1
  ELSE SelectInSeq(name, LAMBDA c : c = Star) - 1

FixedBack(name) ==
  IF Head(name) = Star THEN Len(name) - 1
  ELSE IF Last(name) = Star THEN 0
  ELSE Len(name) - SelectLastInSeq(name, LAMBDA c : c = Star)

\* The characters are compared wherever they lie in the buffer of the path, be
\* it in the name before or after.
MixedMatches(name, path, node) ==
  /\ \A k \in 1..FixedFront(name) : name[k] = CharAt(path, Offset(path, node) + k)
  /\ \A k \in 0..(FixedBack(name) - 1) :
        name[Len(name) - k] = CharAt(path, Offset(path, node + 1) - k)

\* _match_cur_node: node e of a path against node p of a pattern.
NameMatches(pattern, p, path, e) ==
  CASE NodeType(pattern, p) = "character" -> pattern[p + 1] = path[e + 1]
    [] NodeType(pattern, p) = "star"      -> TRUE
    [] NodeType(pattern, p) = "mixed"     -> MixedMatches(pattern[p + 1], path, e)
    [] OTHER                              -> FALSE

-----------------------------------------------------------------------------
(* The meaning of a pattern.                                                 *)

\* Whether ws can be turned into xs by replacing each element that is Wild by a
\* sequence of any length, and the others by what they Equal: ends says how far
\* in xs one gets with each of ws.
Expands(ws, xs, Wild(_), Equal(_, _)) ==
  \E ends \in [0..Len(ws) -> 0..Len(xs)] :
    /\ ends[0] = 0 /\ ends[Len(ws)] = Len(xs)
    /\ \A i \in 1..Len(ws) :
         IF Wild(ws[i]) THEN ends[i - 1] <= ends[i]
         ELSE ends[i] = ends[i - 1] + 1 /\ Equal(ws[i], xs[ends[i]])

\* A star in a name stands for any characters of that name.
NameMeans(w, x) == Expands(w, x, LAMBDA c : c = Star, LAMBDA c, d : c = d)

\* A double star stands for any number of directories.
Means(pattern, path) ==
  Expands(pattern, path, LAMBDA w : w = <<Star, Star>>, NameMeans)

\* Patterns by the wildcards they use.
HasDoubleStar(pattern) == <<Star, Star>> \in Range(pattern)
HasMixed(pattern) == \E i \in DOMAIN pattern : NodeType(pattern, i - 1) = "mixed"

\* The names in which the matcher supports wildcards have one star at most.
OneStar(name) == \A j, k \in DOMAIN name : name[j] = Star /\ name[k] = Star => j = k

OneStarNames(pattern) ==
  \A i \in DOMAIN pattern : pattern[i] = <<Star, Star>> \/ OneStar(pattern[i])

\* At most one name follows the first double star.
DoubleStarNearEnd(pattern) ==
  \A i \in 1..(Len(pattern) - 2) : pattern[i] # <<Star, Star>>
=============================================================================
