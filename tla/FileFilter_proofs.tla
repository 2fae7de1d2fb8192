------------------------- MODULE FileFilter_proofs -------------------------
(***************************************************************************)
(* Proofs about FileFilter, for any policies and paths of the supported    *)
(* length.  The types hold for any number of listening threads; that the   *)
(* cursors stay in range and that the answer is right are proved for one,  *)
(* and are false for two.                                                  *)
(***************************************************************************)
EXTENDS FileFilter, SequenceTheorems, FiniteSetTheorems, WellFoundedInduction, TLAPS

\* Where a match is in progress.
Matching == {"visit", "compare", "advance", "fail"}

\* The thread is at a pattern of the list; its own cursor is in the path, and not
\* behind the recursion, each call of which has taken a name of the path.
OwnOK ==
  \A t \in Thread :
    /\ pc[t] \in Matching => /\ index[t] <= Len(patterns)
                              /\ pos[t] <= Len(path[t]) /\ depth[t] <= pos[t] + 1
    /\ pc[t] \in Matching \ {"advance"} => depth[t] <= pos[t]
    /\ pc[t] \in {"compare", "advance"} => pos[t] < Len(path[t])

TInv == TypeOK /\ OwnOK

LEMMA PathLength ==
  ASSUME TypeOK, NEW t \in Thread PROVE Len(path[t]) \in 0..MaxNodes
  BY FilterAssumption DEF TypeOK

LEMMA InitTInv == Init => TInv
<1> SUFFICES ASSUME Init PROVE TInv
  OBVIOUS
<1>1. <<>> \in Seq(Policy) /\ DOMAIN <<>> = {}
  OBVIOUS
<1>2. Vms \in Nat
  BY FilterAssumption, FS_CardinalityType DEF Vms
<1>3. patterns = <<>> /\ cursor = <<>> /\ <<>> \in Seq(0..255)
  BY DEF Init
<1>4. TypeOK
  BY <1>1, <1>2, <1>3, FilterAssumption DEF Init, TypeOK, Labels, MaxNodes
<1>5. OwnOK
  BY DEF Init, OwnOK, Matching
<1> QED BY <1>4, <1>5 DEF TInv

-----------------------------------------------------------------------------
(* The steps that only extend the list of patterns.                          *)

LEMMA AddTInv ==
  ASSUME TInv, SetPolicies \/ FilterAdd
  PROVE  TInv'
<1> USE DEF shared, locals
<1>t. TypeOK /\ OwnOK
  BY DEF TInv
<1>1. UNCHANGED <<policies, pc, path, index, pos, depth, saw, answer>>
  BY DEF SetPolicies, FilterAdd
<1>v. Vms \in Nat
  BY FilterAssumption, FS_CardinalityType DEF Vms
<1>3. CASE SetPolicies
  <2>1. policies \in Seq(Policy) /\ sets' \in 0..(Vms + MaxRestarts)
    BY <1>3, <1>t, <1>v, FilterAssumption DEF TypeOK, SetPolicies
  <2>2. readd' = policies /\ UNCHANGED <<patterns, cursor>>
    BY <1>3 DEF SetPolicies
  <2>3. TypeOK'
    BY <2>1, <2>2, <1>1, <1>t DEF TypeOK
  <2>4. OwnOK'
    BY <2>2, <1>1, <1>t DEF OwnOK
  <2> QED BY <2>3, <2>4 DEF TInv
<1>4. CASE FilterAdd
  <2>1. Head(readd) \in Policy /\ Tail(readd) \in Seq(Policy)
    BY <1>4, <1>t, HeadTailProperties DEF TypeOK, FilterAdd
  <2>2. /\ patterns' \in Seq(Policy) /\ cursor' \in Seq(0..255)
        /\ Len(cursor') = Len(patterns') /\ Len(patterns') >= Len(patterns)
    <3>1. CASE Translates(Head(readd).pattern)
      <4>1. patterns' = Append(patterns, Head(readd)) /\ cursor' = Append(cursor, 0)
        BY <3>1, <1>4 DEF FilterAdd
      <4>2. patterns \in Seq(Policy) /\ cursor \in Seq(0..255) /\ Len(cursor) = Len(patterns)
        BY <1>t DEF TypeOK
      <4> QED BY <4>1, <4>2, <2>1
    <3>2. CASE ~Translates(Head(readd).pattern)
      BY <3>2, <1>4, <1>t DEF FilterAdd, TypeOK
    <3> QED BY <3>1, <3>2
  <2>4. sets' = sets /\ readd' \in Seq(Policy)
    BY <1>4, <2>1 DEF FilterAdd
  <2>5. TypeOK'
    BY <2>2, <2>4, <1>1, <1>t DEF TypeOK
  <2>6. OwnOK'
    BY <2>2, <1>1, <1>t DEF TypeOK, OwnOK
  <2> QED BY <2>5, <2>6 DEF TInv
<1> QED BY <1>3, <1>4

-----------------------------------------------------------------------------
(* The steps of a listening thread.                                          *)

\* A step of t leaves the filter's list and the other threads alone, and its own
\* variables in order.
OnlyOwn(t) ==
  /\ UNCHANGED shared
  /\ cursor' \in Seq(0..255) /\ Len(cursor') = Len(cursor)
  /\ pc' = [pc EXCEPT ![t] = pc'[t]] /\ path' = [path EXCEPT ![t] = path'[t]]
  /\ index' = [index EXCEPT ![t] = index'[t]] /\ pos' = [pos EXCEPT ![t] = pos'[t]]
  /\ depth' = [depth EXCEPT ![t] = depth'[t]] /\ saw' = [saw EXCEPT ![t] = saw'[t]]
  /\ answer' = [answer EXCEPT ![t] = answer'[t]]

OwnTypes(t) ==
  /\ pc[t] \in Labels /\ path[t] \in Path \cup {<<>>} /\ index[t] \in Nat \ {0}
  /\ pos[t] \in 0..MaxNodes /\ depth[t] \in 0..MaxNodes /\ saw[t] \in 0..255
  /\ answer[t] \in Nat

InOrder(t) ==
  /\ pc[t] \in Matching => /\ index[t] <= Len(patterns)
                            /\ pos[t] <= Len(path[t]) /\ depth[t] <= pos[t] + 1
  /\ pc[t] \in Matching \ {"advance"} => depth[t] <= pos[t]
  /\ pc[t] \in {"compare", "advance"} => pos[t] < Len(path[t])

LEMMA ThreadTInv ==
  ASSUME TInv, NEW t \in Thread, OnlyOwn(t), OwnTypes(t)', InOrder(t)'
  PROVE  TInv'
<1>1. TypeOK'
  <2>1. /\ pc' \in [Thread -> Labels] /\ path' \in [Thread -> Path \cup {<<>>}]
        /\ index' \in [Thread -> Nat \ {0}] /\ answer' \in [Thread -> Nat]
    <3>1. /\ pc \in [Thread -> Labels] /\ path \in [Thread -> Path \cup {<<>>}]
          /\ index \in [Thread -> Nat \ {0}] /\ answer \in [Thread -> Nat]
      BY DEF TInv, TypeOK
    <3>2. /\ pc' = [pc EXCEPT ![t] = pc'[t]] /\ path' = [path EXCEPT ![t] = path'[t]]
          /\ index' = [index EXCEPT ![t] = index'[t]]
          /\ answer' = [answer EXCEPT ![t] = answer'[t]]
      BY DEF OnlyOwn
    <3>3. /\ pc'[t] \in Labels /\ path'[t] \in Path \cup {<<>>}
          /\ index'[t] \in Nat \ {0} /\ answer'[t] \in Nat
      BY DEF OwnTypes
    <3> QED BY <3>1, <3>2, <3>3
  <2>2. /\ pos' \in [Thread -> 0..MaxNodes] /\ depth' \in [Thread -> 0..MaxNodes]
        /\ saw' \in [Thread -> 0..255]
    <3>1. /\ pos \in [Thread -> 0..MaxNodes] /\ depth \in [Thread -> 0..MaxNodes]
          /\ saw \in [Thread -> 0..255]
      BY DEF TInv, TypeOK
    <3>2. /\ pos' = [pos EXCEPT ![t] = pos'[t]] /\ depth' = [depth EXCEPT ![t] = depth'[t]]
          /\ saw' = [saw EXCEPT ![t] = saw'[t]]
      BY DEF OnlyOwn
    <3>3. pos'[t] \in 0..MaxNodes /\ depth'[t] \in 0..MaxNodes /\ saw'[t] \in 0..255
      BY DEF OwnTypes
    <3> QED BY <3>1, <3>2, <3>3
  <2>3. /\ UNCHANGED <<policies, patterns, readd, sets>>
        /\ cursor' \in Seq(0..255) /\ Len(cursor') = Len(cursor)
    BY DEF OnlyOwn, shared
  <2> QED BY <2>1, <2>2, <2>3 DEF TInv, TypeOK
<1>2. OwnOK'
  <2>1. patterns' = patterns
    BY DEF OnlyOwn, shared
  <2>2. ASSUME NEW u \in Thread, u # t
        PROVE  /\ pc'[u] = pc[u] /\ index'[u] = index[u] /\ pos'[u] = pos[u]
               /\ path'[u] = path[u] /\ depth'[u] = depth[u]
    BY <2>2 DEF OnlyOwn, TInv, TypeOK
  <2>3. ASSUME NEW u \in Thread, u # t PROVE InOrder(u)'
    BY <2>1, <2>2, <2>3 DEF TInv, OwnOK, InOrder
  <2>4. \A u \in Thread : InOrder(u)'
    BY <2>3
  <2> QED BY <2>4 DEF OwnOK, InOrder
<1> QED BY <1>1, <1>2 DEF TInv

\* What a cursor holds, and what a write to one of them leaves.
LEMMA CursorRead ==
  ASSUME TypeOK, NEW i \in DOMAIN patterns PROVE cursor[i] \in 0..255
<1>1. cursor \in Seq(0..255) /\ i \in 1..Len(cursor)
  BY DEF TypeOK
<1> QED BY <1>1, ElementOfSeq

LEMMA CursorWrite ==
  ASSUME TypeOK, NEW i \in DOMAIN patterns, NEW k \in 0..255,
         cursor' = [cursor EXCEPT ![i] = k]
  PROVE  cursor' \in Seq(0..255) /\ Len(cursor') = Len(cursor)
<1>1. cursor \in Seq(0..255) /\ i \in 1..Len(cursor)
  BY DEF TypeOK
<1> QED BY <1>1, ExceptSeq

\* A recursion, or a cursor, that is not yet at the end may go one further.
LEMMA OneMore ==
  ASSUME NEW d \in 0..12, NEW p \in 0..12, NEW n \in 0..12, p < n
  PROVE  p + 1 \in 0..12 /\ p + 1 <= n
         /\ (d <= p => d + 1 \in 0..12 /\ d + 1 <= p + 1 /\ d <= p + 1)
  OBVIOUS

LEMMA MatchTInv ==
  ASSUME TInv, NEW t \in Thread, Match(t) \/ \E f \in Path : FilterMatch(t, f)
  PROVE  TInv'
<1> USE DEF locals, shared, GoTo, Matching
<1>t. TypeOK /\ OwnTypes(t) /\ InOrder(t)
  BY DEF TInv, TypeOK, OwnOK, OwnTypes, InOrder
<1>l. Len(path[t]) \in 0..MaxNodes /\ MaxNodes = 12
  BY <1>t, PathLength DEF MaxNodes
<1>n. pos[t] \in 0..12 /\ depth[t] \in 0..12 /\ Len(path[t]) \in 0..12
  <2>1. pos[t] \in 0..MaxNodes /\ depth[t] \in 0..MaxNodes
    BY <1>t DEF OwnTypes
  <2> QED BY <2>1, <1>l
<1>p. patterns \in Seq(Policy) /\ Len(patterns) \in Nat
  BY <1>t, LenProperties DEF TypeOK
<1>k. pc[t] \in Matching => index[t] \in DOMAIN patterns
  BY <1>t, <1>p DEF InOrder, OwnTypes
<1>0. SUFFICES OnlyOwn(t) /\ OwnTypes(t)' /\ InOrder(t)'
  BY ThreadTInv
<1>1. ASSUME NEW f \in Path, FilterMatch(t, f)
      PROVE  OnlyOwn(t) /\ OwnTypes(t)' /\ InOrder(t)'
  <2>1. OnlyOwn(t)
    BY <1>1, <1>t DEF FilterMatch, OnlyOwn, TypeOK
  <2>2. OwnTypes(t)' /\ InOrder(t)'
    BY <1>1, <1>t, <1>l DEF FilterMatch, TypeOK, OwnTypes, InOrder, Labels, FirstIndex
  <2> QED BY <2>1, <2>2
<1>2. CASE NextPattern(t)
  <2>1. CASE index[t] > Len(patterns)
    <3>1. UNCHANGED <<shared, cursor, pos, depth, path, index, saw, answer>>
          /\ pc' = [pc EXCEPT ![t] = "done"]
      BY <1>2, <2>1, <1>t, <1>p DEF NextPattern, OwnTypes
    <3>2. OnlyOwn(t)
      BY <3>1, <1>t DEF OnlyOwn, TypeOK
    <3>3. pc'[t] = "done"
      BY <3>1, <1>t DEF TypeOK
    <3>4. OwnTypes(t)' /\ InOrder(t)'
      BY <3>1, <3>3, <1>t DEF OwnTypes, InOrder, Labels
    <3> QED BY <3>2, <3>4
  <2>2. CASE index[t] <= Len(patterns)
    <3>1. /\ UNCHANGED <<shared, path, index, saw, answer>>
          /\ pc' = [pc EXCEPT ![t] = "visit"]
          /\ cursor' = [cursor EXCEPT ![index[t]] = 0]
          /\ pos' = [pos EXCEPT ![t] = 0] /\ depth' = [depth EXCEPT ![t] = 0]
      BY <1>2, <2>2, <1>t, <1>p DEF NextPattern, OwnTypes, Reset
    <3>2. index[t] \in DOMAIN patterns /\ 0 \in 0..255
      BY <2>2, <1>t, <1>p DEF OwnTypes
    <3>3. cursor' \in Seq(0..255) /\ Len(cursor') = Len(cursor)
      BY <3>1, <3>2, <1>t, CursorWrite
    <3>4. OnlyOwn(t)
      BY <3>1, <3>3, <1>t DEF OnlyOwn, TypeOK
    <3>5. pc'[t] = "visit" /\ pos'[t] = 0 /\ depth'[t] = 0
      BY <3>1, <1>t DEF TypeOK
    <3>6. OwnTypes(t)' /\ InOrder(t)'
      BY <3>1, <3>5, <2>2, <1>t, <1>l DEF OwnTypes, InOrder, Labels
    <3> QED BY <3>4, <3>6
  <2> QED BY <2>1, <2>2, <1>t, <1>p DEF OwnTypes
<1>3. CASE Visit(t)
  <2>1. /\ UNCHANGED <<shared, cursor, path, index, pos, depth>>
        /\ saw' = [saw EXCEPT ![t] = cursor[index[t]]]
        /\ pc[t] = "visit"
    BY <1>3 DEF Visit
  <2>2. cursor[index[t]] \in 0..255
    <3>1. index[t] \in DOMAIN patterns
      BY <2>1, <1>k
    <3> QED BY <3>1, <1>t, CursorRead
  <2>3. patterns[index[t]].id \in Nat
    <3>1. patterns[index[t]] \in Policy
      BY <2>1, <1>k, <1>p
    <3> QED BY <3>1, FilterAssumption
  <2>4. \/ answer' = answer /\ pc' = [pc EXCEPT ![t] = "fail"]
        \/ answer' = answer /\ pc' = [pc EXCEPT ![t] = "compare"] /\ ~PathDone(t)
        \/ /\ answer' = [answer EXCEPT ![t] = patterns[index[t]].id]
           /\ pc' = [pc EXCEPT ![t] = "done"]
    BY <1>3 DEF Visit, Ended
  <2>5. OnlyOwn(t)
    BY <2>1, <2>4, <1>t DEF OnlyOwn, TypeOK
  <2>6. /\ pc'[t] \in {"fail", "compare", "done"}
        /\ pc'[t] = "compare" => ~PathDone(t)
    BY <2>4, <1>t DEF TypeOK
  <2>7. answer'[t] \in Nat /\ saw'[t] \in 0..255
    BY <2>1, <2>2, <2>3, <2>4, <1>t DEF TypeOK
  <2>8. OwnTypes(t)'
    BY <2>1, <2>6, <2>7, <1>t DEF OwnTypes, Labels
  <2>9. InOrder(t)'
    BY <2>1, <2>6, <1>t, <1>l DEF OwnTypes, InOrder, PathDone
  <2> QED BY <2>5, <2>8, <2>9
<1>4. CASE Compare(t)
  <2>1. /\ UNCHANGED <<shared, cursor, path, index, pos, saw, answer>>
        /\ pc[t] = "compare"
    BY <1>4 DEF Compare
  <2>2. \/ depth' = [depth EXCEPT ![t] = @ + 1] /\ pc' = [pc EXCEPT ![t] = "advance"]
        \/ depth' = depth /\ pc' = [pc EXCEPT ![t] = "advance"]
        \/ depth' = depth /\ pc' = [pc EXCEPT ![t] = "fail"]
    BY <1>4 DEF Compare
  <2>3. OnlyOwn(t)
    BY <2>1, <2>2, <1>t DEF OnlyOwn, TypeOK
  <2>4. \/ depth'[t] = depth[t] + 1 /\ pc'[t] = "advance"
        \/ depth'[t] = depth[t] /\ pc'[t] \in {"advance", "fail"}
    BY <2>2, <1>t DEF TypeOK
  <2>5. pos[t] < Len(path[t]) /\ depth[t] <= pos[t] /\ index[t] <= Len(patterns)
    BY <2>1, <1>t DEF InOrder
  <2>e. depth[t] + 1 \in 0..12 /\ depth[t] + 1 <= pos[t] + 1 /\ depth[t] <= pos[t] + 1
    BY <2>5, <1>n, OneMore
  <2>6. depth'[t] \in 0..MaxNodes
    BY <2>4, <2>e, <1>t, <1>l DEF OwnTypes
  <2>7. pc'[t] \in Labels
    BY <2>4 DEF Labels
  <2>8. OwnTypes(t)'
    BY <2>1, <2>6, <2>7, <1>t DEF OwnTypes
  <2>9. InOrder(t)'
    BY <2>1, <2>4, <2>5, <2>e, <1>n DEF InOrder
  <2> QED BY <2>3, <2>8, <2>9
<1>5. CASE Advance(t)
  <2>1. /\ UNCHANGED <<shared, path, index, depth, saw, answer>>
        /\ pc[t] = "advance" /\ pc' = [pc EXCEPT ![t] = "visit"]
        /\ pos' = [pos EXCEPT ![t] = @ + 1]
    BY <1>5 DEF Advance
  <2>2. PICK p \in {cursor[index[t]], saw[t]} :
          cursor' = [cursor EXCEPT ![index[t]] = (p + 1) % 256]
    BY <1>5 DEF Advance
  <2>3. index[t] \in DOMAIN patterns
    BY <2>1, <1>k
  <2>4. p \in 0..255
    <3>1. cursor[index[t]] \in 0..255
      BY <2>3, <1>t, CursorRead
    <3>2. saw[t] \in 0..255
      BY <1>t DEF OwnTypes
    <3> QED BY <3>1, <3>2
  <2>5. (p + 1) % 256 \in 0..255
    BY <2>4
  <2>6. cursor' \in Seq(0..255) /\ Len(cursor') = Len(cursor)
    BY <2>2, <2>3, <2>5, <1>t, CursorWrite
  <2>7. OnlyOwn(t)
    BY <2>1, <2>6, <1>t DEF OnlyOwn, TypeOK
  <2>8. pc'[t] = "visit" /\ pos'[t] = pos[t] + 1
    BY <2>1, <1>t DEF TypeOK
  <2>9. pos[t] < Len(path[t]) /\ depth[t] <= pos[t] + 1 /\ index[t] <= Len(patterns)
    BY <2>1, <1>t DEF InOrder
  <2>e. pos[t] + 1 \in 0..12 /\ pos[t] + 1 <= Len(path[t])
    BY <2>9, <1>n, OneMore
  <2>10. OwnTypes(t)'
    BY <2>1, <2>8, <2>e, <1>t, <1>l DEF OwnTypes, Labels
  <2>11. InOrder(t)'
    BY <2>1, <2>8, <2>9, <2>e, <1>n DEF InOrder
  <2> QED BY <2>7, <2>10, <2>11
<1>6. CASE Fail(t)
  <2>0. pc[t] = "fail" /\ UNCHANGED <<shared, path, saw, answer>>
    BY <1>6 DEF Fail
  <2>1. CASE depth[t] = 0
    <3>1. /\ UNCHANGED <<cursor, pos, depth>> /\ index' = [index EXCEPT ![t] = @ + 1]
          /\ pc' = [pc EXCEPT ![t] = "pattern"]
      BY <1>6, <2>1 DEF Fail
    <3>2. OnlyOwn(t)
      BY <2>0, <3>1, <1>t DEF OnlyOwn, TypeOK
    <3>3. pc'[t] = "pattern" /\ index'[t] = index[t] + 1
      BY <3>1, <1>t DEF TypeOK
    <3>4. OwnTypes(t)' /\ InOrder(t)'
      BY <2>0, <3>1, <3>3, <1>t DEF OwnTypes, InOrder, Labels
    <3> QED BY <3>2, <3>4
  <2>2. CASE depth[t] > 0
    <3>1. /\ cursor' = [cursor EXCEPT ![index[t]] = (@ + 255) % 256]
          /\ pos' = [pos EXCEPT ![t] = @] /\ index' = index
          /\ depth' = [depth EXCEPT ![t] = @ - 1] /\ pc' = [pc EXCEPT ![t] = "visit"]
      BY <1>6, <2>2 DEF Fail, GivenBack
    <3>2. index[t] \in DOMAIN patterns
      BY <2>0, <1>k
    <3>3. cursor[index[t]] \in 0..255
      BY <3>2, <1>t, CursorRead
    <3>4. (cursor[index[t]] + 255) % 256 \in 0..255
      BY <3>3
    <3>5. cursor' = [cursor EXCEPT ![index[t]] = (cursor[index[t]] + 255) % 256]
      BY <3>1
    <3>6. cursor' \in Seq(0..255) /\ Len(cursor') = Len(cursor)
      BY <3>2, <3>4, <3>5, <1>t, CursorWrite
    <3>7. OnlyOwn(t)
      <4>1. /\ pc' = [pc EXCEPT ![t] = pc'[t]] /\ pos' = [pos EXCEPT ![t] = pos'[t]]
            /\ depth' = [depth EXCEPT ![t] = depth'[t]]
        BY <3>1, <1>t DEF TypeOK
      <4>2. /\ path' = [path EXCEPT ![t] = path'[t]] /\ saw' = [saw EXCEPT ![t] = saw'[t]]
            /\ index' = [index EXCEPT ![t] = index'[t]]
            /\ answer' = [answer EXCEPT ![t] = answer'[t]]
        BY <2>0, <3>1, <1>t DEF TypeOK
      <4> QED BY <2>0, <3>6, <4>1, <4>2 DEF OnlyOwn
    <3>8. pc'[t] = "visit" /\ pos'[t] = pos[t] /\ depth'[t] = depth[t] - 1
      BY <3>1, <1>t DEF TypeOK
    <3>9. depth[t] - 1 \in 0..12 /\ depth[t] - 1 <= pos[t]
      <4>1. depth[t] <= pos[t]
        BY <2>0, <1>t DEF InOrder
      <4> QED BY <4>1, <2>2, <1>n
    <3>10. OwnTypes(t)'
      BY <2>0, <3>1, <3>8, <3>9, <1>t, <1>l DEF OwnTypes, Labels
    <3>11. InOrder(t)'
      BY <2>0, <3>1, <3>8, <3>9, <1>t, <1>n DEF InOrder
    <3> QED BY <3>7, <3>10, <3>11
  <2> QED BY <2>1, <2>2, <1>t DEF OwnTypes
<1> QED BY <1>1, <1>2, <1>3, <1>4, <1>5, <1>6 DEF Match

LEMMA StepTInv == TInv /\ [Next]_vars => TInv'
<1> SUFFICES ASSUME TInv, [Next]_vars PROVE TInv'
  OBVIOUS
<1>1. CASE UNCHANGED vars
  BY <1>1 DEF TInv, TypeOK, OwnOK, vars, shared, locals
<1>2. CASE Next
  BY <1>2, AddTInv, MatchTInv DEF Next
<1> QED BY <1>1, <1>2

LEMMA TInvInvariant == Spec => []TInv
  BY InitTInv, StepTInv, PTL DEF Spec

\* The types of FileFilter, for any number of threads, policies and restarts.
THEOREM TypeCorrect == Spec => []TypeOK
<1>1. TInv => TypeOK
  BY DEF TInv
<1> QED BY <1>1, TInvInvariant, PTL

-----------------------------------------------------------------------------
(* One listening thread has the cursors to itself.                           *)

\* The cursor of the pattern is at one of its nodes, or at its end, and as far as
\* the recursion: each call of _match has taken a double star.
Cur(t) == cursor[index[t]]
Size(t) == Len(Pattern(t))

CursorOK ==
  \A t \in Thread :
    /\ pc[t] \in {"visit", "fail"} => depth[t] <= Cur(t) /\ Cur(t) <= Size(t)
    /\ pc[t] \in {"compare", "advance"} => Cur(t) < Size(t) /\ saw[t] = Cur(t)
    /\ pc[t] = "compare" => depth[t] <= Cur(t)
    /\ pc[t] = "advance" => depth[t] <= Cur(t) + 1

\* The cursor, and the pattern it belongs to, while t matches.
LEMMA CursorSizes ==
  ASSUME TInv, NEW t \in Thread, pc[t] \in Matching
  PROVE  /\ index[t] \in DOMAIN patterns /\ index[t] \in DOMAIN cursor
         /\ Cur(t) \in 0..255 /\ Size(t) \in 0..12 /\ depth[t] \in 0..12
<1>t. TypeOK /\ index[t] <= Len(patterns) /\ index[t] \in Nat \ {0}
  BY DEF TInv, TypeOK, OwnOK
<1>1. index[t] \in DOMAIN patterns /\ index[t] \in DOMAIN cursor
  BY <1>t, LenProperties DEF TypeOK
<1>2. Cur(t) \in 0..255
  <2>1. cursor \in Seq(0..255) /\ index[t] \in 1..Len(cursor)
    BY <1>t, <1>1 DEF TypeOK
  <2> QED BY <2>1, ElementOfSeq DEF Cur
<1>3. patterns[index[t]] \in Policy
  BY <1>t, <1>1, ElementOfSeq, LenProperties DEF TypeOK
<1>4. Size(t) \in 0..12
  BY <1>3, FilterAssumption DEF Size, Pattern, MaxNodes
<1>5. depth[t] \in 0..12
  <2>1. depth[t] \in 0..MaxNodes
    BY <1>t DEF TypeOK
  <2> QED BY <2>1 DEF MaxNodes
<1> QED BY <1>1, <1>2, <1>4, <1>5

LEMMA OneFurther ==
  ASSUME NEW c \in 0..255, NEW n \in 0..12, c < n
  PROVE  (c + 1) % 256 = c + 1 /\ c + 1 <= n
  OBVIOUS

LEMMA OneBack ==
  ASSUME NEW c \in 0..255, NEW d \in 0..12, d > 0, d <= c
  PROVE  (c + 255) % 256 = c - 1 /\ d - 1 <= c - 1
  OBVIOUS

\* What a step of t leaves alone while it stays at its pattern.
LEMMA AloneCursor ==
  ASSUME TInv, CursorOK, NEW t \in Thread, Thread = {t}, Match(t)
  PROVE  CursorOK'
<1> USE DEF locals, shared, GoTo, Matching
<1>t. TypeOK /\ OwnOK
  BY DEF TInv
<1>i. pc[t] \in Matching => /\ index[t] \in DOMAIN cursor /\ Cur(t) \in 0..255
                            /\ Size(t) \in 0..12 /\ depth[t] \in 0..12
  BY CursorSizes
<1>q. UNCHANGED patterns
  BY DEF Match, NextPattern, Visit, Compare, Advance, Fail
<1>s. index'[t] = index[t] => Size(t)' = Size(t)
  BY <1>q DEF Size, Pattern
<1>0. SUFFICES
        /\ pc'[t] \in {"visit", "fail"} => depth'[t] <= Cur(t)' /\ Cur(t)' <= Size(t)'
        /\ pc'[t] \in {"compare", "advance"} => Cur(t)' < Size(t)' /\ saw'[t] = Cur(t)'
        /\ pc'[t] = "compare" => depth'[t] <= Cur(t)'
        /\ pc'[t] = "advance" => depth'[t] <= Cur(t)' + 1
  BY DEF CursorOK
<1>1. CASE NextPattern(t)
  <2>1. CASE index[t] > Len(patterns)
    <3>1. pc'[t] = "done"
      BY <1>1, <2>1, <1>t, LenProperties DEF NextPattern, TypeOK
    <3> QED BY <3>1
  <2>2. CASE index[t] <= Len(patterns)
    <3>1. index[t] \in DOMAIN cursor /\ index[t] \in DOMAIN patterns
      BY <2>2, <1>t, LenProperties DEF TypeOK
    <3>2. /\ index' = index /\ pc'[t] = "visit" /\ depth'[t] = 0
          /\ cursor' = [cursor EXCEPT ![index[t]] = 0]
      BY <1>1, <2>2, <1>t, LenProperties DEF NextPattern, TypeOK
    <3>3. Cur(t)' = 0
      BY <3>1, <3>2 DEF Cur
    <3>4. patterns[index[t]] \in Policy
      BY <1>t, <3>1, ElementOfSeq, LenProperties DEF TypeOK
    <3>5. Size(t) \in Nat
      BY <3>4, FilterAssumption DEF Size, Pattern, MaxNodes
    <3> QED BY <3>2, <3>3, <3>5, <1>s
  <2> QED BY <2>1, <2>2, <1>t, LenProperties DEF TypeOK
<1>2. CASE Visit(t)
  <2>1. /\ pc[t] = "visit" /\ UNCHANGED <<cursor, index, depth>>
        /\ saw'[t] = Cur(t) /\ pc'[t] \in {"done", "fail", "compare"}
        /\ pc'[t] = "compare" => ~PatternDone(t)
    BY <1>2, <1>t DEF Visit, TypeOK, Cur, Ended
  <2>2. Cur(t)' = Cur(t) /\ Size(t)' = Size(t)
    BY <2>1, <1>s DEF Cur
  <2>3. pc'[t] = "compare" => Cur(t) < Size(t)
    <3>1. pc'[t] = "compare" => ~(Cur(t) >= Size(t))
      BY <2>1 DEF PatternDone, Cur, Size
    <3>2. Cur(t) \in Nat /\ Size(t) \in Nat
      BY <2>1, <1>i
    <3> QED BY <3>1, <3>2
  <2>4. depth[t] <= Cur(t) /\ Cur(t) <= Size(t)
    BY <2>1 DEF CursorOK
  <2> QED BY <2>1, <2>2, <2>3, <2>4
<1>3. CASE Compare(t)
  <2>1. /\ pc[t] = "compare" /\ UNCHANGED <<cursor, index, saw>>
        /\ \/ pc'[t] = "advance" /\ depth'[t] = depth[t] + 1
           \/ pc'[t] \in {"advance", "fail"} /\ depth'[t] = depth[t]
    BY <1>3, <1>t DEF Compare, TypeOK
  <2>2. Cur(t)' = Cur(t) /\ Size(t)' = Size(t)
    BY <2>1, <1>s DEF Cur
  <2>3. depth[t] <= Cur(t) /\ Cur(t) < Size(t) /\ saw[t] = Cur(t)
    BY <2>1 DEF CursorOK
  <2>4. Cur(t) <= Size(t) /\ depth[t] <= Cur(t) + 1 /\ depth[t] + 1 <= Cur(t) + 1
    BY <2>1, <2>3, <1>i
  <2> QED BY <2>1, <2>2, <2>3, <2>4
<1>4. CASE Advance(t)
  <2>1. /\ pc[t] = "advance" /\ pc'[t] = "visit" /\ UNCHANGED <<index, depth>>
        /\ \E p \in {Cur(t), saw[t]} : cursor' = [cursor EXCEPT ![index[t]] = (p + 1) % 256]
    BY <1>4, <1>t DEF Advance, TypeOK, Cur
  <2>2. saw[t] = Cur(t) /\ Cur(t) < Size(t) /\ depth[t] <= Cur(t) + 1
    BY <2>1 DEF CursorOK
  <2>3. Cur(t)' = (Cur(t) + 1) % 256
    BY <2>1, <2>2, <1>i DEF Cur
  <2>4. Cur(t)' = Cur(t) + 1 /\ Cur(t) + 1 <= Size(t)
    BY <2>1, <2>2, <2>3, <1>i, OneFurther
  <2>5. Size(t)' = Size(t)
    BY <2>1, <1>s
  <2> QED BY <2>1, <2>2, <2>4, <2>5
<1>5. CASE Fail(t)
  <2>1. CASE depth[t] = 0
    <3>1. pc'[t] = "pattern"
      BY <1>5, <2>1, <1>t DEF Fail, TypeOK
    <3> QED BY <3>1
  <2>2. CASE depth[t] > 0
    <3>1. /\ pc[t] = "fail" /\ pc'[t] = "visit" /\ index' = index
          /\ depth'[t] = depth[t] - 1
          /\ cursor' = [cursor EXCEPT ![index[t]] = (Cur(t) + 255) % 256]
      BY <1>5, <2>2, <1>t DEF Fail, TypeOK, Cur
    <3>2. depth[t] <= Cur(t) /\ Cur(t) <= Size(t)
      BY <3>1 DEF CursorOK
    <3>3. Cur(t)' = (Cur(t) + 255) % 256
      BY <3>1, <1>i DEF Cur
    <3>4. Cur(t)' = Cur(t) - 1 /\ depth[t] - 1 <= Cur(t) - 1
      BY <3>1, <3>2, <3>3, <2>2, <1>i, OneBack
    <3>5. Cur(t) - 1 <= Size(t) /\ Size(t)' = Size(t)
      BY <3>1, <3>2, <1>i, <1>s
    <3> QED BY <3>1, <3>4, <3>5
  <2> QED BY <2>1, <2>2, <1>t DEF TypeOK
<1> QED BY <1>1, <1>2, <1>3, <1>4, <1>5 DEF Match

\* A list that grows at its end keeps what it has.
LEMMA AppendKeeps ==
  ASSUME NEW S, NEW s \in Seq(S), NEW e, NEW i \in DOMAIN s
  PROVE  Append(s, e)[i] = s[i]
  OBVIOUS

\* What the watcher adds to the list is behind the pattern that t is at.
LEMMA AddCursor ==
  ASSUME TInv, CursorOK, NEW t \in Thread, Thread = {t}, SetPolicies \/ FilterAdd
  PROVE  CursorOK'
<1>1. UNCHANGED <<pc, index, depth, saw>>
  BY DEF SetPolicies, FilterAdd, locals
<1>2. pc[t] \in Matching => Cur(t)' = Cur(t) /\ Size(t)' = Size(t)
  <2> SUFFICES ASSUME pc[t] \in Matching PROVE Cur(t)' = Cur(t) /\ Size(t)' = Size(t)
    OBVIOUS
  <2>1. index[t] \in DOMAIN patterns /\ index[t] \in DOMAIN cursor
    BY CursorSizes
  <2>2. \/ UNCHANGED <<patterns, cursor>>
        \/ \E e : patterns' = Append(patterns, e) /\ cursor' = Append(cursor, 0)
    BY DEF SetPolicies, FilterAdd
  <2>3. patterns \in Seq(Policy) /\ cursor \in Seq(0..255)
    BY DEF TInv, TypeOK
  <2>4. cursor'[index[t]] = cursor[index[t]]
    <3>1. CASE cursor' = Append(cursor, 0)
      <4>1. Append(cursor, 0)[index[t]] = cursor[index[t]]
        BY <2>1, <2>3, AppendKeeps
      <4> QED BY <3>1, <4>1
    <3>2. CASE cursor' = cursor
      BY <3>2
    <3> QED BY <2>2, <3>1, <3>2
  <2>5. patterns'[index[t]] = patterns[index[t]]
    <3>1. ASSUME NEW e, patterns' = Append(patterns, e)
          PROVE  patterns'[index[t]] = patterns[index[t]]
      <4>1. Append(patterns, e)[index[t]] = patterns[index[t]]
        BY <2>1, <2>3, AppendKeeps
      <4> QED BY <3>1, <4>1
    <3>2. CASE patterns' = patterns
      BY <3>2
    <3> QED BY <2>2, <3>1, <3>2
  <2> QED BY <2>4, <2>5, <1>1 DEF Cur, Size, Pattern
<1> QED BY <1>1, <1>2 DEF CursorOK, Matching

\* A new match does not touch the cursors before it is at a pattern.
LEMMA StepCursor ==
  ASSUME TInv, CursorOK, NEW t \in Thread, Thread = {t}, [Next]_vars
  PROVE  CursorOK'
<1>1. CASE UNCHANGED vars
  BY <1>1 DEF CursorOK, Cur, Size, Pattern, vars, shared, locals
<1>2. CASE Match(t)
  BY <1>2, AloneCursor
<1>3. ASSUME NEW f \in Path, FilterMatch(t, f) PROVE CursorOK'
  <2>1. pc'[t] \in {"pattern", "done"}
    BY <1>3 DEF FilterMatch, GoTo, TInv, TypeOK
  <2> QED BY <2>1 DEF CursorOK
<1>4. CASE SetPolicies \/ FilterAdd
  BY <1>4, AddCursor
<1> QED BY <1>1, <1>2, <1>3, <1>4 DEF Next

\* With one VM, hence one listening thread, no node is read that a pattern or a
\* path does not have, and no cursor wraps: any patterns, any paths, any number
\* of restarts.  With two threads FilterShared shows what the cursors come to.
THEOREM OneVmIndexInRange ==
  ASSUME NEW t \in Thread, Thread = {t}
  PROVE  Spec => []IndexInRange
<1>1. Init => CursorOK
  BY DEF Init, CursorOK
<1>2. TInv /\ CursorOK /\ [Next]_vars => CursorOK'
  BY StepCursor
<1>3. TInv /\ CursorOK => IndexInRange
  <2> SUFFICES ASSUME TInv, CursorOK PROVE IndexInRange
    OBVIOUS
  <2>1. ASSUME pc[t] = "compare" PROVE ~PatternDone(t) /\ ~PathDone(t)
    <3>1. Cur(t) \in Nat /\ Size(t) \in Nat /\ Cur(t) < Size(t)
      BY <2>1, CursorSizes DEF Matching, CursorOK
    <3>2. ~(Cur(t) >= Size(t))
      BY <3>1
    <3>3. pos[t] < Len(path[t]) /\ pos[t] \in 0..MaxNodes
      BY <2>1 DEF TInv, TypeOK, OwnOK
    <3>4. pos[t] \in Nat /\ Len(path[t]) \in Nat
      BY <3>3, PathLength DEF TInv, MaxNodes
    <3>5. ~(pos[t] >= Len(path[t]))
      BY <3>3, <3>4
    <3> QED BY <3>2, <3>5 DEF PatternDone, PathDone, Cur, Size
  <2>2. ASSUME pc[t] = "fail", depth[t] > 0 PROVE cursor[index[t]] > 0
    <3>1. Cur(t) \in Nat /\ depth[t] \in Nat /\ depth[t] <= Cur(t)
      BY <2>2, CursorSizes DEF Matching, CursorOK
    <3>2. Cur(t) > 0
      BY <3>1, <2>2
    <3> QED BY <3>2 DEF Cur
  <2> QED BY <2>1, <2>2 DEF IndexInRange
<1>4. Spec => []CursorOK
  BY <1>1, <1>2, TInvInvariant, PTL DEF Spec
<1> QED BY <1>3, <1>4, TInvInvariant, PTL

-----------------------------------------------------------------------------
(* Sequences of names, put one after the other.                              *)

\* A set of naturals that is not empty has a least element.
LEMMA LeastNumber ==
  ASSUME NEW found \in SUBSET Nat, found # {}
  PROVE  \E i \in found : \A j \in found : i <= j
<1>0. \E i \in found : \A j \in found : ~(<<j, i>> \in OpToRel(<, Nat))
  BY NatLessThanWellFounded, WFMin
<1>1. PICK i \in found : \A j \in found : ~(<<j, i>> \in OpToRel(<, Nat))
  BY <1>0
<1>2. ASSUME NEW j \in found PROVE i <= j
  <2>1. j < i => <<j, i>> \in OpToRel(<, Nat)
    BY Zenon DEF OpToRel
  <2>2. ~(j < i)
    BY <1>1, <2>1, Zenon
  <2> QED BY <2>2
<1> QED BY <1>2

\* What 0 has, and each number up to n hands to the next, n has.
LEMMA UpTo ==
  ASSUME NEW S, NEW n \in Nat, 0 \in S, \A i \in 0..(n - 1) : i \in S => i + 1 \in S
  PROVE  0..n \subseteq S
<1> SUFFICES ASSUME NEW k \in 0..n, k \notin S PROVE FALSE
  OBVIOUS
<1>1. PICK i \in (0..n) \ S : \A j \in (0..n) \ S : i <= j
  <2>1. (0..n) \ S \in SUBSET Nat /\ (0..n) \ S # {}
    OBVIOUS
  <2> QED BY <2>1, LeastNumber
<1>2. i \in 1..n /\ i - 1 \in 0..(n - 1) /\ (i - 1) + 1 = i
  BY <1>1
<1>3. i - 1 \in (0..n) \ S
  BY <1>1, <1>2
<1> QED BY <1>1, <1>2, <1>3

\* What the first names come to, for each number of them.
Joined(s, upto) ==
  /\ upto \in [0..Len(s) -> Name] /\ upto[0] = <<>>
  /\ \A i \in 1..Len(s) : upto[i] = upto[i - 1] \o s[i]

LEMMA JoinedExists ==
  ASSUME NEW s \in Seq(Name) PROVE \E upto : Joined(s, upto)
<1> DEFINE Good(m, g) == /\ g \in [0..m -> Name] /\ g[0] = <<>>
                         /\ \A i \in 1..m : g[i] = g[i - 1] \o s[i]
           S == {m \in 0..Len(s) : \E g : Good(m, g)}
<1>0. Len(s) \in Nat /\ \A i \in 1..Len(s) : s[i] \in Name
  BY LenProperties, ElementOfSeq
<1>1. 0 \in S
  <2>1. Good(0, [i \in 0..0 |-> <<>>])
    BY DEF Name
  <2>2. 0 \in 0..Len(s)
    BY <1>0
  <2> HIDE DEF Good
  <2> QED BY <2>1, <2>2
<1>2. ASSUME NEW m \in 0..(Len(s) - 1), m \in S PROVE m + 1 \in S
  <2>1. PICK g : Good(m, g)
    BY <1>2
  <2> DEFINE h == [i \in 0..(m + 1) |-> IF i = m + 1 THEN g[m] \o s[m + 1] ELSE g[i]]
  <2>2. m \in Nat /\ m + 1 \in 1..Len(s) /\ m + 1 \in 0..Len(s) /\ m \in 0..m
    BY <1>0
  <2>3. g[m] \o s[m + 1] \in Name
    <3>1. g[m] \in Name /\ s[m + 1] \in Name
      BY <1>0, <2>1, <2>2
    <3> QED BY <3>1, ConcatProperties DEF Name
  <2>4. h \in [0..(m + 1) -> Name]
    BY <2>1, <2>2, <2>3
  <2>5. h[0] = <<>> /\ h[m + 1] = h[m] \o s[m + 1] /\ \A i \in 0..m : h[i] = g[i]
    <3>1. \A i \in 0..m : i \in 0..(m + 1) /\ i # m + 1
      BY <2>2
    <3>2. m + 1 \in 0..(m + 1) /\ 0 \in 0..m
      BY <2>2
    <3>3. h[m + 1] = g[m] \o s[m + 1] /\ \A i \in 0..m : h[i] = g[i]
      BY <3>1, <3>2, Zenon
    <3> HIDE DEF h
    <3> QED BY <2>1, <2>2, <3>2, <3>3
  <2>6. \A i \in 1..(m + 1) : i = m + 1 \/ (i \in 1..m /\ i \in 0..m /\ i - 1 \in 0..m)
    BY <2>2
  <2> HIDE DEF h
  <2>7. \A i \in 1..(m + 1) : h[i] = h[i - 1] \o s[i]
    <3> SUFFICES ASSUME NEW i \in 1..(m + 1) PROVE h[i] = h[i - 1] \o s[i]
      OBVIOUS
    <3>1. CASE i = m + 1
      <4>1. i - 1 = m
        BY <2>2, <3>1
      <4> QED BY <2>5, <3>1, <4>1
    <3>2. CASE i # m + 1
      BY <2>1, <2>5, <2>6, <3>2
    <3> QED BY <3>1, <3>2
  <2>8. Good(m + 1, h)
    BY <2>4, <2>5, <2>7
  <2> HIDE DEF Good
  <2> QED BY <2>2, <2>8
<1>3. Len(s) \in S
  <2> HIDE DEF S
  <2>1. 0..Len(s) \subseteq S
    BY <1>0, <1>1, <1>2, UpTo
  <2> QED BY <1>0, <2>1
<1> QED BY <1>3 DEF Joined

LEMMA FlattenIs ==
  ASSUME NEW s \in Seq(Name), NEW upto, Joined(s, upto)
  PROVE  FlattenSeq(s) = upto[Len(s)]
<1>0. Len(s) \in Nat /\ \A i \in 1..Len(s) : s[i] \in Name
  BY LenProperties, ElementOfSeq
<1>1. CASE Len(s) = 0
  <2>1. s = <<>>
    BY <1>1, EmptySeq
  <2> QED BY <1>1, <2>1 DEF FlattenSeq, Joined
<1>2. CASE Len(s) # 0
  <2> DEFINE first == [i \in 1..Len(s) |-> upto[i]]
  <2>1. upto[1] = s[1]
    <3>1. 1 \in 1..Len(s) /\ 1 - 1 = 0
      BY <1>0, <1>2
    <3>2. upto[1] = upto[0] \o s[1] /\ s[1] \in Seq(STRING)
      BY <1>0, <3>1 DEF Joined, Name
    <3> QED BY <3>2, ConcatEmptySeq DEF Joined
  <2>2. first = [i \in 1..Len(s) |-> IF i = 1 THEN s[i] ELSE first[i - 1] \o s[i]]
    <3>1. \A i \in 1..Len(s) : i # 1 => i - 1 \in 1..Len(s)
      BY <1>0
    <3> QED BY <2>1, <3>1 DEF Joined
  <2> HIDE DEF first
  <2>3. PICK g : /\ g = [i \in 1..Len(s) |-> IF i = 1 THEN s[i] ELSE g[i - 1] \o s[i]]
                 /\ FlattenSeq(s) = g[Len(s)]
    BY <1>2, <2>2 DEF FlattenSeq
  <2> DEFINE S == {i \in 0..Len(s) : i # 0 => g[i] = upto[i]}
  <2>4. 0 \in S
    BY <1>0
  <2>5. ASSUME NEW i \in 0..(Len(s) - 1), i \in S PROVE i + 1 \in S
    <3>1. i + 1 \in 1..Len(s) /\ i + 1 \in 0..Len(s) /\ (i + 1) - 1 = i
      BY <1>0
    <3>2. g[i + 1] = IF i + 1 = 1 THEN s[i + 1] ELSE g[i] \o s[i + 1]
      BY <2>3, <3>1
    <3>3. upto[i + 1] = upto[i] \o s[i + 1]
      BY <3>1 DEF Joined
    <3>4. CASE i = 0
      BY <2>1, <3>1, <3>2, <3>4
    <3>5. CASE i # 0
      <4>1. g[i] = upto[i] /\ i + 1 # 1
        BY <2>5, <3>5
      <4>2. g[i + 1] = upto[i + 1]
        BY <3>2, <3>3, <4>1, Zenon
      <4> QED BY <3>1, <4>2
    <3> QED BY <3>4, <3>5
  <2>6. Len(s) \in S
    <3> HIDE DEF S
    <3>1. 0..Len(s) \subseteq S
      BY <1>0, <2>4, <2>5, UpTo
    <3> QED BY <1>0, <3>1
  <2> QED BY <1>2, <2>3, <2>6
<1> QED BY <1>1, <1>2

\* The offset of a name, and the characters from there.
LEMMA JoinedOffset ==
  ASSUME NEW s \in Seq(Name), NEW upto, Joined(s, upto), NEW m \in 0..Len(s)
  PROVE  Offset(s, m) = Len(upto[m])
<1>0. Len(s) \in Nat /\ m \in Nat /\ m <= Len(s)
  BY LenProperties
<1> DEFINE r == SubSeq(s, 1, m)
           some == [i \in 0..m |-> upto[i]]
<1>1. r \in Seq(Name) /\ Len(r) = m /\ \A i \in 1..m : r[i] = s[i]
  BY <1>0
<1>2. Joined(r, some)
  <2>1. some \in [0..m -> Name] /\ some[0] = <<>>
    BY <1>0 DEF Joined
  <2>2. ASSUME NEW i \in 1..m PROVE some[i] = some[i - 1] \o r[i]
    <3>1. i \in 1..Len(s) /\ some[i] = upto[i] /\ some[i - 1] = upto[i - 1]
      BY <1>0
    <3>2. upto[i] = upto[i - 1] \o s[i]
      BY <3>1 DEF Joined
    <3>3. r[i] = s[i]
      BY <1>1
    <3> QED BY <3>1, <3>2, <3>3, Zenon
  <2> HIDE DEF some, r
  <2> QED BY <1>1, <2>1, <2>2 DEF Joined
<1> HIDE DEF r
<1>3. FlattenSeq(r) = some[m]
  BY <1>1, <1>2, FlattenIs
<1>4. some[m] = upto[m]
  BY <1>0
<1> QED BY <1>3, <1>4 DEF Offset, r

LEMMA TwoNames ==
  ASSUME NEW a \in Name, NEW b \in Name
  PROVE  /\ Len(a) \in Nat /\ Len(b) \in Nat /\ Len(a \o b) = Len(a) + Len(b)
         /\ \A k \in 1..Len(a) : k \in 1..Len(a \o b) /\ (a \o b)[k] = a[k]
         /\ \A k \in 1..Len(b) : Len(a) + k \in 1..Len(a \o b) /\ (a \o b)[Len(a) + k] = b[k]
<1>1. /\ Len(a) \in Nat /\ Len(b) \in Nat /\ Len(a \o b) = Len(a) + Len(b)
      /\ \A k \in 1..(Len(a) + Len(b)) : (a \o b)[k] = IF k <= Len(a) THEN a[k] ELSE b[k - Len(a)]
  BY ConcatProperties, LenProperties DEF Name
<1>2. \A k \in 1..Len(a) : k \in 1..(Len(a) + Len(b)) /\ k <= Len(a)
  BY <1>1
<1>3. \A k \in 1..Len(b) : /\ Len(a) + k \in 1..(Len(a) + Len(b)) /\ ~(Len(a) + k <= Len(a))
                           /\ (Len(a) + k) - Len(a) = k
  BY <1>1
<1> QED BY <1>1, <1>2, <1>3

\* Characters stay where they are when names are added.
LEMMA JoinedChars ==
  ASSUME NEW s \in Seq(Name), NEW upto, Joined(s, upto),
         NEW m \in 0..Len(s), NEW k \in 1..Len(upto[m])
  PROVE  k \in 1..Len(upto[Len(s)]) /\ upto[Len(s)][k] = upto[m][k]
<1>0. Len(s) \in Nat /\ m \in Nat /\ m <= Len(s) /\ \A i \in 1..Len(s) : s[i] \in Name
  BY LenProperties, ElementOfSeq
<1> DEFINE S == {i \in 0..(Len(s) - m) : k \in 1..Len(upto[m + i]) /\ upto[m + i][k] = upto[m][k]}
<1>1. 0 \in S
  BY <1>0
<1>2. ASSUME NEW i \in 0..((Len(s) - m) - 1), i \in S PROVE i + 1 \in S
  <2>1. m + i \in 0..Len(s) /\ m + i + 1 \in 1..Len(s) /\ (m + i + 1) - 1 = m + i
        /\ i + 1 \in 0..(Len(s) - m) /\ m + (i + 1) = m + i + 1
    BY <1>0
  <2>2. upto[m + i] \in Name /\ s[m + i + 1] \in Name
        /\ upto[m + i + 1] = upto[m + i] \o s[m + i + 1]
    BY <1>0, <2>1 DEF Joined
  <2>3. k \in 1..Len(upto[m + i]) /\ upto[m + i][k] = upto[m][k]
    BY <1>2
  <2> HIDE DEF S
  <2>4. k \in 1..Len(upto[m + i + 1]) /\ upto[m + i + 1][k] = upto[m + i][k]
    <3>1. \A j \in 1..Len(upto[m + i]) :
            /\ j \in 1..Len(upto[m + i] \o s[m + i + 1])
            /\ (upto[m + i] \o s[m + i + 1])[j] = upto[m + i][j]
      BY <2>2, TwoNames
    <3> QED BY <2>2, <2>3, <3>1, Zenon
  <2> QED BY <2>1, <2>3, <2>4 DEF S
<1>3. Len(s) - m \in S
  <2> HIDE DEF S
  <2>1. Len(s) - m \in Nat
    BY <1>0
  <2>2. 0..(Len(s) - m) \subseteq S
    BY <1>1, <1>2, <2>1, UpTo
  <2> QED BY <2>1, <2>2
<1> QED BY <1>0, <1>3

\* The characters of a name are found from its offset, and back from the next one.
LEMMA NameChars ==
  ASSUME NEW f \in Seq(Name), NEW e \in 0..(Len(f) - 1), NEW k \in 1..Len(f[e + 1])
  PROVE  /\ CharAt(f, Offset(f, e) + k) = f[e + 1][k]
         /\ CharAt(f, Offset(f, e + 1) - (Len(f[e + 1]) - k)) = f[e + 1][k]
<1>0. Len(f) \in Nat /\ e + 1 \in 1..Len(f) /\ e \in 0..Len(f) /\ e + 1 \in 0..Len(f)
      /\ (e + 1) - 1 = e
  BY LenProperties
<1>1. PICK upto : Joined(f, upto)
  BY JoinedExists
<1>2. f[e + 1] \in Name /\ upto[e] \in Name /\ upto[e + 1] \in Name
      /\ upto[Len(f)] \in Name /\ upto[e + 1] = upto[e] \o f[e + 1]
  <2>1. f[e + 1] \in Name
    BY <1>0, ElementOfSeq
  <2>2. Len(f) \in 0..Len(f)
    BY <1>0
  <2> QED BY <1>0, <1>1, <2>1, <2>2 DEF Joined
<1>3. /\ Len(upto[e + 1]) = Len(upto[e]) + Len(f[e + 1])
      /\ Len(upto[e]) + k \in 1..Len(upto[e + 1])
      /\ upto[e + 1][Len(upto[e]) + k] = f[e + 1][k]
      /\ Len(upto[e]) \in Nat /\ Len(f[e + 1]) \in Nat
  <2>1. /\ Len(upto[e]) \in Nat /\ Len(f[e + 1]) \in Nat
        /\ Len(upto[e] \o f[e + 1]) = Len(upto[e]) + Len(f[e + 1])
        /\ \A j \in 1..Len(f[e + 1]) :
             /\ Len(upto[e]) + j \in 1..Len(upto[e] \o f[e + 1])
             /\ (upto[e] \o f[e + 1])[Len(upto[e]) + j] = f[e + 1][j]
    BY <1>2, TwoNames
  <2> QED BY <1>2, <2>1, Zenon
<1>4. /\ Len(upto[e]) + k \in 1..Len(upto[Len(f)])
      /\ upto[Len(f)][Len(upto[e]) + k] = upto[e + 1][Len(upto[e]) + k]
  <2> DEFINE j == Len(upto[e]) + k
  <2>1. e + 1 \in 0..Len(f) /\ j \in 1..Len(upto[e + 1])
    BY <1>0, <1>3
  <2> HIDE DEF j
  <2>2. j \in 1..Len(upto[Len(f)]) /\ upto[Len(f)][j] = upto[e + 1][j]
    BY <1>1, <2>1, JoinedChars
  <2> QED BY <2>2 DEF j
<1>5. Str(f) = upto[Len(f)] /\ DOMAIN Str(f) = 1..Len(upto[Len(f)])
  BY <1>1, <1>2, FlattenIs DEF Str, Name
<1>6. Offset(f, e) = Len(upto[e]) /\ Offset(f, e + 1) = Len(upto[e + 1])
  BY <1>0, <1>1, JoinedOffset
<1>7. Offset(f, e + 1) - (Len(f[e + 1]) - k) = Len(upto[e]) + k
  <2>1. \A x, y \in Nat : (x + y) - (y - k) = x + k
    OBVIOUS
  <2> QED BY <1>3, <1>6, <2>1
<1> QED BY <1>3, <1>4, <1>5, <1>6, <1>7 DEF CharAt

-----------------------------------------------------------------------------
(* What names and patterns mean, and what is compared.                       *)

LEMMA NameMeansIs ==
  ASSUME NEW w, NEW x
  PROVE  NameMeans(w, x) <=>
           \E ends \in [0..Len(w) -> 0..Len(x)] :
             /\ ends[0] = 0 /\ ends[Len(w)] = Len(x)
             /\ \A i \in 1..Len(w) :
                  IF w[i] = Star THEN ends[i - 1] <= ends[i]
                  ELSE ends[i] = ends[i - 1] + 1 /\ w[i] = x[ends[i]]
  BY DEF NameMeans, Expands

LEMMA MeansIs ==
  ASSUME NEW w, NEW f
  PROVE  Means(w, f) <=>
           \E ends \in [0..Len(w) -> 0..Len(f)] :
             /\ ends[0] = 0 /\ ends[Len(w)] = Len(f)
             /\ \A i \in 1..Len(w) :
                  IF w[i] = <<Star, Star>> THEN ends[i - 1] <= ends[i]
                  ELSE ends[i] = ends[i - 1] + 1 /\ NameMeans(w[i], f[ends[i]])
  BY DEF Means, Expands

\* What grows by one with each step from a to b.
LEMMA Counts ==
  ASSUME NEW a \in Nat, NEW b \in Nat, a <= b, NEW ends, \A i \in a..b : ends[i] \in Nat,
         \A i \in (a + 1)..b : ends[i] = ends[i - 1] + 1
  PROVE  \A i \in a..b : ends[i] = ends[a] + (i - a)
<1> DEFINE S == {j \in 0..(b - a) : ends[a + j] = ends[a] + j}
<1>1. b - a \in Nat /\ a \in a..b
  OBVIOUS
<1>2. 0 \in S
  BY <1>1
<1>3. ASSUME NEW j \in 0..(b - a - 1), j \in S PROVE j + 1 \in S
  <2>1. a + (j + 1) \in (a + 1)..b /\ (a + (j + 1)) - 1 = a + j /\ j + 1 \in 0..(b - a)
    OBVIOUS
  <2> QED BY <1>1, <1>3, <2>1
<1>4. 0..(b - a) \subseteq S
  <2> HIDE DEF S
  <2> QED BY <1>1, <1>2, <1>3, UpTo
<1>5. \A i \in a..b : i - a \in 0..(b - a) /\ a + (i - a) = i
  OBVIOUS
<1> QED BY <1>4, <1>5

LEMMA FixedIs ==
  ASSUME NEW name \in Name, NEW s \in 1..Len(name), name[s] = Star, OneStar(name)
  PROVE  FixedFront(name) = s - 1 /\ FixedBack(name) = Len(name) - s
<1>1. Len(name) \in Nat /\ DOMAIN name = 1..Len(name) /\ 1 \in DOMAIN name /\ Len(name) \in DOMAIN name
      /\ Head(name) = name[1] /\ Last(name) = name[Len(name)]
  BY DEF Name, Last
<1>2. \A i \in 1..Len(name) : name[i] = Star <=> i = s
  BY <1>1 DEF OneStar
<1>3. {i \in 1..Len(name) : name[i] = Star} = {s}
  BY <1>2
<1>4. Min({s}) = s /\ Max({s}) = s
  BY DEF Min, Max
<1>5. SelectInSeq(name, LAMBDA c : c = Star) = s /\ SelectLastInSeq(name, LAMBDA c : c = Star) = s
  BY <1>3, <1>4 DEF SelectInSeq, SelectLastInSeq
<1>6. (Head(name) = Star <=> s = 1) /\ (Last(name) = Star <=> s = Len(name))
  BY <1>1, <1>2
<1> QED BY <1>1, <1>5, <1>6 DEF FixedFront, FixedBack

\* A name that has one star is found to match the names it means.
LEMMA MixedHolds ==
  ASSUME NEW f \in Seq(Name), NEW e \in 0..(Len(f) - 1), NEW name \in Name,
         NEW s \in 1..Len(name), name[s] = Star, OneStar(name), NameMeans(name, f[e + 1])
  PROVE  MixedMatches(name, f, e)
<1> DEFINE x == f[e + 1]
           n == Len(name)
<1>0. n \in Nat /\ Len(x) \in Nat /\ s \in Nat /\ s <= n
  <2>1. e + 1 \in 1..Len(f)
    BY LenProperties
  <2>2. x \in Name
    BY <2>1, ElementOfSeq
  <2> QED BY <2>2, LenProperties DEF Name
<1>1. PICK ends \in [0..n -> 0..Len(x)] :
        /\ ends[0] = 0 /\ ends[n] = Len(x)
        /\ \A i \in 1..n : IF name[i] = Star THEN ends[i - 1] <= ends[i]
                           ELSE ends[i] = ends[i - 1] + 1 /\ name[i] = x[ends[i]]
  BY NameMeansIs
<1>2. \A i \in 1..n : i # s => name[i] # Star
  BY <1>0 DEF OneStar, Name
<1> HIDE DEF n
<1>3. \A i \in 0..n : ends[i] \in Nat /\ ends[i] <= Len(x)
  BY <1>0, <1>1
<1>4. ASSUME NEW k \in 1..(s - 1) PROVE name[k] = CharAt(f, Offset(f, e) + k)
  <2>1. \A i \in (0 + 1)..(s - 1) : ends[i] = ends[i - 1] + 1
    <3>1. \A i \in (0 + 1)..(s - 1) : i \in 1..n /\ i # s
      BY <1>0
    <3> QED BY <1>1, <1>2, <3>1, Zenon
  <2>2. s - 1 \in Nat /\ 0 <= s - 1 /\ \A i \in 0..(s - 1) : ends[i] \in Nat
    BY <1>0, <1>3
  <2>3. \A i \in 0..(s - 1) : ends[i] = ends[0] + (i - 0)
    BY <2>1, <2>2, Counts
  <2>4. k \in 1..n /\ k # s /\ k \in 0..(s - 1) /\ k \in 0..n
    BY <1>0
  <2>5. ends[k] = k
    BY <1>1, <2>3, <2>4
  <2>6. name[k] = x[k] /\ k \in 1..Len(x)
    <3>1. name[k] = x[ends[k]]
      BY <1>1, <1>2, <2>4, Zenon
    <3>2. ends[k] <= Len(x) /\ k >= 1
      BY <1>3, <2>4
    <3> HIDE DEF x
    <3> QED BY <1>0, <2>5, <3>1, <3>2
  <2> QED BY <2>6, NameChars
<1>5. ASSUME NEW k \in 0..(n - s - 1) PROVE name[n - k] = CharAt(f, Offset(f, e + 1) - k)
  <2>1. \A i \in (s + 1)..n : ends[i] = ends[i - 1] + 1
    <3>1. \A i \in (s + 1)..n : i \in 1..n /\ i # s
      BY <1>0
    <3> QED BY <1>1, <1>2, <3>1, Zenon
  <2>2. \A i \in s..n : ends[i] \in Nat
    BY <1>0, <1>3
  <2>3. \A i \in s..n : ends[i] = ends[s] + (i - s)
    BY <1>0, <2>1, <2>2, Counts
  <2>4. n - k \in 1..n /\ n - k # s /\ n - k \in s..n /\ n \in s..n /\ s \in 0..n
    BY <1>0
  <2>5. /\ ends[n] = ends[s] + (n - s) /\ ends[n - k] = ends[s] + ((n - k) - s)
        /\ ends[n] = Len(x) /\ ends[s] \in Nat
    BY <1>1, <1>3, <2>3, <2>4
  <2> HIDE DEF x
  <2>6. Len(x) - k \in 1..Len(x) /\ ends[n - k] = Len(x) - k /\ Len(x) - (Len(x) - k) = k
    <3>1. PICK p \in Nat : p = ends[s]
      BY <2>5
    <3>2. Len(x) = p + (n - s) /\ ends[n - k] = p + ((n - k) - s)
      BY <2>5, <3>1
    <3>3. n - s >= k + 1 /\ k \in Nat
      BY <1>0
    <3> QED BY <1>0, <3>2, <3>3
  <2>7. name[n - k] = x[Len(x) - k]
    BY <1>1, <1>2, <2>4, <2>6
  <2>8. CharAt(f, Offset(f, e + 1) - (Len(x) - (Len(x) - k))) = x[Len(x) - k]
    BY <2>6, NameChars DEF x
  <2> QED BY <2>6, <2>7, <2>8
<1>6. FixedFront(name) = s - 1 /\ FixedBack(name) = n - s
  BY FixedIs DEF n
<1> QED BY <1>0, <1>4, <1>5, <1>6 DEF MixedMatches, n

\* The kinds of a node that there is.
LEMMA NodeIs ==
  ASSUME NEW w \in Seq(Name), NEW p \in 0..(Len(w) - 1)
  PROVE  /\ w[p + 1] \in Name
         /\ NodeType(w, p) = "double_star" <=> w[p + 1] = <<Star, Star>>
         /\ NodeType(w, p) = "star" <=> w[p + 1] = <<Star>>
         /\ NodeType(w, p) = "mixed" => \E s \in 1..Len(w[p + 1]) : w[p + 1][s] = Star
         /\ NodeType(w, p) = "character" => \A i \in 1..Len(w[p + 1]) : w[p + 1][i] # Star
         /\ NodeType(w, p) \in {"character", "star", "mixed", "double_star"}
<1>1. p + 1 \in 1..Len(w) /\ ~(p >= Len(w))
  BY LenProperties
<1>2. w[p + 1] \in Name
  BY <1>1, ElementOfSeq
<1> DEFINE name == w[p + 1]
<1>3. DOMAIN name = 1..Len(name)
  BY <1>2, LenProperties DEF Name
<1>4. NodeType(w, p) = CASE name = <<Star>>       -> "star"
                         [] name = <<Star, Star>> -> "double_star"
                         [] OTHER -> IF Star \in Range(name) THEN "mixed" ELSE "character"
  BY <1>1 DEF NodeType
<1>5. <<Star>> # <<Star, Star>>
  OBVIOUS
<1>6. Star \in Range(name) <=> \E s \in 1..Len(name) : name[s] = Star
  BY <1>3 DEF Range
<1> HIDE DEF name
<1>7. CASE name = <<Star>>
  BY <1>4, <1>5, <1>7, <1>2 DEF name
<1>8. CASE name = <<Star, Star>>
  BY <1>4, <1>5, <1>8, <1>2 DEF name
<1>9. CASE name # <<Star>> /\ name # <<Star, Star>>
  BY <1>2, <1>4, <1>6, <1>9 DEF name
<1> QED BY <1>7, <1>8, <1>9

\* Without a star, a name means itself.
LEMMA PlainMeans ==
  ASSUME NEW w \in Name, NEW x \in Name, \A i \in 1..Len(w) : w[i] # Star
  PROVE  NameMeans(w, x) <=> w = x
<1>0. Len(w) \in Nat /\ Len(x) \in Nat
  BY LenProperties DEF Name
<1>1. ASSUME NameMeans(w, x) PROVE w = x
  <2>1. PICK ends \in [0..Len(w) -> 0..Len(x)] :
          /\ ends[0] = 0 /\ ends[Len(w)] = Len(x)
          /\ \A i \in 1..Len(w) : IF w[i] = Star THEN ends[i - 1] <= ends[i]
                                  ELSE ends[i] = ends[i - 1] + 1 /\ w[i] = x[ends[i]]
    BY <1>1, NameMeansIs
  <2>2. \A i \in (0 + 1)..Len(w) : ends[i] = ends[i - 1] + 1
    BY <2>1
  <2>3. \A i \in 0..Len(w) : ends[i] \in Nat
    BY <2>1
  <2>0. 0 \in Nat /\ 0 <= Len(w)
    BY <1>0
  <2>4. \A i \in 0..Len(w) : ends[i] = ends[0] + (i - 0)
    BY <1>0, <2>0, <2>2, <2>3, Counts
  <2>5. \A i \in 0..Len(w) : ends[i] = i
    BY <2>1, <2>4
  <2>6. Len(w) = Len(x) /\ \A i \in 1..Len(w) : i \in 0..Len(w)
    BY <1>0, <2>1, <2>5
  <2>7. \A i \in 1..Len(w) : w[i] = x[i]
    BY <2>1, <2>5, <2>6
  <2> QED BY <2>6, <2>7, SeqEqual DEF Name
<1>2. ASSUME w = x PROVE NameMeans(w, x)
  <2> DEFINE ends == [i \in 0..Len(w) |-> i]
  <2>1. ends \in [0..Len(w) -> 0..Len(x)] /\ ends[0] = 0 /\ ends[Len(w)] = Len(x)
    BY <1>0, <1>2
  <2>2. \A i \in 1..Len(w) : ends[i] = ends[i - 1] + 1 /\ w[i] = x[ends[i]]
    BY <1>0, <1>2
  <2> HIDE DEF ends
  <2> QED BY <2>1, <2>2, NameMeansIs
<1> QED BY <1>1, <1>2

LEMMA StarMeans ==
  ASSUME NEW x \in Name PROVE NameMeans(<<Star>>, x)
<1> DEFINE ends == [i \in 0..1 |-> IF i = 0 THEN 0 ELSE Len(x)]
<1>0. Len(x) \in Nat /\ Len(<<Star>>) = 1 /\ <<Star>>[1] = Star
  BY LenProperties DEF Name
<1>1. ends \in [0..1 -> 0..Len(x)] /\ ends[0] = 0 /\ ends[1] = Len(x)
  BY <1>0
<1>2. \A i \in 1..1 : <<Star>>[i] = Star /\ ends[i - 1] <= ends[i]
  BY <1>0, <1>1
<1> HIDE DEF ends
<1> QED BY <1>0, <1>1, <1>2, NameMeansIs

\* A name with one star at most matches what it means ...
LEMMA MeantMatches ==
  ASSUME NEW w \in Seq(Name), NEW p \in 0..(Len(w) - 1),
         NEW f \in Seq(Name), NEW e \in 0..(Len(f) - 1),
         w[p + 1] # <<Star, Star>>, OneStar(w[p + 1]), NameMeans(w[p + 1], f[e + 1])
  PROVE  NameMatches(w, p, f, e)
<1>0. w[p + 1] \in Name /\ f[e + 1] \in Name
  BY NodeIs
<1>1. CASE NodeType(w, p) = "character"
  <2>1. w[p + 1] = f[e + 1]
    BY <1>0, <1>1, NodeIs, PlainMeans
  <2> QED BY <1>1, <2>1 DEF NameMatches
<1>2. CASE NodeType(w, p) = "mixed"
  <2>1. MixedMatches(w[p + 1], f, e)
    BY <1>0, <1>2, NodeIs, MixedHolds
  <2> QED BY <1>2, <2>1 DEF NameMatches
<1>3. CASE NodeType(w, p) = "star"
  BY <1>3 DEF NameMatches
<1> QED BY <1>1, <1>2, <1>3, NodeIs

\* ... and a name that is a star, or has none, means what it matches.
LEMMA MatchedMeans ==
  ASSUME NEW w \in Seq(Name), NEW p \in 0..(Len(w) - 1),
         NEW f \in Seq(Name), NEW e \in 0..(Len(f) - 1),
         NodeType(w, p) # "mixed", NameMatches(w, p, f, e)
  PROVE  NameMeans(w[p + 1], f[e + 1])
<1>0. w[p + 1] \in Name /\ f[e + 1] \in Name
  BY NodeIs
<1>1. CASE NodeType(w, p) = "character"
  <2>1. w[p + 1] = f[e + 1]
    BY <1>1 DEF NameMatches
  <2> QED BY <1>0, <1>1, <2>1, NodeIs, PlainMeans
<1>2. CASE NodeType(w, p) = "star"
  BY <1>0, <1>2, NodeIs, StarMeans
<1>3. CASE NodeType(w, p) = "double_star"
  BY <1>3 DEF NameMatches
<1> QED BY <1>1, <1>2, <1>3, NodeIs

\* Without a double star, a pattern means paths of its length, name by name.
LEMMA NameByName ==
  ASSUME NEW w \in Seq(Name), NEW f \in Seq(Name), ~HasDoubleStar(w), Means(w, f)
  PROVE  Len(w) = Len(f) /\ \A i \in 1..Len(w) : NameMeans(w[i], f[i])
<1>0. Len(w) \in Nat /\ Len(f) \in Nat /\ DOMAIN w = 1..Len(w)
  BY LenProperties
<1>1. \A i \in 1..Len(w) : w[i] # <<Star, Star>>
  BY <1>0 DEF HasDoubleStar, Range
<1>2. PICK ends \in [0..Len(w) -> 0..Len(f)] :
        /\ ends[0] = 0 /\ ends[Len(w)] = Len(f)
        /\ \A i \in 1..Len(w) : IF w[i] = <<Star, Star>> THEN ends[i - 1] <= ends[i]
                                ELSE ends[i] = ends[i - 1] + 1 /\ NameMeans(w[i], f[ends[i]])
  BY MeansIs
<1>3. \A i \in (0 + 1)..Len(w) : ends[i] = ends[i - 1] + 1
  BY <1>1, <1>2
<1>4. \A i \in 0..Len(w) : ends[i] \in Nat
  BY <1>2
<1>8. 0 \in Nat /\ 0 <= Len(w)
  BY <1>0
<1>5. \A i \in 0..Len(w) : ends[i] = ends[0] + (i - 0)
  BY <1>0, <1>8, <1>3, <1>4, Counts
<1>6. \A i \in 0..Len(w) : ends[i] = i
  BY <1>2, <1>5
<1>7. Len(w) = Len(f) /\ \A i \in 1..Len(w) : i \in 0..Len(w)
  BY <1>0, <1>2, <1>6
<1> QED BY <1>1, <1>2, <1>6, <1>7

-----------------------------------------------------------------------------
(* How far a match in progress has come, under the same names as Means.      *)

\* The d names of w that lie before its first double star.
Lead(w, d) ==
  /\ d \in 0..Len(w)
  /\ \A i \in 1..d : w[i] # <<Star, Star>>
  /\ d < Len(w) => w[d + 1] = <<Star, Star>>

\* The cursors are at node c of w and node e of f, in a recursion of this depth.
\* Before the double star they are level, and the names behind them match.  The
\* double star may have taken more of f than its one name; a single name that
\* follows it has then matched the last that was taken.
AlignAt(w, f, d, c, e, dep) ==
  /\ c <= Len(w) /\ c <= e
  /\ \A i \in 1..c : i <= d => NameMatches(w, i - 1, f, i - 1)
  /\ c < d \/ d = Len(w) => e = c /\ dep = 0
  /\ dep = 0 \/ dep + d <= c
  /\ c = d + 2 /\ w[d + 2] # <<Star, Star>> => NameMatches(w, d + 1, f, e - 1)

\* A pattern that has been passed has not been missed.
Missed(w, f) == OneStarNames(w) /\ ~HasDoubleStar(w) => ~Means(w, f)

\* AlignAt is kept for the patterns that NoFalseAlarm is about.
Aligned(w, f, c, e, dep) ==
  DoubleStarNearEnd(w) => \A d \in 0..Len(w) : Lead(w, d) => AlignAt(w, f, d, c, e, dep)

\* The match that t has in progress, and the answer it comes to.
MatchOK(t) ==
  /\ index[t] <= Len(patterns) + 1
  /\ \A i \in 1..(index[t] - 1) : Missed(patterns[i].pattern, path[t])
  /\ pc[t] \in {"visit", "compare", "fail"} =>
        Aligned(Pattern(t), path[t], Cur(t), pos[t], depth[t])
  /\ pc[t] = "advance" =>
        Aligned(Pattern(t), path[t], Cur(t) + 1, pos[t] + 1, depth[t])
  /\ pc[t] = "fail" => Missed(Pattern(t), path[t])
  /\ pc[t] \in Matching \cup {"pattern"} => answer[t] = 0
  /\ Answered(t) =>
        /\ index[t] <= Len(patterns)
        /\ DoubleStarNearEnd(Pattern(t)) /\ ~HasMixed(Pattern(t))
           => Means(Pattern(t), path[t])

LEMMA LeadExists ==
  ASSUME NEW w \in Seq(Name) PROVE \E d \in 0..Len(w) : Lead(w, d)
<1> DEFINE P == {i \in 0..Len(w) : i = Len(w) \/ w[i + 1] = <<Star, Star>>}
<1>0. Len(w) \in Nat
  BY LenProperties
<1>1. P \subseteq Nat /\ Len(w) \in P
  BY <1>0
<1>2. PICK d \in P : \A i \in P : d <= i
  <2> HIDE DEF P
  <2> QED BY <1>1, LeastNumber
<1>3. ASSUME NEW i \in 1..d PROVE w[i] # <<Star, Star>>
  <2>1. i - 1 \in 0..Len(w) /\ i - 1 < d /\ (i - 1) + 1 = i
    BY <1>0, <1>2
  <2>2. i - 1 \notin P
    <3>1. d \in Nat /\ i - 1 \in Nat /\ ~(d <= i - 1)
      BY <1>0, <1>1, <2>1
    <3> HIDE DEF P
    <3> QED BY <1>2, <3>1
  <2> QED BY <2>1, <2>2
<1>4. d \in 0..Len(w) /\ (d < Len(w) => w[d + 1] = <<Star, Star>>)
  BY <1>0, <1>2
<1> QED BY <1>3, <1>4 DEF Lead

\* What lies behind a double star that has one name after it at most.
LEMMA NearEndIs ==
  ASSUME NEW w \in Seq(Name), DoubleStarNearEnd(w), NEW d \in 0..Len(w), Lead(w, d)
  PROVE  d = Len(w) \/ (d < Len(w) /\ Len(w) <= d + 2)
<1>0. Len(w) \in Nat
  BY LenProperties
<1>1. ASSUME d < Len(w), ~(Len(w) <= d + 2) PROVE FALSE
  <2>1. d + 1 \in 1..(Len(w) - 2)
    BY <1>0, <1>1
  <2> QED BY <1>1, <2>1 DEF Lead, DoubleStarNearEnd
<1> QED BY <1>0, <1>1

LEMMA AlignStart ==
  ASSUME NEW w \in Seq(Name), NEW f \in Seq(Name), NEW d \in 0..Len(w)
  PROVE  AlignAt(w, f, d, 0, 0, 0)
<1>0. Len(w) \in Nat
  BY LenProperties
<1> QED BY <1>0 DEF AlignAt

\* One name of the path for a double star, and a call of _match.
LEMMA AlignDouble ==
  ASSUME NEW w \in Seq(Name), NEW f \in Seq(Name), NEW d \in 0..Len(w), Lead(w, d),
         NEW c \in Nat, NEW e \in Nat, NEW dep \in Nat, AlignAt(w, f, d, c, e, dep),
         c < Len(w), w[c + 1] = <<Star, Star>>
  PROVE  AlignAt(w, f, d, c + 1, e + 1, dep + 1)
<1>0. Len(w) \in Nat
  BY LenProperties
<1>1. d <= c
  <2>1. ASSUME c < d PROVE FALSE
    <3>1. c + 1 \in 1..d
      BY <2>1
    <3> QED BY <3>1 DEF Lead
  <2> QED BY <2>1
<1>2. d < Len(w) /\ c + 1 <= Len(w)
  BY <1>0, <1>1
<1>3. c + 1 <= e + 1 /\ dep + 1 + d <= c + 1
  BY <1>1 DEF AlignAt
<1>4. \A i \in 1..(c + 1) : i <= d => NameMatches(w, i - 1, f, i - 1)
  <2>1. \A i \in 1..(c + 1) : i <= d => i \in 1..c
    BY <1>1
  <2> QED BY <2>1 DEF AlignAt
<1>5. c + 1 = d + 2 => w[d + 2] = <<Star, Star>>
  OBVIOUS
<1>6. ~(c + 1 < d) /\ ~(d = Len(w))
  BY <1>0, <1>1, <1>2
<1> QED BY <1>2, <1>3, <1>4, <1>5, <1>6 DEF AlignAt

\* A name that matches.
LEMMA AlignName ==
  ASSUME NEW w \in Seq(Name), NEW f \in Seq(Name), NEW d \in 0..Len(w), Lead(w, d),
         NEW c \in Nat, NEW e \in Nat, NEW dep \in Nat, AlignAt(w, f, d, c, e, dep),
         c < Len(w), w[c + 1] # <<Star, Star>>, NameMatches(w, c, f, e)
  PROVE  AlignAt(w, f, d, c + 1, e + 1, dep)
<1>0. Len(w) \in Nat
  BY LenProperties
<1>1. c # d
  BY <1>0 DEF Lead
<1>2. c + 1 <= Len(w) /\ c + 1 <= e + 1 /\ (dep = 0 \/ dep + d <= c + 1)
  BY <1>0 DEF AlignAt
<1>3. c + 1 < d \/ d = Len(w) => c < d
  BY <1>0, <1>1
<1>4. c + 1 < d \/ d = Len(w) => e + 1 = c + 1 /\ dep = 0
  BY <1>3 DEF AlignAt
<1>5. ASSUME NEW i \in 1..(c + 1), i <= d PROVE NameMatches(w, i - 1, f, i - 1)
  <2>1. CASE i = c + 1
    <3>1. c < d
      BY <1>5, <2>1
    <3>2. e = c /\ i - 1 = c
      BY <2>1, <3>1 DEF AlignAt
    <3> QED BY <3>2
  <2>2. CASE i # c + 1
    <3>1. i \in 1..c
      BY <2>2
    <3> QED BY <1>5, <3>1 DEF AlignAt
  <2> QED BY <2>1, <2>2
<1>6. c + 1 = d + 2 => NameMatches(w, d + 1, f, (e + 1) - 1)
  <2>1. c + 1 = d + 2 => c = d + 1 /\ (e + 1) - 1 = e
    OBVIOUS
  <2> QED BY <2>1
<1> QED BY <1>2, <1>4, <1>5, <1>6 DEF AlignAt

\* The step back after a call of _match that has failed.
LEMMA AlignBack ==
  ASSUME NEW w \in Seq(Name), NEW f \in Seq(Name), NEW d \in 0..Len(w), Lead(w, d),
         DoubleStarNearEnd(w),
         NEW c \in Nat, NEW e \in Nat, NEW dep \in Nat, AlignAt(w, f, d, c, e, dep),
         dep > 0
  PROVE  AlignAt(w, f, d, c - 1, e, dep - 1)
<1>0. Len(w) \in Nat
  BY LenProperties
<1>1. dep + d <= c /\ c <= Len(w) /\ c <= e
  BY DEF AlignAt
<1>2. d # Len(w) /\ Len(w) <= d + 2 /\ d < c
  BY <1>0, <1>1, NearEndIs
<1>3. c - 1 <= Len(w) /\ c - 1 <= e /\ (dep - 1) + d <= c - 1
  BY <1>0, <1>1
<1>4. ~(c - 1 < d) /\ c - 1 # d + 2
  BY <1>0, <1>1, <1>2
<1>5. \A i \in 1..(c - 1) : i <= d => NameMatches(w, i - 1, f, i - 1)
  BY DEF AlignAt
<1> QED BY <1>2, <1>3, <1>4, <1>5 DEF AlignAt

\* Both were used up together: the ends that Means asks for.
LEMMA AlignDone ==
  ASSUME NEW w \in Seq(Name), NEW f \in Seq(Name), NEW d \in 0..Len(w), Lead(w, d),
         DoubleStarNearEnd(w), ~HasMixed(w),
         NEW dep \in Nat, AlignAt(w, f, d, Len(w), Len(f), dep)
  PROVE  Means(w, f)
<1>0. Len(w) \in Nat /\ Len(f) \in Nat /\ Len(w) <= Len(f)
  BY LenProperties DEF AlignAt
<1>n. DOMAIN w = 1..Len(w)
  BY LenProperties
<1>1. ASSUME NEW i \in 1..Len(w) PROVE i - 1 \in 0..(Len(w) - 1) /\ (i - 1) + 1 = i
                                        /\ NodeType(w, i - 1) # "mixed"
  BY <1>0, <1>n DEF HasMixed
<1>2. ASSUME NEW i \in 1..d PROVE NameMeans(w[i], f[i])
  <2>1. i \in 1..Len(w) /\ i - 1 \in 0..(Len(f) - 1) /\ (i - 1) + 1 = i
    BY <1>0
  <2>2. NameMatches(w, i - 1, f, i - 1)
    BY <2>1 DEF AlignAt
  <2> QED BY <1>1, <2>1, <2>2, MatchedMeans
<1>3. \A i \in 1..d : w[i] # <<Star, Star>>
  BY DEF Lead
<1>4. CASE d = Len(w)
  <2> DEFINE ends == [i \in 0..Len(w) |-> i]
  <2>1. Len(f) = Len(w)
    BY <1>4 DEF AlignAt
  <2>2. ends \in [0..Len(w) -> 0..Len(f)] /\ ends[0] = 0 /\ ends[Len(w)] = Len(f)
    BY <1>0, <2>1
  <2>3. \A i \in 1..Len(w) : ends[i] = ends[i - 1] + 1 /\ ends[i] = i
    BY <1>0
  <2>4. \A i \in 1..Len(w) : w[i] # <<Star, Star>> /\ NameMeans(w[i], f[ends[i]])
    BY <1>2, <1>3, <1>4, <2>3
  <2> HIDE DEF ends
  <2> QED BY <2>2, <2>3, <2>4, MeansIs
<1>5. CASE d < Len(w) /\ Len(w) <= d + 2
  <2> DEFINE last == IF w[Len(w)] = <<Star, Star>> THEN Len(f) ELSE Len(f) - 1
             ends == [i \in 0..Len(w) |->
                        IF i <= d THEN i ELSE IF i = Len(w) THEN Len(f) ELSE last]
  <2>0. w[d + 1] = <<Star, Star>>
    BY <1>5 DEF Lead
  <2>1. d + 1 < Len(w) => /\ Len(w) = d + 2 /\ d <= last
                          /\ last \in 0..Len(f) /\ last <= Len(f)
    BY <1>0, <1>5
  <2>2. \A i \in 0..Len(w) : ends[i] \in 0..Len(f)
    BY <1>0, <1>5, <2>1
  <2>3. ends \in [0..Len(w) -> 0..Len(f)] /\ ends[0] = 0 /\ ends[Len(w)] = Len(f)
    BY <1>0, <1>5, <2>2
  <2>4. ASSUME NEW i \in 1..Len(w)
        PROVE  IF w[i] = <<Star, Star>> THEN ends[i - 1] <= ends[i]
               ELSE ends[i] = ends[i - 1] + 1 /\ NameMeans(w[i], f[ends[i]])
    <3>1. CASE i <= d
      <4>1. ends[i] = i /\ ends[i - 1] = i - 1 /\ i \in 1..d
        BY <1>0, <3>1
      <4> QED BY <4>1, <1>2, <1>3
    <3>2. CASE i = d + 1
      <4>1. ends[i - 1] = d /\ d <= ends[i]
        BY <1>0, <1>5, <2>1, <3>2
      <4> QED BY <4>1, <2>0, <3>2
    <3>3. CASE i = d + 2
      <4>1. Len(w) = d + 2 /\ ends[i] = Len(f) /\ ends[i - 1] = last
        BY <1>0, <1>5, <3>3
      <4>2. CASE w[i] = <<Star, Star>>
        <5>1. last = Len(f)
          BY <4>1, <4>2, <3>3
        <5> HIDE DEF ends, last
        <5> QED BY <1>0, <4>1, <4>2, <5>1
      <4>3. CASE w[i] # <<Star, Star>>
        <5>1. last = Len(f) - 1
          BY <4>1, <4>3, <3>3
        <5>2. NameMatches(w, d + 1, f, Len(f) - 1)
          BY <4>1, <4>3, <3>3 DEF AlignAt
        <5>3. /\ i - 1 = d + 1 /\ Len(f) - 1 \in 0..(Len(f) - 1)
              /\ (Len(f) - 1) + 1 = Len(f) /\ Len(f) = (Len(f) - 1) + 1
          BY <1>0, <4>1, <3>3
        <5>4. NameMeans(w[i], f[Len(f)])
          BY <1>1, <5>2, <5>3, MatchedMeans
        <5> HIDE DEF ends, last
        <5> QED BY <4>1, <4>3, <5>1, <5>3, <5>4
      <4> QED BY <4>2, <4>3
    <3> QED BY <1>0, <1>5, <3>1, <3>2, <3>3
  <2> HIDE DEF ends, last
  <2> QED BY <2>3, <2>4, MeansIs
<1> QED BY <1>4, <1>5, NearEndIs

\* One of the two was used up, or a name does not match: without a double star
\* the cursors are level, so that the names cannot be told apart otherwise.
LEMMA AlignFail ==
  ASSUME NEW w \in Seq(Name), NEW f \in Seq(Name), NEW d \in 0..Len(w), Lead(w, d),
         NEW c \in Nat, NEW e \in Nat, NEW dep \in Nat, AlignAt(w, f, d, c, e, dep),
         c <= Len(w), e <= Len(f),
         \/ ~(c = Len(w) /\ e = Len(f)) /\ (c = Len(w) \/ e = Len(f))
         \/ c < Len(w) /\ e < Len(f) /\ ~NameMatches(w, c, f, e)
  PROVE  Missed(w, f)
<1> SUFFICES ASSUME OneStarNames(w), ~HasDoubleStar(w), Means(w, f) PROVE FALSE
  BY DEF Missed
<1>0. Len(w) \in Nat /\ Len(f) \in Nat
  BY LenProperties
<1>n. DOMAIN w = 1..Len(w)
  BY LenProperties
<1>1. \A i \in 1..Len(w) : w[i] # <<Star, Star>>
  BY <1>n DEF HasDoubleStar, Range
<1>2. e = c
  <2>1. d = Len(w)
    <3>1. ASSUME d < Len(w) PROVE FALSE
      <4>1. d + 1 \in 1..Len(w)
        BY <1>0, <3>1
      <4> QED BY <1>1, <3>1, <4>1 DEF Lead
    <3> QED BY <1>0, <3>1
  <2> QED BY <2>1 DEF AlignAt
<1>3. Len(w) = Len(f) /\ \A i \in 1..Len(w) : NameMeans(w[i], f[i])
  BY NameByName
<1>4. c < Len(w) /\ ~NameMatches(w, c, f, c) /\ c \in 0..(Len(w) - 1) /\ c + 1 \in 1..Len(w)
  BY <1>0, <1>2, <1>3
<1>5. OneStar(w[c + 1])
  BY <1>n, <1>1, <1>4 DEF OneStarNames
<1> QED BY <1>1, <1>3, <1>4, <1>5, MeantMatches

\* The two ways in which a match can end.
LEMMA Found ==
  ASSUME NEW w \in Seq(Name), NEW f \in Seq(Name), NEW dep \in Nat,
         Aligned(w, f, Len(w), Len(f), dep), DoubleStarNearEnd(w), ~HasMixed(w)
  PROVE  Means(w, f)
<1>1. PICK d \in 0..Len(w) : Lead(w, d)
  BY LeadExists
<1>2. AlignAt(w, f, d, Len(w), Len(f), dep)
  BY <1>1 DEF Aligned
<1> QED BY <1>1, <1>2, AlignDone

LEMMA Lost ==
  ASSUME NEW w \in Seq(Name), NEW f \in Seq(Name),
         NEW c \in Nat, NEW e \in Nat, NEW dep \in Nat, Aligned(w, f, c, e, dep),
         c <= Len(w), e <= Len(f),
         \/ ~(c = Len(w) /\ e = Len(f)) /\ (c = Len(w) \/ e = Len(f))
         \/ c < Len(w) /\ e < Len(f) /\ ~NameMatches(w, c, f, e)
  PROVE  Missed(w, f)
<1>1. PICK d \in 0..Len(w) : Lead(w, d)
  BY LeadExists
<1>2. CASE HasDoubleStar(w)
  BY <1>2 DEF Missed
<1>3. CASE ~HasDoubleStar(w)
  <2>1. DoubleStarNearEnd(w)
    <3>1. Len(w) \in Nat
      BY LenProperties
    <3>2. \A i \in 1..(Len(w) - 2) : i \in 1..Len(w)
      BY <3>1
    <3>3. DOMAIN w = 1..Len(w)
      BY LenProperties
    <3> QED BY <1>3, <3>2, <3>3 DEF HasDoubleStar, Range, DoubleStarNearEnd
  <2>2. AlignAt(w, f, d, c, e, dep)
    BY <1>1, <2>1 DEF Aligned
  <2> QED BY <1>1, <2>2, AlignFail
<1> QED BY <1>2, <1>3

\* The pattern and the path that t is at.
LEMMA MatchShapes ==
  ASSUME TInv, CursorOK, NEW t \in Thread, pc[t] \in Matching
  PROVE  /\ Pattern(t) \in Seq(Name) /\ path[t] \in Seq(Name)
         /\ Cur(t) \in Nat /\ pos[t] \in Nat /\ depth[t] \in Nat
         /\ Len(Pattern(t)) \in Nat /\ Len(path[t]) \in Nat
         /\ Cur(t) <= Len(Pattern(t)) /\ pos[t] <= Len(path[t])
<1>1. patterns[index[t]] \in Policy
  <2>1. patterns \in Seq(Policy) /\ index[t] \in DOMAIN patterns
    BY CursorSizes DEF TInv, TypeOK
  <2> QED BY <2>1, ElementOfSeq, LenProperties
<1>2. Pattern(t) \in Seq(Name) /\ Len(Pattern(t)) \in Nat
  BY <1>1, FilterAssumption DEF Pattern, MaxNodes
<1>3. path[t] \in Path \cup {<<>>} /\ pos[t] \in 0..MaxNodes /\ pos[t] <= Len(path[t])
  BY DEF TInv, TypeOK, OwnOK
<1>4. path[t] \in Seq(Name) /\ Len(path[t]) \in Nat /\ pos[t] \in Nat
  BY <1>3, FilterAssumption DEF MaxNodes
<1>5. Cur(t) \in Nat /\ depth[t] \in Nat
  BY CursorSizes
<1>6. Cur(t) <= Len(Pattern(t))
  <2>1. Cur(t) <= Size(t) \/ Cur(t) < Size(t)
    BY DEF CursorOK, Matching
  <2> QED BY <2>1, <1>2, <1>5 DEF Size
<1> QED BY <1>2, <1>3, <1>4, <1>5, <1>6

\* A step of t at its pattern.
LEMMA AloneMatch ==
  ASSUME TInv, CursorOK, NEW t \in Thread, Thread = {t}, MatchOK(t), Match(t)
  PROVE  MatchOK(t)'
<1> USE DEF locals, shared, GoTo, Matching
<1>t. TypeOK /\ OwnOK /\ index[t] \in Nat \ {0} /\ Len(patterns) \in Nat
  BY LenProperties DEF TInv, TypeOK
<1>q. UNCHANGED <<patterns, path>>
  BY DEF Match, NextPattern, Visit, Compare, Advance, Fail
<1>i. pc[t] \in Matching => index[t] \in DOMAIN cursor /\ Cur(t) \in 0..255 /\ depth[t] \in 0..12
  BY CursorSizes
<1>p. index'[t] = index[t] => Pattern(t)' = Pattern(t)
  BY <1>q DEF Pattern
<1>k. index'[t] = index[t] =>
        /\ index'[t] <= Len(patterns') + 1
        /\ \A i \in 1..(index'[t] - 1) : Missed(patterns'[i].pattern, path'[t])
  BY <1>q DEF MatchOK
<1> DEFINE w == Pattern(t)
           f == path[t]
<1>m. pc[t] \in Matching =>
        /\ w \in Seq(Name) /\ f \in Seq(Name)
        /\ Cur(t) \in Nat /\ pos[t] \in Nat /\ depth[t] \in Nat
        /\ Len(w) \in Nat /\ Len(f) \in Nat /\ Cur(t) <= Len(w) /\ pos[t] <= Len(f)
  BY MatchShapes
<1>1. CASE NextPattern(t)
  <2>0. pc[t] = "pattern" /\ index' = index /\ answer' = answer /\ answer[t] = 0
    BY <1>1 DEF NextPattern, MatchOK
  <2>1. CASE index[t] > Len(patterns)
    <3>1. pc'[t] = "done"
      BY <1>1, <2>1, <1>t DEF NextPattern, TypeOK
    <3>2. ~Answered(t)'
      BY <2>0 DEF Answered
    <3> QED BY <2>0, <3>1, <3>2, <1>k DEF MatchOK
  <2>2. CASE index[t] <= Len(patterns)
    <3>1. index[t] \in DOMAIN cursor /\ index[t] \in DOMAIN patterns
      BY <2>2, <1>t, LenProperties DEF TypeOK
    <3>2. /\ pc'[t] = "visit" /\ depth'[t] = 0 /\ pos'[t] = 0
          /\ cursor' = [cursor EXCEPT ![index[t]] = 0]
      BY <1>1, <2>2, <1>t DEF NextPattern, TypeOK, Reset
    <3>3. Cur(t)' = 0
      BY <2>0, <3>1, <3>2 DEF Cur
    <3>4. w \in Seq(Name) /\ f \in Seq(Name)
      <4>1. patterns[index[t]] \in Policy
        BY <1>t, <3>1, ElementOfSeq, LenProperties DEF TypeOK
      <4> QED BY <4>1, <1>t, FilterAssumption DEF Pattern, TypeOK
    <3>5. Aligned(w, f, 0, 0, 0)
      BY <3>4, AlignStart DEF Aligned
    <3>6. Aligned(Pattern(t), path[t], Cur(t), pos[t], depth[t])'
      BY <2>0, <3>2, <3>3, <3>5, <1>p, <1>q
    <3> QED BY <2>0, <3>2, <3>6, <1>k DEF MatchOK, Answered
  <2> QED BY <2>1, <2>2, <1>t
<1>2. CASE Visit(t)
  <2>1. /\ pc[t] = "visit" /\ UNCHANGED <<cursor, path, index, pos, depth>>
        /\ answer[t] = 0 /\ index[t] <= Len(patterns)
        /\ Aligned(w, f, Cur(t), pos[t], depth[t])
    BY <1>2 DEF Visit, MatchOK, TInv, OwnOK
  <2>2. Pattern(t)' = w /\ path'[t] = f /\ Cur(t)' = Cur(t)
    BY <2>1, <1>p DEF Cur
  <2>3. PathDone(t) <=> pos[t] = Len(f)
    BY <2>1, <1>m DEF PathDone
  <2>4. PatternDone(t) <=> Cur(t) = Len(w)
    <3>1. PatternDone(t) <=> Cur(t) >= Len(w)
      BY DEF PatternDone, Cur
    <3> QED BY <3>1, <2>1, <1>m
  <2>5. CASE Matched(t)
    <3>1. pc'[t] = "done"
      BY <1>2, <2>5, <1>t DEF Visit, TypeOK
    <3>2. DoubleStarNearEnd(w) /\ ~HasMixed(w) => Means(w, f)
      <4>1. pos[t] = Len(f) /\ Cur(t) = Len(w)
        BY <2>3, <2>4, <2>5 DEF Matched
      <4> QED BY <4>1, <2>1, <1>m, Found
    <3> QED BY <2>1, <2>2, <3>1, <3>2, <1>k, <1>q DEF MatchOK
  <2>6. CASE ~Matched(t) /\ Ended(t)
    <3>1. pc'[t] = "fail" /\ answer'[t] = 0
      BY <1>2, <2>1, <2>6, <1>t DEF Visit, TypeOK
    <3>2. Missed(w, f)
      <4>1. /\ ~(Cur(t) = Len(w) /\ pos[t] = Len(f))
            /\ Cur(t) = Len(w) \/ pos[t] = Len(f)
        BY <2>3, <2>4, <2>6 DEF Matched, Ended
      <4> QED BY <4>1, <2>1, <1>m, Lost
    <3>3. Aligned(Pattern(t), path[t], Cur(t), pos[t], depth[t])'
      BY <2>1, <2>2
    <3> QED BY <2>1, <2>2, <3>1, <3>2, <3>3, <1>k DEF MatchOK, Answered
  <2>7. CASE ~Matched(t) /\ ~Ended(t)
    <3>1. pc'[t] = "compare" /\ answer'[t] = 0
      BY <1>2, <2>1, <2>7, <1>t DEF Visit, TypeOK
    <3>2. Aligned(Pattern(t), path[t], Cur(t), pos[t], depth[t])'
      BY <2>1, <2>2
    <3> QED BY <2>1, <3>1, <3>2, <1>k DEF MatchOK, Answered
  <2> QED BY <2>5, <2>6, <2>7
<1>3. CASE Compare(t)
  <2>1. /\ pc[t] = "compare" /\ UNCHANGED <<cursor, path, index, pos>>
        /\ answer'[t] = 0 /\ Aligned(w, f, Cur(t), pos[t], depth[t])
    BY <1>3 DEF Compare, MatchOK
  <2>2. Pattern(t)' = w /\ path'[t] = f /\ Cur(t)' = Cur(t) /\ pos'[t] = pos[t]
    BY <2>1, <1>p DEF Cur
  <2>3. Cur(t) < Len(w) /\ pos[t] < Len(f)
    BY <2>1 DEF CursorOK, Size, TInv, OwnOK
  <2>4. Cur(t) \in 0..(Len(w) - 1)
    BY <2>1, <2>3, <1>m
  <2>5. NodeType(w, Cur(t)) = "double_star" <=> w[Cur(t) + 1] = <<Star, Star>>
    BY <2>1, <2>4, <1>m, NodeIs
  <2>6. CASE NodeType(w, Cur(t)) = "double_star"
    <3>1. pc'[t] = "advance" /\ depth'[t] = depth[t] + 1
      BY <1>3, <2>6, <1>t DEF Compare, TypeOK, Cur
    <3>2. Aligned(w, f, Cur(t) + 1, pos[t] + 1, depth[t] + 1)
      BY <2>1, <2>3, <2>5, <2>6, <1>m, AlignDouble DEF Aligned
    <3>3. Aligned(Pattern(t), path[t], Cur(t) + 1, pos[t] + 1, depth[t])'
      BY <2>2, <3>1, <3>2
    <3> QED BY <2>1, <3>1, <3>3, <1>k DEF MatchOK, Answered
  <2>7. CASE NodeType(w, Cur(t)) # "double_star" /\ NameMatches(w, Cur(t), f, pos[t])
    <3>1. pc'[t] = "advance" /\ depth'[t] = depth[t]
      BY <1>3, <2>7, <1>t DEF Compare, TypeOK, Cur
    <3>2. Aligned(w, f, Cur(t) + 1, pos[t] + 1, depth[t])
      BY <2>1, <2>3, <2>5, <2>7, <1>m, AlignName DEF Aligned
    <3>3. Aligned(Pattern(t), path[t], Cur(t) + 1, pos[t] + 1, depth[t])'
      BY <2>2, <3>1, <3>2
    <3> QED BY <2>1, <3>1, <3>3, <1>k DEF MatchOK, Answered
  <2>8. CASE NodeType(w, Cur(t)) # "double_star" /\ ~NameMatches(w, Cur(t), f, pos[t])
    <3>1. pc'[t] = "fail" /\ depth'[t] = depth[t]
      BY <1>3, <2>8, <1>t DEF Compare, TypeOK, Cur
    <3>2. Missed(w, f)
      BY <2>1, <2>3, <2>8, <1>m, Lost
    <3>3. Aligned(Pattern(t), path[t], Cur(t), pos[t], depth[t])'
      BY <2>1, <2>2, <3>1
    <3> QED BY <2>1, <2>2, <3>1, <3>2, <3>3, <1>k DEF MatchOK, Answered
  <2> QED BY <2>6, <2>7, <2>8
<1>4. CASE Advance(t)
  <2>1. /\ pc[t] = "advance" /\ pc'[t] = "visit" /\ UNCHANGED <<path, index, depth, answer>>
        /\ pos'[t] = pos[t] + 1 /\ answer[t] = 0
        /\ \E p \in {Cur(t), saw[t]} : cursor' = [cursor EXCEPT ![index[t]] = (p + 1) % 256]
        /\ Aligned(w, f, Cur(t) + 1, pos[t] + 1, depth[t])
    BY <1>4, <1>t DEF Advance, TypeOK, Cur, MatchOK
  <2>2. saw[t] = Cur(t) /\ Cur(t) < Size(t)
    BY <2>1 DEF CursorOK
  <2>3. Cur(t)' = (Cur(t) + 1) % 256
    BY <2>1, <2>2, <1>i DEF Cur
  <2>4. Cur(t)' = Cur(t) + 1
    <3>1. Size(t) \in 0..12
      BY <2>1, CursorSizes
    <3> QED BY <2>1, <2>2, <2>3, <3>1, <1>i, OneFurther
  <2>5. Aligned(Pattern(t), path[t], Cur(t), pos[t], depth[t])'
    BY <2>1, <2>4, <1>p
  <2> QED BY <2>1, <2>5, <1>k DEF MatchOK, Answered
<1>5. CASE Fail(t)
  <2>0. /\ pc[t] = "fail" /\ UNCHANGED <<path, answer>> /\ answer[t] = 0
        /\ index[t] <= Len(patterns)
        /\ Missed(w, f) /\ Aligned(w, f, Cur(t), pos[t], depth[t])
    BY <1>5 DEF Fail, MatchOK, TInv, OwnOK
  <2>1. CASE depth[t] = 0
    <3>1. pc'[t] = "pattern" /\ index'[t] = index[t] + 1
      BY <1>5, <2>1, <1>t DEF Fail, TypeOK
    <3>2. index'[t] <= Len(patterns') + 1
      BY <2>0, <3>1, <1>q, <1>t
    <3>3. ASSUME NEW i \in 1..(index'[t] - 1) PROVE Missed(patterns'[i].pattern, path'[t])
      <4>1. CASE i = index[t]
        BY <4>1, <2>0, <1>q DEF Pattern
      <4>2. CASE i # index[t]
        <5>1. i \in 1..(index[t] - 1)
          BY <4>2, <3>1, <1>t
        <5> QED BY <5>1, <1>q DEF MatchOK
      <4> QED BY <4>1, <4>2
    <3> QED BY <2>0, <3>1, <3>2, <3>3 DEF MatchOK, Answered
  <2>2. CASE depth[t] > 0
    <3>1. /\ pc'[t] = "visit" /\ index' = index /\ pos'[t] = pos[t]
          /\ depth'[t] = depth[t] - 1
          /\ cursor' = [cursor EXCEPT ![index[t]] = (Cur(t) + 255) % 256]
      BY <1>5, <2>2, <1>t DEF Fail, TypeOK, Cur, GivenBack
    <3>2. depth[t] <= Cur(t)
      BY <2>0 DEF CursorOK
    <3>3. Cur(t)' = (Cur(t) + 255) % 256
      BY <2>0, <3>1, <1>i DEF Cur
    <3>4. Cur(t)' = Cur(t) - 1
      BY <2>0, <3>2, <3>3, <2>2, <1>i, OneBack
    <3>5. Aligned(w, f, Cur(t) - 1, pos[t], depth[t] - 1)
      BY <2>0, <2>2, <1>m, AlignBack DEF Aligned
    <3>6. Aligned(Pattern(t), path[t], Cur(t), pos[t], depth[t])'
      BY <2>0, <3>1, <3>4, <3>5, <1>p
    <3> QED BY <2>0, <3>1, <3>6, <1>k DEF MatchOK, Answered
  <2> QED BY <2>0, <2>1, <2>2, <1>i
<1> QED BY <1>1, <1>2, <1>3, <1>4, <1>5 DEF Match

\* The watcher may add to the list while t matches, or after it.
LEMMA AddMatch ==
  ASSUME TInv, NEW t \in Thread, MatchOK(t), SetPolicies \/ FilterAdd
  PROVE  MatchOK(t)'
<1>1. UNCHANGED <<pc, path, index, pos, depth, answer>>
  BY DEF SetPolicies, FilterAdd, locals
<1>2. /\ patterns \in Seq(Policy) /\ cursor \in Seq(0..255) /\ Len(cursor) = Len(patterns)
      /\ Len(patterns) \in Nat /\ index[t] \in Nat \ {0}
  BY LenProperties DEF TInv, TypeOK
<1>3. \/ UNCHANGED <<patterns, cursor>>
      \/ \E e \in Policy : patterns' = Append(patterns, e) /\ cursor' = Append(cursor, 0)
  <2>1. CASE FilterAdd
    <3>1. Head(readd) \in Policy
      BY <2>1, HeadTailProperties DEF TInv, TypeOK, FilterAdd
    <3> QED BY <2>1, <3>1 DEF FilterAdd
  <2> QED BY <2>1 DEF SetPolicies
<1>4. Len(patterns) <= Len(patterns') /\ Len(patterns') \in Nat
  BY <1>2, <1>3, AppendProperties
<1>5. ASSUME NEW i \in 1..Len(patterns)
      PROVE  patterns'[i] = patterns[i] /\ cursor'[i] = cursor[i]
  <2>1. i \in DOMAIN patterns /\ i \in DOMAIN cursor
    BY <1>2, LenProperties
  <2>2. ASSUME NEW e \in Policy, patterns' = Append(patterns, e), cursor' = Append(cursor, 0)
        PROVE  patterns'[i] = patterns[i] /\ cursor'[i] = cursor[i]
    <3>1. Append(patterns, e)[i] = patterns[i]
      BY <1>2, <2>1, AppendKeeps
    <3>2. Append(cursor, 0)[i] = cursor[i]
      BY <1>2, <2>1, AppendKeeps
    <3> QED BY <2>2, <3>1, <3>2
  <2> QED BY <1>3, <2>2
<1>6. index[t] <= Len(patterns) => Pattern(t)' = Pattern(t) /\ Cur(t)' = Cur(t)
  <2> SUFFICES ASSUME index[t] <= Len(patterns)
               PROVE  Pattern(t)' = Pattern(t) /\ Cur(t)' = Cur(t)
    OBVIOUS
  <2>1. index[t] \in 1..Len(patterns) /\ index'[t] = index[t]
    BY <1>1, <1>2
  <2> QED BY <1>5, <2>1 DEF Pattern, Cur
<1>7. pc[t] \in Matching => index[t] <= Len(patterns)
  BY DEF TInv, OwnOK
<1>8. index'[t] <= Len(patterns') + 1
  BY <1>1, <1>2, <1>4 DEF MatchOK
<1>9. ASSUME NEW i \in 1..(index'[t] - 1) PROVE Missed(patterns'[i].pattern, path'[t])
  <2>1. i \in 1..(index[t] - 1) /\ i \in 1..Len(patterns)
    BY <1>1, <1>2 DEF MatchOK
  <2> QED BY <1>1, <1>5, <2>1 DEF MatchOK
<1>10. Answered(t)' => Answered(t)
  BY <1>1 DEF Answered
<1>11. Answered(t) => index[t] <= Len(patterns) /\ index'[t] <= Len(patterns')
  <2>1. ASSUME Answered(t) PROVE index[t] <= Len(patterns) /\ index'[t] <= Len(patterns')
    <3>1. index[t] <= Len(patterns)
      BY <2>1 DEF MatchOK
    <3> QED BY <3>1, <1>1, <1>2, <1>4
  <2> QED BY <2>1
<1> QED BY <1>1, <1>6, <1>7, <1>8, <1>9, <1>10, <1>11 DEF MatchOK, Matching

LEMMA StepMatch ==
  ASSUME TInv, CursorOK, NEW t \in Thread, Thread = {t}, MatchOK(t), [Next]_vars
  PROVE  MatchOK(t)'
<1>1. CASE UNCHANGED vars
  BY <1>1 DEF MatchOK, Answered, Cur, Pattern, vars, shared, locals
<1>2. CASE Match(t)
  BY <1>2, AloneMatch
<1>3. ASSUME NEW f \in Path, FilterMatch(t, f) PROVE MatchOK(t)'
  <2>1. /\ pc'[t] \in {"pattern", "done"} /\ index'[t] = 1 /\ answer'[t] = 0
        /\ patterns' = patterns
    BY <1>3 DEF FilterMatch, GoTo, FirstIndex, shared, TInv, TypeOK
  <2>2. Len(patterns) \in Nat
    BY LenProperties DEF TInv, TypeOK
  <2>3. index'[t] <= Len(patterns') + 1 /\ 1..(index'[t] - 1) = {}
    BY <2>1, <2>2
  <2> QED BY <2>1, <2>3 DEF MatchOK, Answered
<1>4. CASE SetPolicies \/ FilterAdd
  BY <1>4, AddMatch
<1> QED BY <1>1, <1>2, <1>3, <1>4 DEF Next

\* With one VM the answer of filter_match is right as far as fnmatch.c supports
\* the patterns: a pattern that is passed over does not mean the path, if it has
\* no double star, and the one that is said to match means it, if one name at
\* most follows its double star and no name has a star in it.  Any policies, any
\* paths, and the watcher may add to the list at any moment.
THEOREM OneVmMatchExact ==
  ASSUME NEW t \in Thread, Thread = {t}
  PROVE  Spec => []MatchExact
<1>1. Init => CursorOK /\ MatchOK(t)
  <2> SUFFICES ASSUME Init PROVE CursorOK /\ MatchOK(t)
    OBVIOUS
  <2>1. CursorOK
    BY DEF Init, CursorOK
  <2>2. pc[t] = "idle" /\ index[t] = 1 /\ patterns = <<>>
    BY DEF Init
  <2>3. index[t] <= Len(patterns) + 1 /\ 1..(index[t] - 1) = {}
    BY <2>2
  <2> QED BY <2>1, <2>2, <2>3 DEF MatchOK, Matching, Answered
<1>2. TInv /\ CursorOK /\ MatchOK(t) /\ [Next]_vars => CursorOK' /\ MatchOK(t)'
  BY StepCursor, StepMatch
<1>3. MatchOK(t) => MatchExact
  <2> SUFFICES ASSUME MatchOK(t) PROVE MatchExact
    OBVIOUS
  <2>1. NoneMissed
    BY DEF MatchOK, Missed, Passed, NoneMissed
  <2>2. NoFalseAlarm
    BY DEF MatchOK, NoFalseAlarm
  <2> QED BY <2>1, <2>2 DEF MatchExact
<1> QED BY <1>1, <1>2, <1>3, TInvInvariant, PTL DEF Spec
=============================================================================
