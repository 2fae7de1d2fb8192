----------------------------- MODULE FileFilter -----------------------------
(***************************************************************************)
(* A file filter of the monitors: file_filter.c with the matching loop of  *)
(* fnmatch.c, as the threads of HFM run them.                              *)
(*                                                                         *)
(* A filter is one list of patterns for all VMs.  The listening thread of  *)
(* each VM matches paths against it, and the watcher thread adds all the   *)
(* policies to it once more whenever it has restarted a VM.  No lock is    *)
(* taken, and a pattern contains the cursor of the match in progress       *)
(* (cur_node), which belongs to nobody in particular.                      *)
(*                                                                         *)
(* _match calls itself for what follows a double star; it keeps nothing of *)
(* its own across the call, so the depth of the recursion is its state.    *)
(***************************************************************************)
EXTENDS FnMatch, FiniteSets

CONSTANTS
  Thread,       \* the listening threads, one per VM
  Tables,       \* the policies there may be, in the order of the hash table
  Path,         \* the paths that the guests may use
  MaxRestarts,  \* bound: how often VMs are restarted
  MaxPatterns   \* bound: the length of the list, ids[] in the code

\* fnmatch.h: a path has 13 levels of directories at most, and needs an offset
\* for its end.
MaxNodes == 12

Policy == UNION {Range(table) : table \in Tables}

ASSUME FilterAssumption ==
  /\ Tables \subseteq Seq(Policy)
  /\ \A pol \in Policy :
       pol.id \in Nat /\ pol.pattern \in Seq(Name) /\ Len(pol.pattern) \in 0..MaxNodes
  /\ \A f \in Path \cup {<<>>} : f \in Seq(Name) /\ Len(f) \in 0..MaxNodes
  /\ IsFiniteSet(Thread)
  /\ MaxRestarts \in Nat /\ MaxPatterns \in Nat

VARIABLES
  policies,     \* vm->policies, what hfm_set_policies walks
  patterns,     \* filter->patterns and filter->ids
  cursor,       \* cur_node of each pattern, a uint8_t
  readd, sets,  \* hfm_set_policies: what it has still to add, calls made of it
  pc, path, index,      \* each listening thread: where it is, the path it
  pos, depth, saw,      \* matches, at which pattern (i), cur_node of the path,
  answer                \* the recursion, the cursor it has just read, the result

shared == <<policies, patterns, readd, sets>>
locals == <<path, index, pos, depth, saw, answer>>
vars   == <<shared, cursor, pc, locals>>

Init ==
  /\ policies \in Tables
  /\ patterns = <<>> /\ cursor = <<>>
  /\ readd = <<>> /\ sets = 0
  /\ pc = [t \in Thread |-> "idle"] /\ path = [t \in Thread |-> <<>>]
  /\ index = [t \in Thread |-> 1] /\ pos = [t \in Thread |-> 0]
  /\ depth = [t \in Thread |-> 0] /\ saw = [t \in Thread |-> 0]
  /\ answer = [t \in Thread |-> 0]

GoTo(t, l) == pc' = [pc EXCEPT ![t] = l]

-----------------------------------------------------------------------------
(* hfm_set_policies: main calls it for each VM before it starts the threads,  *)
(* and hfm_restart_vmi, on the watcher thread, at the end of each restart.   *)

Vms == Cardinality(Thread)

SetPolicies ==
  /\ readd = <<>> /\ sets < Vms + MaxRestarts
  /\ readd' = policies /\ sets' = sets + 1
  /\ UNCHANGED <<policies, patterns, cursor, pc, locals>>

\* filter_add: ids[] is written before the pattern can be seen in the list.  What
\* cannot be translated is left out, without a word.
FilterAdd ==
  /\ readd # <<>> /\ Len(patterns) < MaxPatterns
  /\ readd' = Tail(readd)
  /\ IF Translates(Head(readd).pattern)
     THEN /\ patterns' = Append(patterns, Head(readd))
          /\ cursor' = Append(cursor, 0)
     ELSE UNCHANGED <<patterns, cursor>>
  /\ UNCHANGED <<policies, sets, pc, locals>>

-----------------------------------------------------------------------------
(* filter_match.  The answer -1 is 0 here, which no policy has as its id.    *)

\* The loop starts one too early.
FirstIndexErr == 0

\* for (i = 0; ...): the first pattern, counted from 1 here.
FirstIndex == 1

\* A path that cannot be translated matches nothing.  Its nodelist is new.
FilterMatch(t, f) ==
  /\ sets > Vms \/ (sets = Vms /\ readd = <<>>)
  /\ pc[t] \in {"idle", "done"}
  /\ path' = [path EXCEPT ![t] = f]
  /\ index' = [index EXCEPT ![t] = FirstIndex]
  /\ answer' = [answer EXCEPT ![t] = 0]
  /\ pos' = [pos EXCEPT ![t] = 0] /\ saw' = [saw EXCEPT ![t] = 0]
  /\ GoTo(t, IF Translates(f) THEN "pattern" ELSE "done")
  /\ UNCHANGED <<shared, cursor, depth>>

\* The cursor of the path is not reset for the next pattern.
ResetErr(t) == pos[t]

\* NODE_RESET of the path.
Reset(t) == 0

\* fn_match resets both cursors.
NextPattern(t) ==
  /\ pc[t] = "pattern"
  /\ \/ /\ index[t] > Len(patterns)
        /\ GoTo(t, "done")
        /\ UNCHANGED <<cursor, pos, depth>>
     \/ /\ index[t] <= Len(patterns)
        /\ cursor' = [cursor EXCEPT ![index[t]] = 0]
        /\ pos' = [pos EXCEPT ![t] = Reset(t)]
        /\ depth' = [depth EXCEPT ![t] = 0]
        /\ GoTo(t, "visit")
  /\ UNCHANGED <<shared, path, index, saw, answer>>

\* The pattern that t is at, and whether a cursor has passed all its nodes.
Pattern(t) == patterns[index[t]].pattern
PatternDone(t) == cursor[index[t]] >= Len(Pattern(t))
PathDone(t) == pos[t] >= Len(path[t])

\* The path may end before the pattern does.
MatchedErr(t) == PathDone(t)

\* Both were used up together.
Matched(t) == PathDone(t) /\ PatternDone(t)

\* The end of the pattern is not looked at again once the path goes on.
EndedErr(t) == PathDone(t)

\* One of the two was used up.
Ended(t) == PathDone(t) \/ PatternDone(t)

\* The tests at the label TailRecursive.
Visit(t) ==
  /\ pc[t] = "visit"
  /\ saw' = [saw EXCEPT ![t] = cursor[index[t]]]
  /\ \/ /\ Matched(t)
        /\ answer' = [answer EXCEPT ![t] = patterns[index[t]].id]
        /\ GoTo(t, "done")
     \/ ~Matched(t) /\ Ended(t) /\ GoTo(t, "fail") /\ UNCHANGED answer
     \/ ~Matched(t) /\ ~Ended(t) /\ GoTo(t, "compare") /\ UNCHANGED answer
  /\ UNCHANGED <<shared, cursor, path, index, pos, depth>>

\* A double star takes one name of the path, and the rest is a call of _match;
\* any other name must match.
Compare(t) ==
  /\ pc[t] = "compare"
  /\ LET p == cursor[index[t]] IN
     \/ /\ NodeType(Pattern(t), p) = "double_star"
        /\ depth' = [depth EXCEPT ![t] = @ + 1]
        /\ GoTo(t, "advance")
     \/ /\ NodeType(Pattern(t), p) # "double_star"
        /\ GoTo(t, IF NameMatches(Pattern(t), p, path[t], pos[t])
                   THEN "advance" ELSE "fail")
        /\ UNCHANGED depth
  /\ UNCHANGED <<shared, cursor, path, index, pos, saw, answer>>

\* NODE_NEXT twice.  The increment of the shared cursor may be of the value
\* that was read before: what another thread wrote in between is lost.
Advance(t) ==
  /\ pc[t] = "advance"
  /\ \E p \in {cursor[index[t]], saw[t]} :
        cursor' = [cursor EXCEPT ![index[t]] = (p + 1) % 256]
  /\ pos' = [pos EXCEPT ![t] = @ + 1]
  /\ GoTo(t, "visit")
  /\ UNCHANGED <<shared, path, index, depth, saw, answer>>

\* The name that the double star took is given back as well.
GivenBackErr(e) == e - 1

\* NODE_BACK is for the pattern only; the cursor of the path stays.
GivenBack(e) == e

\* _match returns 0: the caller takes a step back, from wherever the call has
\* left the cursor, and goes on; without a caller the next pattern's turn comes.
Fail(t) ==
  /\ pc[t] = "fail"
  /\ \/ /\ depth[t] > 0
        /\ cursor' = [cursor EXCEPT ![index[t]] = (@ + 255) % 256]
        /\ pos' = [pos EXCEPT ![t] = GivenBack(@)]
        /\ depth' = [depth EXCEPT ![t] = @ - 1]
        /\ GoTo(t, "visit")
        /\ UNCHANGED index
     \/ /\ depth[t] = 0
        /\ index' = [index EXCEPT ![t] = @ + 1]
        /\ GoTo(t, "pattern")
        /\ UNCHANGED <<cursor, pos, depth>>
  /\ UNCHANGED <<shared, path, saw, answer>>

Match(t) == NextPattern(t) \/ Visit(t) \/ Compare(t) \/ Advance(t) \/ Fail(t)

Next ==
  \/ \E t \in Thread : Match(t) \/ \E f \in Path : FilterMatch(t, f)
  \/ SetPolicies \/ FilterAdd

Spec == Init /\ [][Next]_vars

\* Each listening thread is scheduled.
FairSpec == Spec /\ \A t \in Thread : WF_vars(Match(t))

-----------------------------------------------------------------------------
(* Properties.                                                               *)

Labels == {"idle", "pattern", "visit", "compare", "advance", "fail", "done"}

TypeOK ==
  /\ policies \in Tables
  /\ patterns \in Seq(Policy)
  /\ cursor \in Seq(0..255) /\ Len(cursor) = Len(patterns)
  /\ readd \in Seq(Policy)
  /\ sets \in 0..(Vms + MaxRestarts)
  /\ pc \in [Thread -> Labels]
  /\ path \in [Thread -> Path \cup {<<>>}]
  /\ index \in [Thread -> Nat \ {0}]
  /\ pos \in [Thread -> 0..MaxNodes]
  /\ depth \in [Thread -> 0..MaxNodes]
  /\ saw \in [Thread -> 0..255]
  /\ answer \in [Thread -> Nat]

\* nodetypes[] and offsets[] are only read at nodes that exist: the loop looks at
\* the end of both lists before it compares, and NODE_BACK never takes a cursor
\* to before its first node, where a uint8_t would wrap.
IndexInRange ==
  \A t \in Thread :
    /\ pc[t] = "compare" => ~PatternDone(t) /\ ~PathDone(t)
    /\ pc[t] = "fail" /\ depth[t] > 0 => cursor[index[t]] > 0

\* The answer that t has got.
Answered(t) == pc[t] = "done" /\ answer[t] # 0
Unanswered(t) == pc[t] = "done" /\ answer[t] = 0

\* The patterns that were tried before the one that matched.
Passed(t) == IF pc[t] = "done" THEN {patterns[i].pattern : i \in 1..(index[t] - 1)}
             ELSE {}

\* No pattern without a double star is passed by that means the path, even
\* while patterns are added: the answer is the first of them (file_filter.h).
NoneMissed ==
  \A t \in Thread : \A w \in Passed(t) :
     OneStarNames(w) /\ ~HasDoubleStar(w) => ~(Translates(path[t]) /\ Means(w, path[t]))

\* A pattern that is said to match means the path, if no more than one name
\* follows a double star and no name has a star in it.
NoFalseAlarm ==
  \A t \in Thread :
     Answered(t) /\ DoubleStarNearEnd(Pattern(t)) /\ ~HasMixed(Pattern(t))
     => Means(Pattern(t), path[t])

\* The answer is right as far as the matcher supports the patterns, both ways.
MatchExact == NoneMissed /\ NoFalseAlarm

\* Every call of filter_match returns, also while a restart extends the list.
Returns == \A t \in Thread : pc[t] = "pattern" ~> pc[t] = "done"

\* file_filter.h: "ID of first matching pattern, return -1 if not match", here
\* for a path that one pattern spells out name by name.
FirstMatch ==
  \A t \in Thread : Unanswered(t) =>
     \A i \in DOMAIN patterns : patterns[i].pattern # path[t]
=============================================================================
